------------------------------- MODULE CosX86 -------------------------------
(***************************************************************************)
(* The x86 cos entry point (src/libm/x86/s_cos.S, ENTRY(cos)).             *)
(*                                                                         *)
(* cos is a pure function; the model evaluates it for an input x and for  *)
(* -x (two independent calls, the lanes), so that the evenness of cos can *)
(* be stated.  An input is abstracted to                                   *)
(*   hw  the top 16 bits of x (what pextrw $3 reads), which decide the    *)
(*       path, and                                                         *)
(*   t8  8 * fl(x * 32/pi) as a code (see TSamples), the scaled input    *)
(*       from which the fast path rounds N, sampled at both ends of the   *)
(*       range hw allows (only meaningful on the fast path).              *)
(*   carry  whether fl(x * 32/pi) is +-(0.5 - 2^-54), the one y for which *)
(*       the rounding of y + copysign(0.5, x) moves N (see CarryPossible). *)
(* The fast path is followed up to the table entry and the remainder r it *)
(* hands to the polynomial and compensated summation.  Those steps use    *)
(* only products and sums of the entry's fields with r and c, and negating *)
(* an operand of a rounded product or sum negates the result exactly, so  *)
(* two inputs whose entries are mirror images (C_hl and sigma negated)    *)
(* and whose r and c are negated give the same result.                    *)
(***************************************************************************)
EXTENDS Integers, Sequences, Bitwise, AngleTable

CONSTANT HighWords   \* the values of the top 16 bits of x that are tried

ASSUME HighWords \subseteq 0..65535

VARIABLES input, out

vars == <<input, out>>

Lanes == {"x", "minus_x"}

None == [path |-> "none"]

Exponent(hw) == (hw \div 16) % 2048
SignBit(hw) == hw \div 32768
FlipSign(hw) == (hw + 32768) % 65536

(* |x| lies in [MantLo * 2^Scale, MantHi * 2^Scale): the exponent and the *)
(* top four fraction bits are known, the rest of the fraction is not.     *)
Scale(hw) == IF Exponent(hw) = 0 THEN 1 - 1027 ELSE Exponent(hw) - 1027
MantLo(hw) == IF Exponent(hw) = 0 THEN 0 ELSE 16 + (hw % 16)
MantHi(hw) == 17 + (hw % 16)

-----------------------------------------------------------------------------
(* The code.                                                               *)

(* Mutant: the first branch compares signed (jg instead of ja).          *)
Classify_signed(hw) ==
  LET a == (hw & 32767) - 12336
  IN  IF a <= 4293 THEN "fast"
      ELSE IF (hw & 32752) = 32752 THEN "nan" ELSE "huge"

(* Mutant: the dispatch bound 4309 (top word 0x4105) in place of 4293.    *)
Classify_wide(hw) ==
  LET a == (hw & 32767) - 12336
  IN  IF ~(a < 0 \/ a > 4309) THEN "fast"
      ELSE IF a > 4309
             THEN IF (hw & 32752) = 32752 THEN "nan" ELSE "huge"
             ELSE "tiny"

(* pextrw $3; andl $32767; subl $12336; cmpl $4293; ja (unsigned) and,    *)
(* after it, jg (signed) on the same comparison; the huge branch then     *)
(* tests the exponent field of the high word for all ones.                *)
Classify(hw) ==
  LET a == (hw & 32767) - 12336
  IN  IF ~(a < 0 \/ a > 4293) THEN "fast"
      ELSE IF a > 4293
             THEN IF (hw & 32752) = 32752 THEN "nan" ELSE "huge"
             ELSE "tiny"

(* 100097/9827 < 32/pi < 65526/6433; for every top word of the fast path *)
(* both give the same floor at both ends of the range below, so that      *)
(* floor is the one of the stored 32/pi (offset 2160).                     *)
InvPi32Lo == <<100097, 9827>>

(* floor(y * p / q) for 0 <= y < 2^20 without leaving 32 bits.            *)
MulFloor(y, c) == (y \div c[2]) * c[1] + ((y % c[2]) * c[1]) \div c[2]

(* floor(4 * m * 2^s * 32/pi): |x| * 32/pi in quarters, rounded down.     *)
QuarterFloor(m, s) ==
  IF s >= 0 THEN MulFloor(4 * m * 2^s, InvPi32Lo)
  ELSE IF -s > 24 THEN 0 ELSE MulFloor(4 * m, InvPi32Lo) \div 2^(-s)

(* The scaled input t8 = 8 * |fl(x * 32/pi)| as a code: an even code 2k   *)
(* is the quarter k / 4 itself, an odd code 2k + 1 any value strictly     *)
(* between k / 4 and (k + 1) / 4.  Between quarters N is decided by the   *)
(* truncation alone, with one exception (Carry).                          *)
(* |x| ranges over [MantLo, MantHi) * 2^Scale and neither end is a        *)
(* quarter, so the codes reached run from 2 * floor(lo) + 1 to           *)
(* 2 * floor(hi) + 1; the three smallest and three largest are tried.     *)
TSamples(hw) ==
  IF Classify(hw) # "fast" THEN {0}
  ELSE LET lo == 2 * QuarterFloor(MantLo(hw), Scale(hw)) + 1
           hi == 2 * QuarterFloor(MantHi(hw), Scale(hw)) + 1
       IN  {v \in lo .. hi : v <= lo + 2 \/ v >= hi - 2}

Trunc(v, d) == IF v >= 0 THEN v \div d ELSE -((-v) \div d)

(* addpd (line 215) rounds y + copysign(0.5, x).  The rounding can carry  *)
(* the sum onto the next integer only where y and the sum lie in          *)
(* different binades, i.e. for |y| = 0.5 - 2^-54 alone (|sum| = 1 - 2^-54 *)
(* ties to 1.0): code 3, and only for the top word whose range of y       *)
(* reaches past 0.5 (0x3fa9, e.g. x = <<1413754135, 1068048891>>).        *)
CarryPossible(hw, v) ==
  /\ v \in {3, -3}
  /\ 2 * QuarterFloor(MantHi(hw), Scale(hw)) + 1 >= 5

(* Mutant: 0.5 is added without taking the sign of x.                    *)
RoundN_half_up(in) == Trunc(in.t8 + 4, 8) + (IF in.carry THEN 1 ELSE 0)

(* N = cvttsd2si(x * 32/pi + copysign(0.5, x)): the sign of x is masked   *)
(* into the 0.5 pair (andpd, orps), the sum is rounded (addpd) and        *)
(* truncated toward zero.                                                  *)
RoundN(in) ==
  LET half == IF SignBit(in.hw) = 1 THEN -4 ELSE 4
  IN  Trunc(in.t8 + half, 8) + (IF in.carry THEN half \div 4 ELSE 0)

(* addl $1865232; andl $63: the entry index of N, in two's complement.    *)
TableIndex(n) == (n + 1865232) % 64

FastResult(in) ==
  LET n == RoundN(in)
      m == TableIndex(n)
  IN  [path |-> "fast", n |-> n, idx |-> m, entry |-> Table[m + 1],
       r8 |-> in.t8 - 8 * n]

(* Mutant: the sign bit is not masked off, so 1.0 - x is returned.       *)
TinyResult_signed(in) == [path |-> "tiny", mag |-> in.hw]

(* pinsrw $3 stores |x|'s top word back into x, and 1.0 - |x| is returned. *)
TinyResult(in) == [path |-> "tiny", mag |-> in.hw & 32767]

(* __libm_sincos_huge(x, &result, 1) computes the result.                 *)
HugeResult(in) == [path |-> "huge", hw |-> in.hw]

(* x * -0.0 (offset 2208): NaN for an infinite or NaN x.                  *)
NanResult(in) == [path |-> "nan", factor |-> NegZero]

CosResult(in) ==
  CASE Classify(in.hw) = "fast" -> FastResult(in)
    [] Classify(in.hw) = "tiny" -> TinyResult(in)
    [] Classify(in.hw) = "huge" -> HugeResult(in)
    [] Classify(in.hw) = "nan"  -> NanResult(in)

Init ==
  /\ \E hw \in HighWords : \E v \in TSamples(hw) :
     \E c \in IF CarryPossible(hw, v) THEN BOOLEAN ELSE {FALSE} :
       LET t8 == IF SignBit(hw) = 1 THEN -v ELSE v
       IN  input = [x       |-> [hw |-> hw, t8 |-> t8, carry |-> c],
                    minus_x |-> [hw |-> FlipSign(hw), t8 |-> -t8, carry |-> c]]
  /\ out = [l \in Lanes |-> None]

(* One call of cos, in lane l.                                             *)
Cos(l) ==
  /\ out[l] = None
  /\ out' = [out EXCEPT ![l] = CosResult(input[l])]
  /\ UNCHANGED input

Next == \E l \in Lanes : Cos(l)

Spec == Init /\ [][Next]_vars

-----------------------------------------------------------------------------
(* Properties.                                                             *)

FastOut == [path : {"fast"}, n : Int, idx : 0..63, entry : Seq(Seq(Int)),
            r8 : Int]

TypeOK ==
  /\ input \in [Lanes -> [hw : 0..65535, t8 : Int, carry : BOOLEAN]]
  /\ \A l \in Lanes :
       \/ out[l] \in {None} \cup FastOut
       \/ out[l] \in [path : {"tiny"}, mag : 0..32767]
       \/ out[l] \in [path : {"huge"}, hw : 0..65535]
       \/ out[l] \in [path : {"nan"}, factor : {NegZero}]

(* a * 2^p >= b * 2^q, for 0 <= a, b < 2^12.                               *)
AtLeast(a, p, b, q) ==
  IF a = 0 THEN b = 0
  ELSE IF b = 0 THEN TRUE
  ELSE LET d == p - q
       IN  IF d >= 0 THEN d > 12 \/ a * 2^d >= b
                     ELSE -d <= 12 /\ a >= b * 2^(-d)

(* The path the algorithm description of s_cos.S assigns to an input:     *)
(* 1 - |x| below 2^-252, the table method for 2^-252 <= |x| < 90112       *)
(* (= 11 * 2^13), NaN for an infinite or NaN x, __libm_sincos_huge        *)
(* otherwise; "straddles" if the known bits leave it open.                 *)
DocumentedPath(hw) ==
  CASE Exponent(hw) = 2047 -> "nan"
    [] AtLeast(1, -252, MantHi(hw), Scale(hw)) -> "tiny"
    [] AtLeast(MantLo(hw), Scale(hw), 1, -252)
       /\ AtLeast(11, 13, MantHi(hw), Scale(hw)) -> "fast"
    [] AtLeast(MantLo(hw), Scale(hw), 11, 13) -> "huge"
    [] OTHER -> "straddles"

(* The constants 12336 and 4293 and the unsigned-then-signed comparison    *)
(* send every input to the path the algorithm description gives for its   *)
(* magnitude: cos(0) and subnormals to 1 - |x|, NaN and infinities to NaN, *)
(* and the table method exactly for 2^-252 <= |x| < 90112.                 *)
DispatchMatchesMagnitude ==
  \A l \in Lanes :
    out[l] # None => out[l].path = DocumentedPath(input[l].hw)

(* Bits needed to write |n| in binary.                                     *)
RECURSIVE BitLength(_)
BitLength(n) == IF n = 0 THEN 0 ELSE 1 + BitLength(n \div 2)

(* The dispatch bound (cmpl $4293, line 205) keeps the N of the table    *)
(* path, the addpd carry of line 215 included, within the documented      *)
(* 932560 and small enough that N * P_1 and N * P_2 (lines 227-230) are    *)
(* exact doubles, which the reduction r = x - N * P_1 - N * P_2 needs.     *)
NKeepsProductsExact ==
  \A l \in Lanes :
    out[l].path = "fast" =>
      LET n == out[l].n IN
      /\ -932560 <= n /\ n <= 932560
      /\ BitLength(IF n < 0 THEN -n ELSE n) + SignificantBits(P_1) <= 53
      /\ BitLength(IF n < 0 THEN -n ELSE n) + SignificantBits(P_2) <= 53

IsZero(d) == d[1] = 0 /\ (d[2] = 0 \/ d[2] = -2147483647 - 1)
SameDouble(a, b) == a = b \/ (IsZero(a) /\ IsZero(b))

(* The entry of the angle pi - B: C_hl and sigma negated, S kept.          *)
Mirror(e) == <<Neg(e[1]), e[2], e[3], Neg(e[4])>>

(* cos(x) and cos(-x) are the same double (section 8 of the spec): for -x *)
(* the fast path rounds to -N, reaches -r and an entry that is the mirror *)
(* image, bit for bit up to the sign of a zero field, of the one used for *)
(* x; the other paths see the same |x|.  __libm_sincos_huge is taken to   *)
(* be even itself.                                                         *)
CosIsEven ==
  LET a == out["x"]
      b == out["minus_x"]
  IN  a # None /\ b # None =>
        CASE a.path = "fast" ->
               /\ b.path = "fast"
               /\ b.n = -a.n /\ b.r8 = -a.r8
               /\ \A i \in 1..4 : SameDouble(b.entry[i], Mirror(a.entry)[i])
          [] a.path = "huge" -> b.path = "huge"
          [] OTHER -> b = a

(* The data model of the spec (section 3) says that the sigma field of     *)
(* every entry is an exact power of two, including its sign, so that the  *)
(* fast path's sigma * r (mulsd 24(%eax)) is exact: the entry the         *)
(* reduction selects has a sigma with a zero fraction and an exponent      *)
(* field that is neither 0 nor 2047.                                       *)
SigmaIsPowerOfTwo ==
  \A l \in Lanes :
    out[l].path = "fast" =>
      LET sigma == out[l].entry[4]
          e     == (sigma[2] \div 1048576) % 2048
      IN  sigma[1] = 0 /\ sigma[2] % 1048576 = 0 /\ e \notin {0, 2047}

=============================================================================
