---------------------------- MODULE RemPio2Fast ----------------------------
(***************************************************************************)
(* __rem_pio2_fast, the ARM reduction of x modulo pi/2                     *)
(* (src/libm/upstream-freebsd/lib/msun/src/e_cosh.c, lines 96-229).        *)
(*                                                                         *)
(* An input is the double x as its two words <<ixl, ixh>> (r0, r1).  The   *)
(* medium path is executed one instruction per step, with pc the index    *)
(* into Program.  Each VFP instruction rounds its exact result to the     *)
(* nearest double (module BigFloat), the fused vfma/vfms once, so fn, the *)
(* cancellation count ti and therefore the rounds taken are those of the  *)
(* hardware.  A register no instruction has written holds Undef, and an   *)
(* operation reading it yields Undef.                                      *)
(*                                                                         *)
(* The large path is its stack frame: the words it pushes, the buffer it  *)
(* hands __rem_pio2_large and what it loads and pops back.                 *)
(***************************************************************************)
EXTENDS Integers, TLC, BigFloat

CONSTANT Inputs   \* the doubles x tried, as <<low word, high word>>

ASSUME Inputs \subseteq (-2147483647 - 1 .. 2147483647) \X (-2147483647 - 1 .. 2147483647)

VARIABLES
  input,   \* x as <<ixl, ixh>>
  pc,      \* Entry, an index into Program, Bx at bx lr, Returned after it
  regs,    \* the VFP registers d0 (x), d2-d6, d16-d18 by their names
  j,       \* r3: the biased exponent of x
  reti,    \* r0: the quadrant returned
  out      \* what the caller sees after the return

vars == <<input, pc, regs, j, reti, out>>

None == [path |-> "none"]

(* The contents of a register no instruction has written.                  *)
Undef == [s |-> 0, m |-> <<>>, e |-> 0]

IsDefined(v) == v.s # 0

(* One VFP operation: the exact result rounded to nearest even.            *)
FSub(a, b) ==
  IF IsDefined(a) /\ IsDefined(b) THEN RoundNearest(Sub(a, b)) ELSE Undef
FMul(a, b) ==
  IF IsDefined(a) /\ IsDefined(b) THEN RoundNearest(Mul(a, b)) ELSE Undef

(* MLAF64 (vfma.f64 d, n, m): d + n * m rounded once; MLSF64 (vfms.f64):   *)
(* d - n * m rounded once.                                                 *)
FMA(d, n, m) == RoundNearest(Add(d, Mul(n, m)))
FMS(d, n, m) == RoundNearest(Sub(d, Mul(n, m)))

(* .Linvpio2 and .Lmagic (0x1.8p52). *)
InvPio2 == FromWords(<<1841940611, 1071931184>>)
Magic == FromWords(<<0, 1127743488>>)

(* pio2_1, pio2_2 and pio2_3 (.Lpio2_1, .Lpio2_2, .Lpio2_3) and the tails *)
(* pio2_1t, pio2_2t and pio2_3t stored after each.                         *)
Pio2 == << <<1413480448, 1073291771>>, <<442499072, 1037087841>>,
           <<771751936, 1000544650>> >>
Pio2t == << <<442655537, 1037087841>>, <<771977331, 1000544650>>,
            <<622873025, 964395930>> >>

Part(k) == FromWords(Pio2[k])
PartTail(k) == FromWords(Pio2t[k])

(* bic abs_ixh, ixh, #0x80000000 *)
AbsHigh(ixh) == IF ixh < 0 THEN ixh + 2147483647 + 1 ELSE ixh

(* Mutant: the sign bit is not cleared before the signed compare.          *)
IsMedium_signed(ixh) == ixh <= 1094263291

(* movw/movt ip, #0x413921fb; cmp abs_ixh, ip; ble __medium (signed).      *)
IsMedium(ixh) == AbsHigh(ixh) <= 1094263291

-----------------------------------------------------------------------------
(* __medium, as a program of VFP instructions <<op, d, n, m>> (d := n op m) *)
(* and the integer steps between them.                                     *)

(* vldmia ip, {d, n} from a literal pool: the two doubles stored there.     *)
Pool == [Linvpio2 |-> <<InvPio2, Magic>>,
         Lpio2_1 |-> <<Part(1), PartTail(1)>>,
         Lpio2_2 |-> <<Part(2), PartTail(2)>>,
         Lpio2_3 |-> <<Part(3), PartTail(3)>>]

PoolOf(k) == <<"Lpio2_1", "Lpio2_2", "Lpio2_3">>[k]

(* Mutant: vmov.f64 t0, fn after the vfma, so that t0 holds the sum.        *)
FnCode_late_copy ==
  << <<"vldmia", "t3", "fn", "Linvpio2">>, <<"vfma", "fn", "x", "t3">>,
     <<"vmov", "t0", "fn">>, <<"vsub", "fn", "fn", "t0">> >>

(* fn = (x * invpio2 + 0x1.8p52) - 0x1.8p52, the sum rounded once, which   *)
(* rounds x * invpio2 to an integer, ties to even.                         *)
FnCode ==
  << <<"vldmia", "t3", "fn", "Linvpio2">>, <<"vmov", "t0", "fn">>,
     <<"vfma", "fn", "x", "t3">>, <<"vsub", "fn", "fn", "t0">> >>

(* asr j, abs_ixh, #20; vcvt.s32.f64 ts0, fn; vmov reti, ts0. *)
IntCode == << <<"asr">>, <<"vcvt">> >>

(* x -= fn * pio2_1 (fused); w = fn * pio2_1t; __1st_round: y0 = x - w.     *)
FirstRoundCode ==
  << <<"vldmia", "t0", "t1", "Lpio2_1">>, <<"vfms", "x", "fn", "t0">>,
     <<"vmul", "w", "fn", "t1">>, <<"vsub", "y0", "x", "w">> >>

(* Mutant: vsub x, x, t0 placed after the first vsub t2, t2, x.           *)
RoundCode_late_x(k) ==
  << <<"vmov", "t2", "x">>, <<"vldmia", "t0", "t1", PoolOf(k)>>,
     <<"vmul", "t0", "fn", "t0">>, <<"vmul", "t1", "fn", "t1">>,
     <<"vsub", "t2", "t2", "x">>, <<"vsub", "x", "x", "t0">>,
     <<"vsub", "t2", "t2", "t0">>, <<"vsub", "w", "t1", "t2">>,
     <<"vsub", "y0", "x", "w">> >>

(* __2nd_round and __3rd_round: t2 = x; t0 = fn * pio2_k;                  *)
(* t1 = fn * pio2_kt; x -= t0; w = t1 - ((t2 - x) - t0); y0 = x - w.       *)
RoundCode(k) ==
  << <<"vmov", "t2", "x">>, <<"vldmia", "t0", "t1", PoolOf(k)>>,
     <<"vmul", "t0", "fn", "t0">>, <<"vmul", "t1", "fn", "t1">>,
     <<"vsub", "x", "x", "t0">>, <<"vsub", "t2", "t2", "x">>,
     <<"vsub", "t2", "t2", "t0">>, <<"vsub", "w", "t1", "t2">>,
     <<"vsub", "y0", "x", "w">> >>

(* Mutant: __done subtracts t2, the w of the second and third rounds.     *)
DoneCode_from_t2 == << <<"vsub", "y1", "x", "y0">>, <<"vsub", "y1", "y1", "t2">> >>

(* __done: y1 = (x - y0) - w. *)
DoneCode == << <<"vsub", "y1", "x", "y0">>, <<"vsub", "y1", "y1", "w">> >>

(* Mutant: the first test compares ti with 0x31, as the second does.       *)
FirstLimit_0x31 == 49

(* cmp ti, #0x10 and cmp ti, #0x31, each followed by ble __done. *)
FirstLimit == 16
SecondLimit == 49

Program ==
  FnCode \o IntCode \o FirstRoundCode \o << <<"ble", FirstLimit>> >>
    \o RoundCode(2) \o << <<"ble", SecondLimit>> >> \o RoundCode(3) \o DoneCode

DoneAt == Len(Program) - Len(DoneCode) + 1

(* The entry of __rem_pio2_fast, the bx lr of __done, and the caller. *)
Entry == 0
Bx == Len(Program) + 1
Returned == Len(Program) + 2

Registers == {"x", "t0", "t1", "t2", "t3", "fn", "w", "y0", "y1"}

(* The result one VFP instruction writes to its destination. *)
VfpResult(i, r) ==
  CASE i[1] = "vmov" -> r[i[3]]
    [] i[1] = "vsub" -> FSub(r[i[3]], r[i[4]])
    [] i[1] = "vmul" -> FMul(r[i[3]], r[i[4]])
    [] i[1] = "vfma" -> FMA(r[i[2]], r[i[3]], r[i[4]])
    [] i[1] = "vfms" -> FMS(r[i[2]], r[i[3]], r[i[4]])

VfpStep(r, i) ==
  IF i[1] = "vldmia"
    THEN [r EXCEPT ![i[2]] = Pool[i[4]][1], ![i[3]] = Pool[i[4]][2]]
    ELSE [r EXCEPT ![i[2]] = VfpResult(i, r)]

(* vcvt.s32.f64 rounds toward zero and saturates at -2^31 and 2^31 - 1.  *)
Reti(fn) ==
  IF fn.e + BitLen(fn.m) > 31
    THEN IF fn.s = 1 THEN 2147483647 ELSE -2147483647 - 1
    ELSE fn.s * (IF fn.e >= 0 THEN ToNat(ShiftLeft(fn.m, fn.e))
                 ELSE ToNat(ShiftRight(fn.m, -fn.e)))

(* vmov ti, ixh, y0; bic ixh, ixh, #0x80000000; the biased exponent         *)
(* ixh >> 20 of y0, 0 for a zero or subnormal y0.                          *)
HighExponent(v) ==
  LET b == v.e + BitLen(v.m) + 1022
  IN  IF IsZero(v) \/ b < 0 THEN 0 ELSE b

(* sub ti, j, ixh, asr #20: the number of leading bits that cancelled.   *)
Ti(jx, y0) == jx - HighExponent(y0)

(* The large path.  A stack is a function from byte addresses to the words *)
(* stored there; sp at entry is 8-byte aligned, as AAPCS makes the caller  *)
(* keep it at a call.                                                       *)
EntrySp == 4096

(* __rem_pio2_large, outside the repository, by its contract: it stores    *)
(* the remainder y[0], y[1] at the pointer in r3 and returns the quadrant  *)
(* n in r0 (only n mod 4 matters to the callers).                          *)
Quadrants == 0 .. 3
LargeStores(p) ==
  (p :> "y0.lo") @@ (p + 4 :> "y0.hi") @@ (p + 8 :> "y1.lo") @@ (p + 12 :> "y1.hi")

(* Mutant: an 8-byte buffer (sub sp, sp, #8; add sp, sp, #8).               *)
Large_sub8(ixh, n) ==
  LET sp1  == EntrySp - 4
      mem1 == sp1 :> "lr"
      sp2  == sp1 - 8
      mem2 == LargeStores(sp2) @@ mem1
      sp3  == sp2 + 8
  IN  [path |-> "large", ixh |-> ixh, spAtCall |-> sp2, reti |-> n,
       y0 |-> <<mem2[sp2], mem2[sp2 + 4]>>, y1 |-> <<mem2[sp2 + 8], mem2[sp2 + 12]>>,
       pc |-> mem2[sp3], sp |-> sp3 + 4]

(* __large, one stack operation per instruction.                           *)
Large(ixh, n) ==
  LET sp1  == EntrySp - 4                       \* push {lr}
      mem1 == sp1 :> "lr"
      sp2  == sp1 - 16                          \* sub sp, sp, #0x10
      mem2 == LargeStores(sp2) @@ mem1          \* mov r3, sp; bl __rem_pio2_large
      sp3  == sp2 + 16                          \* add sp, sp, #0x10
  IN  [path |-> "large", ixh |-> ixh, spAtCall |-> sp2, reti |-> n,
       y0 |-> <<mem2[sp2], mem2[sp2 + 4]>>,     \* vldmia sp, {y0-y1}
       y1 |-> <<mem2[sp2 + 8], mem2[sp2 + 12]>>,
       pc |-> mem2[sp3], sp |-> sp3 + 4]        \* pop {pc}

-----------------------------------------------------------------------------
(* The entry: bic abs_ixh; cmp abs_ixh, #0x413921fb; ble __medium. *)
DispatchMedium ==
  /\ pc = Entry /\ IsMedium(input[2])
  /\ pc' = 1
  /\ regs' = [r \in Registers |-> IF r = "x" THEN FromWords(input) ELSE Undef]
  /\ UNCHANGED <<input, j, reti, out>>

(* __large: the whole frame, with the quadrant n __rem_pio2_large returns. *)
DispatchLarge ==
  /\ pc = Entry /\ ~IsMedium(input[2])
  /\ \E n \in Quadrants :
       /\ out' = Large(input[2], n)
       /\ reti' = n
  /\ pc' = Returned
  /\ UNCHANGED <<input, regs, j>>

Instr == Program[pc]

(* One VFP instruction of the medium path. *)
Vfp ==
  /\ pc \in DOMAIN Program /\ Instr[1] \notin {"asr", "vcvt", "ble"}
  /\ regs' = VfpStep(regs, Instr)
  /\ pc' = pc + 1
  /\ UNCHANGED <<input, j, reti, out>>

(* asr j, abs_ixh, #20 *)
Asr ==
  /\ pc \in DOMAIN Program /\ Instr[1] = "asr"
  /\ j' = AbsHigh(input[2]) \div 1048576
  /\ pc' = pc + 1
  /\ UNCHANGED <<input, regs, reti, out>>

(* vcvt.s32.f64 ts0, fn; vmov reti, ts0 *)
Vcvt ==
  /\ pc \in DOMAIN Program /\ Instr[1] = "vcvt"
  /\ reti' = Reti(regs["fn"])
  /\ pc' = pc + 1
  /\ UNCHANGED <<input, regs, j, out>>

(* ti = j - (high word of y0 >> 20); cmp ti, #limit; ble __done. *)
Ble ==
  /\ pc \in DOMAIN Program /\ Instr[1] = "ble"
  /\ pc' = IF Ti(j, regs["y0"]) <= Instr[2] THEN DoneAt ELSE pc + 1
  /\ UNCHANGED <<input, regs, j, reti, out>>

(* bx lr: the caller sees reti, y0 and y1. *)
Return ==
  /\ pc = Bx
  /\ out' = [path |-> "medium", x |-> regs["x"], fn |-> regs["fn"], reti |-> reti,
             y0 |-> regs["y0"], y1 |-> regs["y1"], input |-> FromWords(input)]
  /\ pc' = Returned
  /\ UNCHANGED <<input, regs, j, reti>>

Init ==
  /\ input \in Inputs
  /\ pc = Entry
  /\ regs = [r \in Registers |-> Undef]
  /\ j = 0 /\ reti = 0
  /\ out = None

Next == DispatchMedium \/ DispatchLarge \/ Vfp \/ Asr \/ Vcvt \/ Ble \/ Return

Spec == Init /\ [][Next]_vars

-----------------------------------------------------------------------------
(* Properties.                                                             *)

(* y0 and y1 returned by the medium path are doubles computed from x, fn   *)
(* and the constants, never from a register (t2, y0, y1) that no           *)
(* instruction of the path has written.                                    *)
TypeOK ==
  /\ input \in Inputs
  /\ pc \in Entry .. Returned
  /\ \/ out = None
     \/ /\ out.path = "large"
        /\ out.ixh = input[2] /\ out.reti \in Quadrants
        /\ out.spAtCall \in Int /\ out.sp \in Int
     \/ /\ out.path = "medium"
        /\ out.reti \in Int
        /\ \A v \in {out.fn, out.y0, out.y1} : IsDefined(v) /\ IsDouble(v)

(* The medium path is taken exactly for |x| below 2^20 * pi/2 (the ble    *)
(* admits the high word 0x413921fb itself), and there fn is an integer of *)
(* at most 2^20, equal to reti, with few enough significant bits that     *)
(* fn * pio2_1, fn * pio2_2 and fn * pio2_3 of the three rounds are exact, *)
(* as the medium algorithm requires.                                       *)
ReductionExact ==
  out.path = "medium" =>
    /\ -1048576 <= out.reti /\ out.reti <= 1048576
    /\ out.fn.e >= 0 /\ FromInt(out.reti) = out.fn
    /\ \A k \in 1..3 : BitLen(out.fn.m) + SignificantBits(Pio2[k]) <= 53

(* pi/2 as the code's constants carry it: pio2_1 + pio2_2 + pio2_3 + pio2_3t. *)
Pio2Sum == Add(Add(Part(1), Part(2)), Add(Part(3), PartTail(3)))

Pow2(k) == Val(1, <<1>>, k)

(* The remainder the rounds approximate, x - fn * (pi/2), exactly.         *)
Remainder(o) == Sub(o.input, Mul(o.fn, Pio2Sum))

(* The medium path returns the remainder x - fn * pi/2 as a double-double  *)
(* accurate beyond double precision: y0 + y1 is within 2^-64 of it,       *)
(* relative, and y0 is y0 + y1 rounded, so that the cosine evaluator can  *)
(* take y1 as a correction below half an ulp of y0 (zeros of either sign *)
(* are equal).  It needs the second and third rounds exactly when the     *)
(* code's cancellation tests take them.                                    *)
ReductionAccurate ==
  out.path = "medium" =>
    LET r == Remainder(out)
        s == Add(out.y0, out.y1)
    IN  /\ AbsLeq(Mul(Sub(s, r), Pow2(64)), r)
        /\ \/ RoundNearest(s) = out.y0
           \/ IsZero(s) /\ IsZero(out.y0)

(* fn is a nearest integer to x * 2/pi: |y0| is at most pi/4, up to the   *)
(* 2^-32 that the rounding of .Linvpio2 allows below 2^20 * pi/2.          *)
RemainderInRange ==
  out.path = "medium" =>
    AbsLeq(out.y0, Add(Mul(Pio2Sum, Pow2(-1)), Pow2(-32)))

(* The large path returns to its caller with the caller's sp, and d2, d3   *)
(* and r0 hold the y[0], y[1] and n __rem_pio2_large produced: the buffer  *)
(* reserved below the pushed lr is large enough that the stores of the     *)
(* callee neither overwrite the return address nor the caller's frame.     *)
LargeReturnsResult ==
  out.path = "large" =>
    /\ out.pc = "lr" /\ out.sp = EntrySp
    /\ out.y0 = <<"y0.lo", "y0.hi">> /\ out.y1 = <<"y1.lo", "y1.hi">>

(* The bl __rem_pio2_large of the large path meets the callee's           *)
(* preconditions: sp is a multiple of 8, as AAPCS requires at every call   *)
(* of a public function, and x is finite and large, the only inputs its    *)
(* contract covers (NaN and infinities, high word 0x7ff00000 and above,    *)
(* also reach this call; __ret_nan is the target of no branch).            *)
LargeCallContract ==
  out.path = "large" =>
    /\ out.spAtCall % 8 = 0
    /\ AbsHigh(out.ixh) < 2146435072

=============================================================================
