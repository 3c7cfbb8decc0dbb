# TLA+ models of the bionic sources in this repository

This directory holds TLA+ modules, TLC configurations and the record of
what they check (`PROJECT.json`) for the code under `src/`. TLC can run
every module here.

## The system and its parts

The sources are a handful of pieces of Android's C library. They fall into
two groups.

**The linker's intrusive list.** `src/linker/linked_list.h` defines
`LinkedList<T, Allocator>`. It is a singly linked list of
`LinkedListEntry<T>` (a `next` and an `element` field). Entries come from
an `Allocator` policy class, and the list keeps `head_` and `tail_`.

Its operations are `push_front`, `push_back`, `pop_front`, `clear`,
`for_each(action)` and `remove_if(predicate)`.

- `remove_if` does not unlink anything. It sets `element` to `nullptr`, and
  the entry is freed later by `pop_front` or `clear`.
- `for_each` calls a caller-supplied action on every non-empty element.
  It reads `e->next` after the action has returned.

The linker holds its global lock while it runs, so the list has one thread.
The only interleaving it meets is re-entry: an action passed to `for_each`
may itself call list operations.

**libm functions.** They are pure functions of a double. They have no state
and no threads, and take no locks.

- `src/libm/x86/s_cos.S`: the x86 `cos`.
  - A dispatcher on the top 16 bits of x sends it to 1 − |x| for tiny x, a
    table method for 2^-252 ≤ |x| < 90112, `__libm_sincos_huge` for larger
    x, and x·(−0) for NaN and infinities.
  - The table method computes N = round(x·32/π), r = x − N·π/32 (with
    three-part π/32), and the table entry of B = (N+16)·π/32. It then
    evaluates sin(B + r) with a polynomial and a compensated summation.
  - The table (`static_const_table`) holds 64 entries of four doubles and
    the reduction constants.
- `src/libm/upstream-freebsd/lib/msun/src/e_cosh.c`, a concatenation:
  - the ARM `cosh` wrapper (lines 43-51), which computes exp(x) and
    (y + 1/y)/2;
  - the ARM assembly `__rem_pio2_fast` (lines 52-229), which reduces x
    modulo π/2 in up to three rounds, or calls `__rem_pio2_large`;
  - a generated copy of `linux/elf-em.h` (lines 230-287).
- `src/libm/upstream-freebsd/lib/msun/src/e_sqrt.c`: `sqrt` is
  `__builtin_sqrt` (one hardware instruction).
- `src/unnamed/part_000`: the ARM `tanh`, which computes `exp(x + x)` as a
  long double and returns (y − 1)/(y + 1).

These parts barely interact. `cos` calls `__libm_sincos_huge`, which is not
in the repository, and `cosh` calls `exp`. Nothing shares state.

## Modules

| Module | Models | Source |
|---|---|---|
| `ListSeq` | The abstract promise of the list: a sequence of element pointers, with NULL holes that `remove_if` leaves one at a time | `linked_list.h` (the interface) |
| `LinkedList` | The list on an explicit heap of entries, with `for_each` and `remove_if` split at their callbacks | `linked_list.h` 21-107 |
| `MC_LinkedList` | Model values and callback sets for TLC | |
| `AngleTable` | `static_const_table` of `s_cos.S` word for word: the 64 entries and P_1, P_2, P_3, 1.0, −0.0 | `s_cos.S` 323-877 |
| `CosX86` | The `cos` dispatcher and the fast-path reduction up to the table entry and r | `s_cos.S` 190-311 |
| `MC_CosX86` | The set of top words tried: all 65536 | |
| `Float64` | Doubles as two 32-bit words; significant-bit counts | (helpers) |
| `RemPio2Fast` | ARM `__rem_pio2_fast`: dispatch, the medium path in exact rounded doubles (fn, reti, the three rounds, the cancellation tests), the stack frame of the large path | `e_cosh.c` 93-229 |
| `MC_RemPio2Fast` | The doubles tried: both ends of every exponent from 2^-10 up and of four tiny ones, both signs, the 0x413921fb boundary, and doubles where 17 to 67 bits cancel | |
| `Terms` | Register contents as expressions; a normal form up to the exact identities of rounded arithmetic | (helpers) |
| `CosEvaluator` | The 53 SSE2 instructions of the table path of `cos`: reduction, polynomials, compensated summation | `s_cos.S` 201-277, 836-861 |
| `MC_CosEvaluator` | All 64 entries, \|r8\| ≤ 4 | |
| `BigFloat` | Exact binary arithmetic on 15-bit limbs and IEEE round-to-nearest-even | (helpers) |
| `CosReduce` | The fast-path reduction of `cos` in exact double arithmetic | `s_cos.S` 201-244, 864-887 |
| `MC_CosReduce` | 30 inputs: ties, near-ties, x within an ulp of N·P_1, the ends of the range | |
| `CosFrame` | The stack frame of every `cos` call, one instruction per step: prologue, the `static_func` thunk, the dispatch jumps, the four exits, the `__libm_sincos_huge` call, the epilogue | `s_cos.S` 179-311 |
| `CosCall` | `CosFrame` and `CosReduce` composed: the fast-path body step of the frame is the reduction of its x | `s_cos.S` 179-311 |
| `MC_CosCall` | The 30 `MC_CosReduce` inputs and 12 of the other paths: ±0, 2^-1022, the tiny/fast and fast/huge boundaries, ±1e300, the largest double, ±inf, two NaNs | |
| `Hyperbolic` | ARM `cosh` and `tanh` over value classes, for each width of long double | `e_cosh.c` 43-50, `part_000` 45-50 |
| `MC_Hyperbolic` | The magnitudes tried: zeros, tiny values, both sides of each overflow threshold, infinities, NaN | |

### LinkedList

**State.**
- `head` and `tail` are `head_` and `tail_`.
- `next` and `element` give the fields of every entry in a pool `Entries`
  of addresses.
- `allocated` is the set of entries that `Allocator::alloc()` has handed
  out and that have not been freed.
- `result` is what the last call returned.
- `fe` is the frame of a running `for_each`: its program counter, the
  cursor `e`, the `head_` it started from, and the entries it has passed to
  the action.
- `ri` is the frame of a running `remove_if`: its program counter, the
  cursor `e`, the `head_` it started from, the set P of elements the
  predicate holds for, and the element passed to the running predicate.

A freed entry keeps its field values, as real memory does. `Init` starts
every entry with NULL fields. The fields of an entry that was never
allocated are never read: both pushes write both fields first.

**Actions.**
- `push_front`, `push_back`, `pop_front` and `clear` are one step each.
  Each includes its allocation or free.
- `for_each` is split at the points where it touches the list:
  `ForEachBegin`, `ForEachTest` (reads `e->element` and calls the action),
  `ForEachReturn` (the action returns), `ForEachAdvance`
  (`e = e->next`) and `ForEachEnd`.
- While `fe.pc = "action"`, the list operations named in the constant
  `CallbackOps` may run. They are what the action calls.
- `remove_if` is split in the same way: `RemoveIfBegin(P)`,
  `RemoveIfTest` (reads `e->element` and calls the predicate),
  `RemoveIfReturn` (the predicate returns, and `e->element = nullptr` if
  it held), `RemoveIfAdvance` and `RemoveIfEnd`.
- The predicate holds exactly on the elements of P, and every subset of
  `Elements` is tried. While `ri.pc = "pred"`, the operations in
  `PredicateOps` may run. `remove_if` itself is excluded, so calls do not
  nest.
- A `for_each` action may call `remove_if`. While it runs, `for_each`
  waits for it.

**Refinement.** `ListSeq` is the abstract specification. `LinkedList`
implements it under the mapping `list <- element values along the chain
from head_` and `pending <- ri.P`. In `ListSeq`, remove_if begins with a
set of pending elements, clears pending elements one at a time, and ends.
Because the other operations may run in between, the clears cannot be one
atomic step. The run checks `LS!Spec` as a property.

### CosX86 and AngleTable

The input x is abstracted to two things:
- `hw`, its top 16 bits, which alone decide the path;
- `t8`, a code for 8·fl(x·32/π).
  - An even code 2k stands for the quarter k/4 itself.
  - An odd code 2k+1 stands for any value strictly between k/4 and
    (k+1)/4. N's rounding cannot change inside that interval.

For each `hw`, the model tries the three smallest and three largest codes
that the magnitude range of `hw` reaches. They are computed from
100097/9827 < 32/π < 65526/6433. For every fast-path `hw`, these two
bounds give the same floor at both ends of the range, so the codes are
exactly those reachable.

The module has two lanes, `x` and `minus_x`. They are two independent calls
of `cos` on the same input with opposite signs. Each `Cos(l)` step is the
whole function body, from `pextrw` to the point where the path's result is
determined:
- the path;
- on the fast path: N, the table index, the entry and r (as `r8`, in
  eighths of π/32 units).

`RoundN` truncates y + copysign(0.5, x) toward zero, after the rounding of
the `addpd` at line 215. That rounding can move N only where y and the sum
lie in different binades. This happens for |y| = 0.5 − 2^-54 alone: the
sum 1 − 2^-54 ties to 1.0, so N = ±1 and |r| is slightly above π/64. The
input's `carry` flag marks that y. It is offered only for the top word
whose range of y reaches past 0.5 (0x3fa9 and 0xbfa9), and x and −x share
it.

`Classify` is the integer dispatch (`andl`, `subl`, `cmpl`, `ja`, `jg`,
exponent test). `RoundN` is `cvttsd2si(t + copysign(0.5, x))`.
`TableIndex` is `(N + 1865232) & 63`. `AngleTable` is generated from the
`.long` lines of the table, with doubles as (low word, high word) pairs of
signed 32-bit integers.

### RemPio2Fast

The input is x as its two words `<<ixl, ixh>>`. The medium path runs one
instruction per step:
- `Program` lists the instructions of `__medium`, the rounds and
  `__done` as `<<op, d, n, m>>` (`FnCode`, `IntCode`, `FirstRoundCode`,
  `RoundCode(2)`, `RoundCode(3)`, `DoneCode`), with the two tests
  `<<"ble", 16>>` and `<<"ble", 49>>` between the rounds. `pc` indexes it.
- `regs` holds the VFP registers by name. A register nothing has written
  holds `Undef`, and an operation reading it gives `Undef`.
- `Vfp` executes one VFP instruction exactly, with `BigFloat`: `vsub`
  and `vmul` (`FSub`, `FMul`) round their exact result to the nearest
  double, ties to even; the fused `vfma`/`vfms` (`FMA`, `FMS`) round
  once; `vldmia` loads a pair from the literal pool (`Pool`).
- `Asr` sets j, `Vcvt` sets reti with the truncating, saturating
  `vcvt.s32.f64` (`Reti`), and `Ble` compares ti = j − (exponent of y0)
  (`Ti`, `HighExponent`) with the limit and jumps to `__done` or falls
  through. So the number of rounds is the hardware's, not a choice.
- `DispatchMedium` and `DispatchLarge` are the two outcomes of the entry
  test; `Return` is the `bx lr` of `__done`.

The large path (`Large`, lines 105-112) is modelled by its stack frame. The
stack is a function from byte addresses to the words stored there, built
with `:>` and `@@`. The frame is entered with sp = `EntrySp`, a multiple of 8
as AAPCS makes the caller keep it. Then:
- `push {lr}` stores the return address.
- `sub sp, sp, #0x10` reserves the buffer, and `mov r3, sp` passes it.
- `__rem_pio2_large` is outside the repository, so the model uses its
  contract (`LargeStores`): it stores y[0] and y[1] at r3 and returns a
  quadrant n in r0.
- `vldmia` loads d2 and d3 back, and `add sp`/`pop {pc}` return.

### CosEvaluator

Lines 218-275 of `s_cos.S` are 53 floating-point instructions (the five
integer ones that form the table address are `TableIndex` in `CosX86`).
`Program` lists them as `<<opcode, source, destination>>` in AT&T order,
in three blocks: `Reduce` (218-244), `Products` (245-262) and `Sums`
(263-275). `Exec` is one instruction on eight registers of two lanes:
- scalar operations (`mulsd`, `addsd`, `subsd`) write the low lane;
- packed ones (`mulpd`, `addpd`, `subpd`) work on both lanes;
- `movsd` from memory clears the high lane;
- `unpcklpd` and `unpckhpd` pair the low or the high lanes.

`Mem` gives the 16-byte memory operands: the coefficient pairs at 2048-2096
(sin coefficient low, cos coefficient high), P_3, and the entry fields at
`(%eax)`, `8(%eax)`, `16(%eax)` and `24(%eax)`. `Regs0` is the register
file lines 201-217 leave. A lane holds a term (module `Terms`), so
`Result`, the low lane of `xmm4` stored at line 276, is the whole
expression the code computes. A state is one call: the entry index `idx`,
the remainder bound `r8` (as in `CosX86`) and the returned term.

The spec's formulas (section 4.2 and 4.4) are written as terms too (`R1`,
`R`, `C`, `Corr`, `K0`..`K3`, `ResHi`). Terms are compared with `Same`:
up to the order of the operands of + and ×, and the sign of both factors
of a product of differences. These identities are exact in IEEE
arithmetic, so `Same` terms give the same double.

`TwoSumsExact` needs magnitudes. `Bounds` evaluates a term over intervals
in units of 2^-12: table fields from their high words, r from `r8`
(|r| ≤ min(|r8| + 1, 4) · 51 + 1 units, π/32 being 402.1 units). Each
operation widens its interval by one unit.

### CosReduce

`CosEvaluator` follows the registers as expressions and does not round.
`CosReduce` computes the actual doubles of the reduction, lines 207-244,
with the low lanes only:
- `RoundedN`: y = fl(x·32/π), then fl(y + copysign(0.5, x)), then the
  truncation of `cvttsd2si`.
- `Reduction`: r1 = x − N·P_1, b = N·P_2, r = r1 − b,
  c2 = (r1 − r) − b, and the −c = N·P_3 − c2 of line 244.

Every instruction is one `RoundNearest` of the exact result. `BigFloat`
supplies exact sums and products of values s·m·2^e, where m is a
sequence of 15-bit limbs. TLC's integers are 32 bits, and a significand
has 53. A state is one input reduced for x and for −x (`Reduce(l)`).

The inputs are chosen where rounding bites (see Bounds). The model's
results for all 30 inputs were compared with IEEE doubles computed
outside TLC, and they agree bit for bit.

### CosFrame and CosCall

`CosFrame` follows the machine state that the other `cos` modules leave
out: the stack and the integer registers. `pc` is the source line of the
next instruction, and a code address is a line, so `call` pushes the line
after it and `ret` jumps to the line it pops. `Program` maps each line to
an instruction `<<op, operands>>`, in blocks named after the code:
`StaticFunc` (179-186), `Prologue` (195-201), `Paths` (the `ja` of 206,
the exits of the fast and tiny paths, the `jg` of 280), `HugeCall`
(290-303), `NanPath` (305-306) and `Epilogue` (308-311). Lines that only
set flags are folded into the jump that reads them. There is one action
per kind of instruction (`Push`, `Pop`, `Mov`, `Add`, `Load`, `Load8`,
`Store`, `Store8`, `Call`, `Ret`, `Jmp`, `Ja`, `Jg`, `Je`, `Compute`,
`CallHuge`), and the next line is the fall-through.

- `mem` maps addresses 4 apart to 32-bit words. An address nothing has
  written reads as `Garbage`. Words the model does not follow (the return
  address, the caller's ebp and ebx, the caller's frame, each path's
  result) are small tags.
- cos is entered with esp = 4092, 12 mod 16, because the caller's `call`
  left esp 16-byte aligned. x sits at 4(%esp) and 8(%esp) of the entry.
- `static_func` adds the link-time distances from `..L2` to the GOT and
  from the GOT to the table to the word it pops, so the table base is
  right only if it pops the address that `call ..L2` pushed.
- `Ja` and `Jg` classify the top word of xmm0 with `CosX86`'s `Classify`.
  `Je` tests the exponent field of the word loaded from 132(%esp).
- `Compute` stands for a path's arithmetic (the fast body 207-275, the
  tiny body 281-285, the `fmull` of 306). It yields that path's result if
  it read x and ebx holds the table, and `Garbage` otherwise. The values
  themselves are `CosX86`, `CosReduce` and `CosEvaluator`.
- `CallHuge` is `__libm_sincos_huge` by its cdecl contract. It reads x
  and the flag from the argument block and writes its result through the
  pointer, provided it was passed x and 1. It keeps ebx and ebp, and its
  own frame overwrites every word below the caller's esp.

`CosCall` composes the frame with `CosReduce`. The frame's fast-body step
(`FastBody`) is also `Reduce("x")` of the x the frame was called with.
Every other frame step leaves the reductions alone (`FrameStep`). The call
cos(−x) is a second call whose frame is not followed (`MinusXCall`): it is
reduced in one step when x is on the fast path.


`cosh` is `long double y = exp(x); return (y + 1./y) * 0.5;` and `tanh`
is `long double y = exp(x + x); return (y - 1.) / (y + 1.);`. A state is
one input x, given for both signs (`input["x"]` and `input["minus_x"]`),
and the results of `cosh` and `tanh` of each (`coshOut`, `tanhOut`). The
actions `Cosh(l)` and `Tanh(l)` are one call each, in any order.

A value is abstracted to its class: NaN, ±inf, ±0, ±1 exactly, or finite
with a sign, a binary exponent e (2^e ≤ |v| < 2^(e+1)) and a flag `far`
that says it is not within 2^-40 of a power of two, so rounding cannot
carry it to the next exponent. An input is s·m·2^q. Each operation of the
code is an operator on classes, and returns the set of classes the result
can have:
- `Twice` is x + x in double, and `Recip`, `AddPos`, `MinusOne`,
  `Quotient` and `Half` are 1./y, +, − 1., / and × 0.5 in long double;
- `Round(v, emax)` rounds to the format with that largest exponent:
  `LongEmax` inside the expression (1023 when long double is double,
  16383 for x87 and quad), `DoubleEmax` on return;
- `Exp` is the C library's exp, outside the repository, modelled by its
  contract: the double nearest e^x. For x = s·u/64, the exponent of e^x
  is computed from two rational bounds on 1/(64 ln 2), so the model is
  exact away from the thresholds and offers both exponents at them.

The variable `build` is the build's long double. It is chosen at `Init`
from the constant `Builds` and never changes. It is `"double"` on 32-bit
ARM (the `LDBL_MANT_DIG == 53` branch), and `"x87"` or `"quad"` elsewhere.

## Runs

| Run | Config | Expect | What it shows |
|---|---|---|---|
| `linked_list` | `MC_LinkedList.cfg` | pass | See below. |
| `linked_list_freeing_callback` | `MC_LinkedList_freeing_callback.cfg` | violation | See below. |
| `cos_dispatch` | `MC_CosX86.cfg` | pass | See below. |
| `cos_sigma_power_of_two` | `MC_CosX86_sigma.cfg` | violation | See below. |
| `rem_pio2_fast` | `MC_RemPio2Fast.cfg` | pass | See below. |
| `rem_pio2_large_alignment` | `MC_RemPio2Fast_align.cfg` | violation | See below. |
| `cos_evaluator` | `MC_CosEvaluator.cfg` | pass | See below. |
| `cos_res_lo_as_specified` | `MC_CosEvaluator_reslo.cfg` | violation | See below. |
| `cos_call` | `MC_CosCall.cfg` | pass | See below. |
| `hyperbolic` | `MC_Hyperbolic.cfg` | pass | See below. |
| `cosh_even_x87` | `MC_Hyperbolic_x87_even.cfg` | violation | See below. |
| `tanh_as_commented` | `MC_Hyperbolic_tanh.cfg` | violation | See below. |

**`linked_list`** (pass). Actions may call `push_front`, `push_back` and
`remove_if`. Predicates may call `push_front` and `push_back`. Over any
sequence of calls and callbacks, these hold:
- `ListShape`: `head_`/`tail_` stay consistent and the chain is acyclic
  and ends at `tail_`.
- `NoLeak`: no entry is leaked.
- `ImplementsListSeq`: the list refines the sequence specification.
- `ForEachVisitsAll`: `for_each` hands every live element it reaches to
  the action exactly once.
- `RemoveIfClearsAll`: when `remove_if` returns, no entry it reached still
  holds a selected element. This includes entries that the predicate
  appended while it ran.
- `LoopsTerminate`: both loops return.

129,570 distinct states.

**`linked_list_freeing_callback`** (violation). Actions and predicates may
also call `pop_front` and `clear`. `CursorLive` fails: `remove_if` writes
`e->element` and reads `e->next` of an entry that its predicate freed. The
trace has 6 states. The same use after free exists in `for_each`, one
step longer. See "Findings".

**`cos_dispatch`** (pass). Every one of the 65536 top words is tried, with
x and −x. Three properties hold:
- `DispatchMatchesMagnitude`: the dispatcher agrees with the documented
  magnitude ranges.
- `NKeepsProductsExact`: on the fast path |N| ≤ 932560, and N·P_1 and
  N·P_2 are exact doubles. The dispatch bound 4293 has to guarantee this,
  the carry of the `addpd` at line 215 included.
- `CosIsEven`: cos(−x) reaches the mirror-image entry with −N and −r, bit
  for bit. It therefore returns the same double as cos(x).

About 273,000 distinct states.

**`cos_sigma_power_of_two`** (violation). `SigmaIsPowerOfTwo` fails. For
N = 0, the entry the fast path selects (M = 16) has sigma = +0.0. See
"Findings".

**`rem_pio2_fast`** (pass). Five properties hold:
- `ReductionExact`: only |x| below about 2^20·π/2 takes the medium path
  (the `ble` admits 0x413921fb itself). There fn is an integer of at most
  2^20, equal to reti, and fn·pio2_1, fn·pio2_2 and fn·pio2_3 are exact.
- `ReductionAccurate`: y0 + y1 is within 2^-64, relative, of
  x − fn·(pio2_1 + pio2_2 + pio2_3 + pio2_3t), and y0 = RN(y0 + y1). The
  worst error among the inputs is near 2^-71. This holds only because
  the cancellation tests take the second round for 17 to 49 cancelled
  bits and the third beyond: with the first limit 0x31 instead of 0x10
  the error reaches 2^-38.
- `RemainderInRange`: |y0| ≤ π/4 + 2^-32, so fn is a nearest integer to
  x·2/π (the margin is what the rounding of `.Linvpio2` allows).
- `TypeOK`: y0 and y1 are doubles computed only from written registers.
- `LargeReturnsResult`: the large path returns to the caller's lr with
  the caller's sp, and d2 and d3 hold the y[0] and y[1] that the callee
  stored. The callee's 16 bytes of stores fit below the pushed lr.

All three round counts occur. About 23,500 distinct states, about one
minute.

**`rem_pio2_large_alignment`** (violation). `LargeCallContract`, the
callee's preconditions at `bl __rem_pio2_large`, fails: sp is
`EntrySp` − 20, which is 4 modulo 8. With the frame aligned, the same
property fails on NaN, which the dispatch also sends there. See
"Findings".

**`cos_evaluator`** (pass). For all 64 entries and |r8| ≤ 4:
- `TypeOK`: no instruction reads a register before it was written.
- `EvaluatorComputesSpec`: the result is `ResHi` plus a low part that
  adds, once each, corr, k2, k3, (C_hl + sigma)·r³ times a polynomial in
  the sin coefficients, and S_hi·r² times one in the cos coefficients.
  The code computes −c = N·P_3 − c2 and multiplies it by
  S_hi·r − (C_hl + sigma); this is the spec's corr with both factors
  negated.
- `TwoSumsExact`: the code has two two-sums, (S_hi, sigma·r) and
  (res_int, C_hl·r). For each one, the first operand is at least as large
  as the second, or one of them is an exact zero. The smallest margin is
  190 units (entries 1, 31, 33, 63 at |r| = π/64).

1,152 distinct states.

**`cos_res_lo_as_specified`** (violation). `ResLoAsSpecified` fails: the
code never adds k1. See "Findings".

**`cos_call`** (pass). The frame's three properties hold for every input:
- `FrameTypeOK`: control stays in the code until `ret` returns to the
  caller's return address. If it does not, for example when the epilogue
  pops ebp without first dropping the frame, `ret` jumps to a frame word.
- `ReturnsResult`: on return, esp is 4 above the entry esp, and ebp, ebx
  and the caller's words are as the caller left them. The x87 stack holds
  the result of x's path. For this to hold, the offsets must agree: x at
  128(%esp), ebx saved at 56 across `static_func` and the huge call, and
  the result pointer 40(%esp) read back as 8(%esp) after `addl $32`.
- `HugeCallABI`: at `call __libm_sincos_huge`, esp is 16-byte aligned.
  The argument block holds x and 1. The result pointer addresses 8 bytes
  of cos's own frame, above the argument block, apart from the saved ebx,
  and below the caller's words. Entry esp ≡ 12, then `pushl` gives 8,
  `subl $120` gives 0 and `subl $32` gives 0 (mod 16).

The reduction's four properties hold for x and −x:
- `TypeOK`: every register holds a double, and |N| ≤ 932560.
- `ReductionExact`: r + c2 = x − N·P_1 − N·P_2 exactly. This also holds
  when x is within an ulp of N·P_1, so that |r1| < |N·P_2|. There the
  larger operand of the two-sum is its second, but r1 − N·P_2 is exact.
- `RemainderBound`: |x − N·(P_1 + P_2 + P_3)| ≤ (π/64)·(1 + 2^-29).
- `ReductionIsOdd`: −x gives −N, −r and −c bit for bit, ties included.

1,628 distinct states.

**`hyperbolic`** (pass). Two builds are checked, one where long double
is double and one where it is the 80-bit x87 format. Three properties
hold:
- `TypeOK`: both functions return doubles. The intermediates of `cosh`,
  up to 2^1073 on x87, are narrowed on return.
- `CoshSpecialValues`: cosh is NaN exactly for NaN, +inf for ±inf, and
  otherwise positive. 1./0 for exp(−inf) and inf + 0 never make a NaN.
- `TanhSign`: tanh(NaN) is NaN, tanh(−inf) = −1, and a nonzero result has
  the sign of x.

3,824 distinct states. Evenness is not checked here, because it fails on
x87 (next run). Where long double is double, cosh(x) and cosh(−x) are both
+inf on the band where exp overflows.

**`cosh_even_x87`** (violation). `CoshIsEven` fails at x = ±709.796875:
cosh(x) is +inf, cosh(−x) finite. See "Findings".

**`tanh_as_commented`** (violation). `TanhAsCommented` states the
method comment of tanh: only tanh(NaN) is NaN, and a tiny x is returned
as it is. It fails. TLC's trace has two states: tanh(+inf) is NaN. The
same NaN comes for x above about 354.9. A tiny x, −0 included, gives +0
through the same operations, but TLC stops at the first violation. See
"Findings".

Every property of a passing run has a mutant in `PROJECT.json`: a plausible
bug in the code it is about, which TLC shows breaks the property.

## Bounds and why they are enough

**RemPio2Fast.** The doubles tried are the smallest and largest (mantissa
0 and all ones) of every exponent from 2^-10 up, and of exponents 0, 1,
512 and 1000 (zero, subnormals and tiny values, which all give fn = 0
and one round; the rest are left out because the exact sum with
0x1.8p52 is thousands of bits wide there), both signs, and those around
the high word 0x413921fb. Together they hit every exponent of the large
path, the medium/large boundary, NaN and the infinities. Rounding errors are
largest where x is close to a multiple of π/2, which no binade end is, so
the model adds the doubles nearest fn·π/2 for six fn (67 bits or so
cancel; the third round runs) and fn·π/2 + 2^-k for six (fn, k) (17 to 49
bits cancel; the run stops after the second). They were chosen as the
worst cases of a scan over all fn below 2^20. The frame of the large path
does not depend on x. One aligned entry sp stands for all of them,
because every address in the frame is an offset from it. The quadrants
0..3 are every n mod 4.

**CosEvaluator.** The bounds are all 64 entries and every remainder bound
the reduction can produce. `RemainderBound` in `cos_call` shows
|r| ≤ (π/64)·(1 + 2^-29), about 201.1 units of 2^-12. This lies within the
205 units that r8 = 4 allows. The instruction sequence has no branches, so one evaluation per
state covers every path.

**LinkedList.** The bounds are three entries and two elements.

- Three entries are enough for a list whose `tail_` is neither the first
  entry nor the second. They also leave room for a callback to append
  while `for_each` is in the middle.
- Two elements make a `remove_if` that empties some entries and not others
  possible.
- The pool bound also bounds `for_each`'s walk.
- Entries and elements are model values. Symmetry is not used, because
  it is unsound with the liveness property `LoopsTerminate`.
- The frames are reset when a loop ends, so a finished loop leaves no
  state behind.

**CosX86.** The bound is all 65536 values of the top word. So every path
boundary of the dispatcher (0x3030, 0x40F5, 0x7FF0, sign) is hit exactly.
The `t8` samples cover both ends of each magnitude band, where |r| and |N|
are extreme.

**CosCall.** The 30 `CosReduce` inputs below take the fast path. Twelve
more take each other path and sit at the boundaries of the dispatch:
- 0x302f…, the largest tiny top word, and 0x40f60000, the smallest huge
  one;
- ±0 and 2^-1022;
- ±1e300 and the largest double;
- ±inf, and NaNs of both signs.
The frame has no loops and no data-dependent branches other than the
three jumps, so one input per path and sign runs every instruction of
that path.

The 30 inputs are:
- x equal to N·P_1 to the last bit, for nine N from −524287 to 917000.
  Here |r1| < |N·P_2|, which is the case the two-sum order could get
  wrong.
- Three x whose y is exactly k + 0.5, and two whose y is 0.5 and
  0.5 − 2^-54.
- 0.03 (N = 0), and the largest and smallest |x| of the table path.
- 13 further values, spread over the range.

Each one is also tried negated. The code has no branch after the
dispatch, so the inputs choose the rounding cases, not the paths.

**Hyperbolic.** The magnitudes are ±0, 2^-1074, 2^-60, 2^-54, 2^-53,
2^-30, 2^-28, 1/2, 1, 22, ±inf and NaN, and, for each threshold, a value
just below and just above it, on a grid of 1/8 to 1/64:
- ln(DBL_MAX)/2 = 354.89 (overflow of exp(x + x));
- ln(DBL_MAX) = 709.78 (overflow of exp(x));
- ln(2·DBL_MAX) = 710.48 (overflow of cosh itself);
- −ln(2^-1075) = 745.13 (underflow of exp(−x));
- and 1000 and 2^1023 for x + x overflowing.
The functions have no branches, and between two thresholds every
operation's class is the same, so these points cover every class of
result.

## Fairness

`for_each` and `remove_if` are straight-line code around the call of the
callback. Their steps are weakly fair (`FairSpec`): once a loop is entered,
the thread keeps running it. The callback is assumed to return. An action
that calls `remove_if` can return only while no `remove_if` runs, so
`ForEachReturn` is strongly fair: the action makes finitely many calls. Nothing else is fair: a caller
may stop calling the list at any time. `CosX86`, `CosEvaluator`, `RemPio2Fast`, `CosCall` and `Hyperbolic` check only safety: each call is straight-line code (`RemPio2Fast` steps through its instructions, but its only jumps go forward to `__done`, so every call reaches `bx lr` within 34 steps; `CosFrame`'s only backward transfer is the `ret` of `static_func`, so a `cos` call returns within 30 steps).

## Findings

- **Use after free in `remove_if` and `for_each`** (`linked_list.h:98`,
  `:87`).
  - After the predicate returns, `remove_if` writes `e->element = nullptr`
    and reads `e->next` of the entry it just tested.
  - After the action returns, `for_each` reads `e->next`.
  - If the callback popped or cleared the list, that entry has already
    been returned to the Allocator.
  - Nothing in the header forbids a callback from doing this.
  - The linker's own callers only read in their actions, so the hazard is
    latent.

- **sigma = +0.0 in two table entries** (`s_cos.S:458`).
  - For B = π/2 and 3π/2, the table stores sigma = +0.0 and C_hl = 0.
  - The spec's data model says sigma is always an exact power of two.
  - Every fast-path input with N = 0 (|x| < π/64) uses entry 16.
  - The product sigma·r is still exact (it is 0), so only the stated
    invariant is wrong, not the result.

- **k1 missing from the low part** (`s_cos.S:270`).
  - The code adds corr, k2, k3 and the two polynomial parts.
  - Section 4.4 says res_lo = pols + corr + k1 + k3.
  - k1 is about −C_hl·r, so adding it would cancel med. The code is
    right and the spec is wrong.
  - The spec's order (pols first) also differs from the code's (corr
    first, polynomials last).

- **The large path calls `__rem_pio2_large` with a misaligned stack**
  (`e_cosh.c:110`).
  - `__large` pushes one word and reserves 16 bytes, so at the `bl` sp is
    20 bytes below an 8-aligned entry sp.
  - AAPCS requires sp to be 8-byte aligned at every public call.
  - A callee that uses 8-byte aligned stack accesses may fault or
    misbehave. `push {r4, lr}` would keep the alignment.

- **NaN and infinities reach `__rem_pio2_large`** (`e_cosh.c:104`, same
  run and property).
  - Every high word above 0x413921fb takes the large path, 0x7ff00000 and
    above included; `__ret_nan` is the target of no branch.
  - The spec gives `__rem_pio2_large` only very large or
    subnormal-adjacent finite inputs. With the frame aligned
    (`push {r4, lr}`), TLC's counterexample is the NaN `<<-1, -1>>`.

- **N is not rounded to nearest even** (`s_cos.S:215`). This is an
  observation; no run checks it as a property, because the passing
  properties below already settle what matters about it.
  - The code adds copysign(0.5, x) to y = fl(x·32/π) and truncates.
  - A y of exactly k + 0.5 goes away from zero: y = 65536.5 gives
    N = 65537.
  - y = 0.5 − 2^-54 gives N = 1, because y + 0.5 rounds up to 1.0.
  - Section 4.2 says N is the nearest integer, "equivalent to
    round-to-nearest-even".
  - This is harmless. `RemainderBound` shows that |r| stays within
    π/64·(1 + 2^-29), and `ReductionIsOdd` shows that the rounding is odd.

- **`cosh` overflows early and is not even** (`e_cosh.c:46`).
  - `cosh` computes exp(x), which overflows above ln(DBL_MAX) = 709.78.
    cosh(x) itself is finite up to 710.47.
  - Where long double is double, cosh is +inf on the whole band.
  - Where long double is wider (x87, quad), exp(−x) is still a long
    double there, so 1./y is finite and cosh(−x) is finite. But exp(x)
    is +inf. So cosh(x) ≠ cosh(−x), against step 1 of the file's comment.

- **`tanh` returns NaN for large x** (`part_000:49`).
  - exp(x + x) is +inf for x above about 354.9, and for x = +inf.
  - (inf − 1.) / (inf + 1.) is NaN. The comment says tanh(x) := 1 from 22.

- **`tanh` loses tiny x** (`part_000:49`, same finding, same property).
  - For |x| below about 2^-54, exp(x + x) rounds to 1, and y − 1. is +0.
  - tanh returns +0, also for x = −0. The comment says tanh(x) := x.

## Not modelled (yet)

- **Rounding in the evaluator.** `CosEvaluator` gives the expression the
  code computes and bounds the magnitudes. It does not round. Only the
  reduction (`CosReduce`) is computed in exact doubles, and only for
  chosen inputs: the input space is 2^64.
- **`__libm_sincos_huge`.** It is not in the repository. `CosFrame`
  models its call by the cdecl contract: what it reads, where it writes,
  which registers it keeps.
- **The x87 and SSE register file outside the frame.** `CosFrame` follows
  xmm0, xmm1, xmm4 and st0 only as the words they carry between memory
  and the computing steps. Their arithmetic is `CosReduce` and
  `CosEvaluator`. The x87 stack is one register, `st0`: `cos` leaves
  exactly one value on it. The PIC relocation arithmetic of
  `_GLOBAL_OFFSET_TABLE_+[. - ..L2]` is modelled as the distance it
  stands for, not as the linker computes it.
- **All medium inputs of `__rem_pio2_fast`.** The medium path is exact,
  but only for the chosen doubles; 2^62 of them take it. The accuracy is
  relative to the code's own π/2, pio2_1 + pio2_2 + pio2_3 + pio2_3t;
  how close that sum is to π/2 is not checked. The large path is checked
  only for its stack frame, not for the values the callee computes. The
  `__ret_nan` block is not modelled: no branch reaches it.
- **`exp` and the exact values of `cosh` and `tanh`.** exp is outside the
  repository and is modelled by its contract. Results are classes
  (exponent and sign), not doubles, so accuracy is not checked.
- **`sqrt`.** It is a single hardware instruction.
- **`elf-em.h`.** It is generated constants.

## Plan

The plan is ordered by importance:
1. LinkedList and its refinement (done).
2. The cos dispatcher and reduction (done).
3. `__rem_pio2_fast`'s register dataflow and boundaries (done).
4. `tanh`/`cosh` special values and overflow thresholds (done).
5. The evaluator's dataflow and two-sum preconditions (done).
6. The reduction in exact doubles: c1/c2 and the N rounding near ties
   (done).
7. `remove_if` split at its predicate, and the stack frame of
   `__rem_pio2_fast`'s large path (done).
8. The medium path of `__rem_pio2_fast` in exact doubles (module
   `BigFloat`), with the rounds decided by the code's own cancellation
   test (done).
9. The x86 `cos` stack frame and its composition with the reduction
   (done).
