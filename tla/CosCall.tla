------------------------------- MODULE CosCall -------------------------------
(***************************************************************************)
(* A call of the x86 cos (src/libm/x86/s_cos.S), frame and reduction      *)
(* together: the CosFrame instructions run for x, and the one step that   *)
(* stands for the fast-path body (lines 207-275) is also the CosReduce    *)
(* reduction of that x.  The second lane of CosReduce, cos(-x), is a      *)
(* separate call whose frame is not followed; it is reduced whenever x is *)
(* on the fast path, so that the reductions of x and -x can be compared.  *)
(***************************************************************************)
EXTENDS CosReduce

VARIABLES x, pc, regs, mem   \* the frame's (CosFrame); x is input.x

Frame == INSTANCE CosFrame

callVars == <<input, out, x, pc, regs, mem>>

CallInit == Init /\ Frame!Init /\ x = input.x

(* Every frame instruction but the fast body leaves the reductions alone. *)
FrameStep == pc # 207 /\ Frame!Next /\ UNCHANGED <<input, out>>

(* The fast body computes the reduction of x.                             *)
FastBody == pc = 207 /\ Frame!Compute /\ Reduce("x")

(* The call cos(-x), reduced in one step.                                 *)
MinusXCall ==
  /\ Frame!Path = "fast"
  /\ Reduce("minus_x")
  /\ UNCHANGED <<x, pc, regs, mem>>

CallNext == FrameStep \/ FastBody \/ MinusXCall

CallSpec == CallInit /\ [][CallNext]_callVars

(* The frame's properties (module CosFrame).                              *)

(* Control stays in cos until it returns to the caller; registers and     *)
(* memory hold words.                                                      *)
FrameTypeOK == Frame!TypeOK

(* cos returns to its caller with esp, ebp, ebx and the caller's words    *)
(* restored and the result of x's path on the x87 stack.                  *)
ReturnsResult == Frame!ReturnsResult

(* The call of __libm_sincos_huge is 16-byte aligned and passes x, 1 and  *)
(* a result slot inside cos's own frame.                                  *)
HugeCallABI == Frame!HugeCallABI

====
