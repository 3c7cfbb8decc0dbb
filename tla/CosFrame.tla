------------------------------ MODULE CosFrame ------------------------------
(***************************************************************************)
(* The stack frame of the x86 cos (src/libm/x86/s_cos.S): the prologue,    *)
(* the static_func thunk that finds static_const_table, the four exits    *)
(* and the call of __libm_sincos_huge, instruction by instruction.        *)
(*                                                                         *)
(* pc is the source line of the next instruction, and a code address is   *)
(* a line too, so that call and ret push and pop lines.  Memory holds      *)
(* 32-bit words at addresses 4 apart; a word the model does not follow     *)
(* (the caller's registers and frame, the return address, results) is a   *)
(* small tag.  The arithmetic of the four paths is not followed here      *)
(* (CosX86, CosReduce, CosEvaluator): a path's computing step yields that  *)
(* path's result tag if it read x and the table base, and Garbage if not. *)
(***************************************************************************)
EXTENDS Integers, Sequences, FiniteSetsExt, TLC

CONSTANT Inputs   \* the doubles x tried, as <<low word, high word>>

VARIABLES x,      \* the argument, <<low, high>>, as the caller passed it
          pc,     \* the source line of the next instruction
          regs,   \* the registers the frame uses
          mem     \* stack words: address -> word

frameVars == <<x, pc, regs, mem>>

LOCAL Dispatch == INSTANCE CosX86 WITH HighWords <- 0..65535,
                                       input <- pc, out <- pc
  \* only its constant operator Classify is used, not its variables

(* Tags of the words the model does not follow.                            *)
RetAddr    == 1    \* the caller's return address
CallerEbp  == 2
CallerEbx  == 3
CallerData == 4    \* the caller's frame above the arguments
Garbage    == 5    \* anything else
FastRes == <<11, 12>>   \* the double each path returns, as two words
TinyRes == <<13, 14>>
HugeRes == <<15, 16>>
NanRes  == <<17, 18>>
ResultOf == [fast |-> FastRes, tiny |-> TinyRes, huge |-> HugeRes,
             nan |-> NanRes]

EntryEsp  == 4092    \* 12 mod 16: the caller's call left esp 16-aligned
TableAddr == 65536   \* static_const_table
GotAddr   == 49152   \* _GLOBAL_OFFSET_TABLE_
L2Addr    == 183     \* ..L2, the popl of line 183

(* The top 16 bits of a signed 32-bit word.                                *)
HighHalf(w) == IF w < 0 THEN (w + 2147483647 + 1) \div 65536 + 32768
                        ELSE w \div 65536

Read(a) == IF a \in DOMAIN mem THEN mem[a] ELSE Garbage
Write(m, a, v) == (a :> v) @@ m

-----------------------------------------------------------------------------
(* The code, as line :> instruction.                                      *)

(* static_func (179-186): call ..L2 pushes the address of ..L2, popl       *)
(* takes it, and the two lea add the link-time distances from ..L2 to the  *)
(* GOT and from the GOT to the table.                                      *)
StaticFunc ==
     (181 :> <<"call", 183>>)
  @@ (183 :> <<"pop", "eax">>)
  @@ (184 :> <<"add", "eax", "eax", GotAddr - L2Addr>>)
  @@ (185 :> <<"add", "eax", "eax", TableAddr - GotAddr>>)
  @@ (186 :> <<"ret">>)

(* Mutant: the table base is copied before static_func has computed it.   *)
Prologue_late_call ==
     (195 :> <<"push", "ebp">>)
  @@ (196 :> <<"mov", "ebp", "esp">>)
  @@ (197 :> <<"add", "esp", "esp", -120>>)
  @@ (198 :> <<"store", 56, "ebx">>)
  @@ (199 :> <<"mov", "ebx", "eax">>)
  @@ (200 :> <<"call", 181>>)
  @@ (201 :> <<"load8", "xmm0", 128>>)

(* 195-201: frame of 120 bytes below the saved ebp, ebx saved at 56, the  *)
(* table base in ebx, x loaded from 128(%esp) = 8(%ebp).                   *)
Prologue ==
     (195 :> <<"push", "ebp">>)
  @@ (196 :> <<"mov", "ebp", "esp">>)
  @@ (197 :> <<"add", "esp", "esp", -120>>)
  @@ (198 :> <<"store", 56, "ebx">>)
  @@ (199 :> <<"call", 181>>)
  @@ (200 :> <<"mov", "ebx", "eax">>)
  @@ (201 :> <<"load8", "xmm0", 128>>)

(* 202-206 and 280: pextrw/andl/subl/cmpl, then ja and jg on the flags;  *)
(* a jump is <<op, target>> and falls through to the next line.           *)
(* The fast body 207-275 and the tiny body 281-285 are one computing step *)
(* each; both leave their double in memory at (%esp) and load it on the   *)
(* x87 stack (276-278, 286-288).                                           *)
Paths ==
     (206 :> <<"ja", 280>>)
  @@ (207 :> <<"compute", "xmm4", "xmm0", "fast">>)
  @@ (276 :> <<"store8", 0, "xmm4">>)
  @@ (277 :> <<"load8", "st0", 0>>)
  @@ (278 :> <<"jmp", 308>>)
  @@ (280 :> <<"jg", 290>>)
  @@ (281 :> <<"compute", "xmm1", "xmm0", "tiny">>)
  @@ (286 :> <<"store8", 0, "xmm1">>)
  @@ (287 :> <<"load8", "st0", 0>>)
  @@ (288 :> <<"jmp", 308>>)

(* Mutant: 28 bytes for the argument block instead of 32.                 *)
HugeCall_sub28 ==
     (290 :> <<"load", "eax", 132>>)
  @@ (293 :> <<"je", 305>>)
  @@ (294 :> <<"add", "esp", "esp", -28>>)
  @@ (295 :> <<"store8", 0, "xmm0">>)
  @@ (296 :> <<"add", "eax", "esp", 40>>)
  @@ (297 :> <<"store", 8, "eax">>)
  @@ (298 :> <<"movi", "eax", 1>>)
  @@ (299 :> <<"store", 12, "eax">>)
  @@ (300 :> <<"callhuge">>)
  @@ (301 :> <<"add", "esp", "esp", 28>>)
  @@ (302 :> <<"load8", "st0", 8>>)
  @@ (303 :> <<"jmp", 308>>)

(* 290-303: NaN and infinity test on the high word of x, then             *)
(* __libm_sincos_huge(x, &result, 1) with the result slot 8 bytes into    *)
(* the frame; 305-306: x * -0.0 for NaN and infinities.                   *)
HugeCall ==
     (290 :> <<"load", "eax", 132>>)
  @@ (293 :> <<"je", 305>>)
  @@ (294 :> <<"add", "esp", "esp", -32>>)
  @@ (295 :> <<"store8", 0, "xmm0">>)
  @@ (296 :> <<"add", "eax", "esp", 40>>)
  @@ (297 :> <<"store", 8, "eax">>)
  @@ (298 :> <<"movi", "eax", 1>>)
  @@ (299 :> <<"store", 12, "eax">>)
  @@ (300 :> <<"callhuge">>)
  @@ (301 :> <<"add", "esp", "esp", 32>>)
  @@ (302 :> <<"load8", "st0", 8>>)
  @@ (303 :> <<"jmp", 308>>)

NanPath ==
     (305 :> <<"load8", "st0", 128>>)
  @@ (306 :> <<"compute", "st0", "st0", "nan">>)

(* Mutant: leave without movl %ebp, %esp.                                 *)
Epilogue_no_leave ==
     (308 :> <<"load", "ebx", 56>>)
  @@ (310 :> <<"pop", "ebp">>)
  @@ (311 :> <<"ret">>)

(* 308-311: ebx restored, the frame dropped, ebp popped, return.          *)
Epilogue ==
     (308 :> <<"load", "ebx", 56>>)
  @@ (309 :> <<"mov", "esp", "ebp">>)
  @@ (310 :> <<"pop", "ebp">>)
  @@ (311 :> <<"ret">>)

Program == StaticFunc @@ Prologue @@ Paths @@ HugeCall @@ NanPath @@ Epilogue

Lines == DOMAIN Program

NextLine(l) == Min({m \in Lines : m > l})

(* The x87 result of the path Classify gives x (CosX86).                  *)
Path == Dispatch!Classify(HighHalf(x[2]))

-----------------------------------------------------------------------------
(* The instructions.                                                       *)

I == Program[pc]

At(op) == pc \in Lines /\ I[1] = op

(* A step that writes register r and goes on with the next line.           *)
SetReg(r, v) ==
  /\ regs' = [regs EXCEPT ![r] = v]
  /\ pc' = NextLine(pc)
  /\ UNCHANGED <<x, mem>>

(* pushl: esp goes down a word and the word is stored there.               *)
Push ==
  /\ At("push")
  /\ mem' = Write(mem, regs.esp - 4, regs[I[2]])
  /\ regs' = [regs EXCEPT !.esp = @ - 4]
  /\ pc' = NextLine(pc)
  /\ UNCHANGED x

Pop ==
  /\ At("pop")
  /\ regs' = [regs EXCEPT ![I[2]] = Read(regs.esp), !.esp = @ + 4]
  /\ pc' = NextLine(pc)
  /\ UNCHANGED <<x, mem>>

Mov == At("mov") /\ SetReg(I[2], regs[I[3]])

(* subl, addl and lea d(%r), %s: s := r + d.                               *)
Add == At("add") /\ SetReg(I[2], regs[I[3]] + I[4])

MovImm == At("movi") /\ SetReg(I[2], I[3])

Load == At("load") /\ SetReg(I[2], Read(regs.esp + I[3]))

(* movsd d(%esp), %xmm and fldl d(%esp): the double at esp + d.            *)
Load8 ==
  /\ At("load8")
  /\ SetReg(I[2], <<Read(regs.esp + I[3]), Read(regs.esp + I[3] + 4)>>)

Store ==
  /\ At("store")
  /\ mem' = Write(mem, regs.esp + I[2], regs[I[3]])
  /\ pc' = NextLine(pc)
  /\ UNCHANGED <<x, regs>>

Store8 ==
  /\ At("store8")
  /\ LET a == regs.esp + I[2]
     IN  mem' = Write(Write(mem, a, regs[I[3]][1]), a + 4, regs[I[3]][2])
  /\ pc' = NextLine(pc)
  /\ UNCHANGED <<x, regs>>

(* call pushes the line after it and jumps; ret pops the line.            *)
Call ==
  /\ At("call")
  /\ mem' = Write(mem, regs.esp - 4, NextLine(pc))
  /\ regs' = [regs EXCEPT !.esp = @ - 4]
  /\ pc' = I[2]
  /\ UNCHANGED x

Ret ==
  /\ At("ret")
  /\ regs' = [regs EXCEPT !.esp = @ + 4]
  /\ pc' = Read(regs.esp)
  /\ UNCHANGED <<x, mem>>

Jmp == At("jmp") /\ pc' = I[2] /\ UNCHANGED <<x, regs, mem>>

(* ja (unsigned) leaves the fast path, jg (signed) then takes huge and NaN *)
(* inputs; both read the flags of the cmpl on the top word of xmm0.        *)
XmmPath == Dispatch!Classify(HighHalf(regs.xmm0[2]))

Ja ==
  /\ At("ja")
  /\ regs' = [regs EXCEPT !.eax = (HighHalf(regs.xmm0[2]) % 32768) - 12336]
  /\ pc' = IF XmmPath = "fast" THEN NextLine(pc) ELSE I[2]
  /\ UNCHANGED <<x, mem>>

Jg ==
  /\ At("jg")
  /\ pc' = IF XmmPath = "tiny" THEN NextLine(pc) ELSE I[2]
  /\ UNCHANGED <<x, regs, mem>>

(* andl and cmpl $2146435072 on eax, je: the exponent field all ones.      *)
Je ==
  /\ At("je")
  /\ LET e == ((HighHalf(regs.eax) \div 16) % 2048) * 1048576
     IN  /\ regs' = [regs EXCEPT !.eax = e]
         /\ pc' = IF e = 2146435072 THEN I[2] ELSE NextLine(pc)
  /\ UNCHANGED <<x, mem>>

(* The arithmetic of a path: its result if it read x and the table.       *)
Compute ==
  /\ At("compute")
  /\ SetReg(I[2], IF regs.ebx = TableAddr /\ regs[I[3]] = x
                  THEN ResultOf[I[4]] ELSE <<Garbage, Garbage>>)

(* __libm_sincos_huge(x, &result, 1), cdecl: its frame overwrites every    *)
(* word below the caller's esp, it stores the cosine at the pointer if it  *)
(* was passed x and 1, keeps ebx and ebp and returns nothing in eax.      *)
CallHuge ==
  /\ At("callhuge")
  /\ LET sp  == regs.esp
         p   == Read(sp + 8)
         res == IF <<Read(sp), Read(sp + 4)>> = x /\ Read(sp + 12) = 1
                THEN HugeRes ELSE <<Garbage, Garbage>>
         below == [a \in DOMAIN mem |-> IF a < sp THEN Garbage ELSE mem[a]]
     IN  mem' = Write(Write(below, p, res[1]), p + 4, res[2])
  /\ regs' = [regs EXCEPT !.eax = Garbage]
  /\ pc' = NextLine(pc)
  /\ UNCHANGED x

(* The caller's words: return address, x, and its frame above.            *)
CallerFrame(xw) ==
     (EntryEsp :> RetAddr) @@ (EntryEsp + 4 :> xw[1]) @@ (EntryEsp + 8 :> xw[2])
  @@ (EntryEsp + 12 :> CallerData) @@ (EntryEsp + 16 :> CallerData)

NoDouble == <<Garbage, Garbage>>

Init ==
  /\ x \in Inputs
  /\ pc = 195
  /\ regs = [eax |-> Garbage, ebx |-> CallerEbx, ebp |-> CallerEbp,
             esp |-> EntryEsp, xmm0 |-> NoDouble, xmm1 |-> NoDouble,
             xmm4 |-> NoDouble, st0 |-> NoDouble]
  /\ mem = CallerFrame(x)

Next ==
  \/ Push \/ Pop \/ Mov \/ Add \/ MovImm \/ Load \/ Load8 \/ Store \/ Store8
  \/ Call \/ Ret \/ Jmp \/ Ja \/ Jg \/ Je \/ Compute \/ CallHuge

Spec == Init /\ [][Next]_frameVars

-----------------------------------------------------------------------------
(* Properties.                                                             *)

Returned == pc \notin Lines

(* Control stays in the code until ret hands it back to the caller's      *)
(* return address, and every register holds a word or a double.           *)
TypeOK ==
  /\ pc \in Lines \cup {RetAddr}
  /\ \A r \in {"eax", "ebx", "ebp", "esp"} : regs[r] \in Int
  /\ \A r \in {"xmm0", "xmm1", "xmm4", "st0"} : regs[r] \in Int \X Int
  /\ \A a \in DOMAIN mem : mem[a] \in Int

(* When cos returns, it returns to its caller with esp 4 above the entry  *)
(* esp (the return address popped), ebp and the callee-saved ebx as the   *)
(* caller had them, the caller's frame and x untouched, and on the x87    *)
(* stack the result of the path x takes: the frame's offsets (the x at    *)
(* 128(%esp), ebx at 56, the result slot at 8 after the huge call), the   *)
(* static_func thunk and the epilogue all have to agree for this.          *)
ReturnsResult ==
  Returned =>
    /\ pc = RetAddr
    /\ regs.esp = EntryEsp + 4
    /\ regs.ebp = CallerEbp /\ regs.ebx = CallerEbx
    /\ \A a \in DOMAIN CallerFrame(x) : Read(a) = CallerFrame(x)[a]
    /\ regs.st0 = ResultOf[Path]

(* At the call of __libm_sincos_huge (line 300) the stack is 16-byte      *)
(* aligned, as the i386 System V ABI requires of every call, the argument *)
(* block holds x and the flag 1, and the result pointer addresses 8 bytes *)
(* of cos's own frame that overlap neither the arguments, the saved ebx,  *)
(* nor the caller's words.                                                 *)
HugeCallABI ==
  pc = 300 =>
    LET sp == regs.esp
        p  == Read(sp + 8)
        savedEbx == EntryEsp - 124 + 56
    IN  /\ sp % 16 = 0
        /\ <<Read(sp), Read(sp + 4)>> = x /\ Read(sp + 12) = 1
        /\ sp + 16 <= p /\ p + 8 <= EntryEsp - 4
        /\ p + 8 <= savedEbx \/ savedEbx + 4 <= p

====
