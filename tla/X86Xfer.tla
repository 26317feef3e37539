------------------------------ MODULE X86Xfer -------------------------------
(***************************************************************************)
(* The stack and the transfers of control: PUSH .. LEAVE, calls, jumps,    *)
(* returns, interrupts and segment loads, in real and in protected mode    *)
(* (ops.c, ops2.c, prim_ops.c, generate_int() in decode.c).                *)
(*                                                                         *)
(* An instruction is one word of code long.  Its operands, and what it     *)
(* finds in data memory, are parameters; the stack is memory.  Of the      *)
(* flags the low word holds CF (1), the bit that is always on (2), TF (4)  *)
(* and IF (8), the upper word ID; conditions are parameters.               *)
(***************************************************************************)
EXTENDS X86Seg, Sequences

CONSTANTS
  UD, GP,    \* interrupt numbers 6 and 13
  Cpuid,     \* a cpuid handler is set
  Machines,  \* what the host prepares
  Value,     \* operands: longs
  Offset,    \* of jumps and calls
  Selector,  \* operands that are selectors
  Count,     \* words RET releases and ENTER reserves
  Depth,     \* nesting levels of ENTER
  Tables,    \* operands of LGDT and LIDT
  RegArg,    \* general registers the instructions name
  MaxPlain,  \* instructions in a program, and in one that goes on to undo
  MaxInstr   \* what it has pushed

Gpr == {"ax", "cx", "dx", "bx", "sp", "bp", "si", "di"}

(* DS stands for ES, FS and GS as well: no instruction here treats them    *)
(* differently.                                                            *)
SegName == {"cs", "ss", "ds", "ldt"}
DataSeg == {"ss", "ds"}

Table == [base : Long, limit : Long]
None  == [type |-> "none"]
Intr  == [type : {"soft", "fault"}, nr : Nr, restart : BOOLEAN, err : Word \cup {-1}]

(* x86emu_regs_t and the memory; intr is intr_type, intr_nr, intr_errcode  *)
Machine == [reg : [Gpr -> Long], seg : [SegName -> Reg], gdt : Table, idt : Table,
            pe : BOOLEAN, eip : Long, flags : Long, mem : [Long -> Word],
            intr : Intr \cup {None}]

ASSUME OperandAssumption ==
  /\ {UD, GP, 3, 4} \subseteq Nr /\ Cpuid \in BOOLEAN
  /\ Machines \subseteq Machine
  /\ Value \subseteq Long /\ Offset \subseteq Int
  /\ Selector \subseteq Word /\ Count \subseteq Word
  /\ Depth \subseteq 0 .. 31 /\ Tables \subseteq Table
  /\ RegArg \subseteq Gpr
  /\ MaxPlain \in Nat /\ MaxInstr \in Nat

VARIABLES
  stage,   \* "top", "exec", "enter" (copying frame pointers), "intr"
  cpu,
  mode,    \* DATA32, STACK32, CODE32 of x86.mode
  saved,   \* saved_cs, saved_eip
  copies,  \* frame pointers ENTER has still to copy, and what it does then
  count,   \* instructions begun
  \* History, not in the code:
  ins,     \* the instruction, and what it loads, takes or asks for
  was,     \* the machine the instruction found
  open,    \* what has been pushed and not popped, innermost last
  closed   \* what the instruction has popped

vars == <<stage, cpu, mode, saved, copies, count, ins, was, open, closed>>

-----------------------------------------------------------------------------
(* The part of a register of width w, Lo or Full, that an instruction sees, *)
(* and the register with a new value in that part.                         *)
Seen(r, w)       == r % w
Written(r, v, w) == (r - (r % w)) + (v % w)

Size(is32) == IF is32 THEN 2 ELSE 1      \* in words
Width(is32) == IF is32 THEN Full ELSE Lo

N == Size(mode.data32)
D == Width(mode.data32)
W == Width(mode.stack32)

(* x86emu_intr_raise(): the first interrupt wins. *)
Raise(m, new) == IF m.intr = None THEN [m EXCEPT !.intr = new] ELSE m

Soft(n)    == [type |-> "soft", nr |-> n, restart |-> FALSE, err |-> -1]
FaultUD    == [type |-> "fault", nr |-> UD, restart |-> TRUE, err |-> -1]
FaultGP(e) == [type |-> "fault", nr |-> GP, restart |-> TRUE, err |-> e]

(* check_data_access(): the access goes on behind the fault. *)
Check(m, s, ofs, n) ==
  IF (ofs + n - 1) % Full > m.seg[s].limit THEN Raise(m, FaultGP(m.seg[s].sel)) ELSE m

Linear(m, s, ofs) == (m.seg[s].base + ofs) % Full

Fetched(m, s, ofs, n) ==
  m.mem[Linear(m, s, ofs)]
    + (IF n = 1 THEN 0 ELSE Lo * (m.mem[Linear(m, s, ofs + 1)] % Hi))

Stored(m, s, ofs, n, v) ==
  [Check(m, s, ofs, n) EXCEPT
     !.mem = [a \in Long |->
       CASE a = Linear(m, s, ofs)              -> v % Lo
         [] n = 2 /\ a = Linear(m, s, ofs + 1) -> (v \div Lo) % Hi
         [] OTHER                                -> m.mem[a]]]

(* Mutant: what SP is stepped to is not cut to the width. *)
SetRegFar(m, r, v, w) == [m EXCEPT !.reg[r] = (m.reg[r] - (m.reg[r] % w)) + v]

SetReg(m, r, v, w) == [m EXCEPT !.reg[r] = Written(m.reg[r], v, w)]
Get(m, r, w)       == Seen(m.reg[r], w)

(* Mutant: SP is stepped in all its 32 bits. *)
PushWide(m, n, v, w) ==
  LET m1 == SetReg(m, "sp", m.reg["sp"] - n, Full)
  IN  Stored(m1, "ss", Get(m1, "sp", w), n, v)

(* push_word(), push_long() on a stack of width w *)
Push(m, n, v, w) ==
  LET m1 == SetReg(m, "sp", Get(m, "sp", w) - n, w)
  IN  Stored(m1, "ss", Get(m1, "sp", w), n, v)

(* pop_word(), pop_long(): the value, and the machine behind it *)
Top(m, n, w) == Fetched(m, "ss", Get(m, "sp", w), n)
Pop(m, n, w) == SetReg(Check(m, "ss", Get(m, "sp", w), n), "sp", Get(m, "sp", w) + n, w)

(* Mutants: a refused load clears the register, keeps the new selector, or *)
(* is silent.                                                              *)
LoadSegNull(m, s, val) ==
  LET l == Load(m.pe, m.gdt, m.seg["ldt"], m.seg[s], val)
  IN  IF l.ok THEN [m EXCEPT !.seg[s] = l.reg]
      ELSE Raise([m EXCEPT !.seg[s] = Null], FaultGP(val))
LoadSegEager(m, s, val) ==
  LET l == Load(m.pe, m.gdt, m.seg["ldt"], m.seg[s], val)
  IN  IF l.ok THEN [m EXCEPT !.seg[s] = l.reg]
      ELSE Raise([m EXCEPT !.seg[s].sel = val], FaultGP(val))
LoadSegSilent(m, s, val) ==
  LET l == Load(m.pe, m.gdt, m.seg["ldt"], m.seg[s], val)
  IN  [m EXCEPT !.seg[s] = l.reg]

(* x86emu_set_seg_register() *)
LoadSeg(m, s, val) ==
  LET l == Load(m.pe, m.gdt, m.seg["ldt"], m.seg[s], val)
  IN  IF l.ok THEN [m EXCEPT !.seg[s] = l.reg] ELSE Raise(m, FaultGP(val))

(* CS:EIP = cs:eip *)
Goto(m, cs, eip) == [LoadSeg(m, "cs", cs) EXCEPT !.eip = eip]

-----------------------------------------------------------------------------
(* History.  A frame is what an instruction or an interrupt pushed: n words *)
(* per item; val is the value, before the registers a return restores.  It *)
(* takes the words of the stack from height below on.                      *)
Saved(m) == [reg |-> m.reg, seg |-> m.seg, eip |-> m.eip, flags |-> m.flags, pe |-> m.pe]
NoFrame  == [kind |-> "none"]

Height == IF open = <<>> THEN 0 ELSE open[Len(open)].height

Frame(kind, n, val, before, sp, below, words) ==
  [kind |-> kind, n |-> n, w |-> W, val |-> val, before |-> before, sp |-> sp,
   below |-> below, height |-> below + words]

(* All open frames together take less than one turn of SP, on a stack of   *)
(* the width the instruction took it for: a load of SS may change that.    *)
Fits(f) == f.height < W /\ W = Width(cpu.seg["ss"].acc.big)

Opens(kind, n, val, before, words) ==
  LET f == Frame(kind, n, val, before, cpu'.reg["sp"], Height, words)
  IN  /\ closed' = NoFrame
      /\ open' = IF Fits(f) THEN Append(open, f) ELSE <<>>

(* The frame on top is closed when it matches.  Those below are forgotten  *)
(* when the stack moves: by RET n, or a load of SP or SS.                  *)
CloseTop(matches) ==
  LET f == open[Len(open)]
  IN  /\ closed' = IF open # <<>> /\ matches THEN f ELSE NoFrame
      /\ open' = IF /\ open # <<>> /\ matches
                    /\ cpu'.reg["sp"] = f.before.reg["sp"] /\ cpu'.seg["ss"] = cpu.seg["ss"]
                 THEN SubSeq(open, 1, Len(open) - 1) ELSE <<>>

(* A frame of the kind, where it was pushed. *)
Matches(f, kind) ==
  /\ f.kind = kind /\ f.n = N /\ f.w = W /\ f.sp = cpu.reg["sp"]
  /\ f.before.seg["ss"] = cpu.seg["ss"] /\ f.before.pe = cpu.pe

Closes(kind) == CloseTop(Matches(open[Len(open)], kind))

(* Neither; frames are forgotten when the stack moves. *)
Neither ==
  /\ closed' = NoFrame
  /\ open' = IF cpu'.reg["sp"] = cpu.reg["sp"] /\ cpu'.seg["ss"] = cpu.seg["ss"]
             THEN open ELSE <<>>

-----------------------------------------------------------------------------
(* Bound: more than MaxPlain instructions only to undo what is open. *)
MayGoOn  == count < MaxPlain \/ (count < MaxInstr /\ Len(open) = MaxInstr - count)
Undoes   == {"pop", "popseg", "popa", "popf", "ret", "retf", "iret", "leave"}
MayDo(op) == count <= MaxPlain \/ op \in Undoes

(* The head of x86emu_run(): the widths are those of CS and SS as the      *)
(* instruction finds them; the prefix 66 toggles the operand size.         *)
Fetch(prefix) ==
  LET code32 == cpu.seg["cs"].acc.big
  IN  /\ stage = "top" /\ MayGoOn
      /\ stage' = "exec" /\ count' = count + 1
      /\ mode' = [data32 |-> code32 # prefix, code32 |-> code32,
                  stack32 |-> cpu.seg["ss"].acc.big]
      /\ saved' = [cs |-> cpu.seg["cs"].sel, eip |-> cpu.eip]
      /\ cpu' = [cpu EXCEPT !.eip = Written(cpu.eip, cpu.eip + 1, Width(code32))]
      /\ was' = Saved(cpu) /\ closed' = NoFrame
      /\ UNCHANGED <<copies, ins, open>>

(* An instruction that is executed in one step; dest is what it loads,     *)
(* releases or asks for.                                                   *)
Do(op, dest, result) ==
  /\ stage = "exec" /\ stage' = "intr" /\ MayDo(op)
  /\ ins' = [op |-> op, dest |-> dest]
  /\ cpu' = result
  /\ UNCHANGED <<mode, saved, copies, count, was>>

Now == Saved(cpu)

-----------------------------------------------------------------------------
(* push r, push imm, push r/m *)
PushValue(v) ==
  /\ Do("push", "none", Push(cpu, N, v % D, W))
  /\ Opens("push", N, v % D, Now, N)

PushReg(r) ==
  /\ Do("push", "none", Push(cpu, N, Get(cpu, r, D), W))
  /\ Opens("push", N, Get(cpu, r, D), Now, N)

(* Mutant: the register is written before SP is stepped. *)
PopRegEarly(r) ==
  /\ Do("pop", r, Pop(SetReg(cpu, r, Top(cpu, N, W), D), N, W))
  /\ Closes("push")

PopReg(r) ==
  /\ Do("pop", r, SetReg(Pop(cpu, N, W), r, Top(cpu, N, W), D))
  /\ Closes("push")

(* pop r/m in memory; what it stores there is not kept *)
PopMem ==
  /\ Do("pop", "memory", Pop(cpu, N, W))
  /\ Closes("push")

PushSeg(s) ==
  /\ Do("push", "none", Push(cpu, N, cpu.seg[s].sel, W))
  /\ Opens("push", N, cpu.seg[s].sel, Now, N)

PopSeg(s) ==
  /\ Do("popseg", s, LoadSeg(Pop(cpu, N, W), s, Top(cpu, N, W) % Lo))
  /\ Closes("push")

(* pusha: SP is pushed as it was before *)
PushAll ==
  LET P(m, r) == Push(m, N, Get(cpu, r, D), W)
  IN  /\ Do("pusha", "none",
            P(P(P(P(P(P(P(P(cpu, "ax"), "cx"), "dx"), "bx"), "sp"), "bp"), "si"), "di"))
      /\ Opens("all", N, 0, Now, 8 * N)

(* popa: SP is skipped, in the operand size and not in that of the stack.  *)
PopAll ==
  LET P(m, r) == SetReg(Pop(m, N, W), r, Top(m, N, W), D)
      Skip(m) == SetReg(m, "sp", Get(m, "sp", D) + N, D)
  IN  /\ Do("popa", "all", P(P(P(P(Skip(P(P(P(cpu, "di"), "si"), "bp")), "bx"), "dx"), "cx"), "ax"))
      /\ Closes("all")

(* | F_ALWAYS_ON; clear IF and TF; & F_MSK, with ID when there is a cpuid  *)
(* handler                                                                 *)
AlwaysOn(f) == IF (f \div 2) % 2 = 1 THEN f ELSE f + 2
ClearIfTf(f) == f - (f % 16) + (f % 4)
Shown(f) == AlwaysOn((f % 16) + (IF Cpuid THEN f - (f % Lo) ELSE 0))

PushFlags ==
  /\ Do("pushf", "none", Push(cpu, N, Shown(cpu.flags) % D, W))
  /\ Opens("flags", N, Shown(cpu.flags) % D, Now, N)

(* popf: R_FLG names all 32 bits, so a word clears the upper half.         *)
PopFlags ==
  /\ Do("popf", "flags", [Pop(cpu, N, W) EXCEPT !.flags = AlwaysOn(Top(cpu, N, W))])
  /\ Closes("flags")

-----------------------------------------------------------------------------
(* jmp short, jmp near; jcc, loop, loope, loopne, jcxz when they jump: the *)
(* target is cut to the operand size                                       *)
Target(ofs) == (cpu.eip + ofs) % D

Jump(ofs) == Do("jmp", "none", [cpu EXCEPT !.eip = Target(ofs)]) /\ Neither

NoJump == Do("jcc", "none", cpu) /\ Neither

(* loop, loope, loopne: zf is what the latter ask for *)
LoopCx(ofs, zf) ==
  LET m == SetReg(cpu, "cx", Get(cpu, "cx", D) - 1, D)
  IN  /\ Do("loop", "cx", IF Get(m, "cx", D) # 0 /\ zf THEN [m EXCEPT !.eip = Target(ofs)] ELSE m)
      /\ Neither

Jcxz(ofs) ==
  /\ Do("jcxz", "none", IF Get(cpu, "cx", D) = 0 THEN [cpu EXCEPT !.eip = Target(ofs)] ELSE cpu)
  /\ Neither

CallNear(ofs) ==
  /\ Do("call", "none", [Push(cpu, N, cpu.eip % D, W) EXCEPT !.eip = Target(ofs)])
  /\ Opens("near", N, cpu.eip % D, Now, N)

(* call r/m, with the operand in memory (v) or in a register: that one is  *)
(* read behind the push                                                    *)
CallValue(v) ==
  /\ Do("call", "none", [Push(cpu, N, cpu.eip % D, W) EXCEPT !.eip = v % D])
  /\ Opens("near", N, cpu.eip % D, Now, N)

CallReg(r) ==
  LET m == Push(cpu, N, cpu.eip % D, W)
  IN  /\ Do("call", "none", [m EXCEPT !.eip = Get(m, r, D)])
      /\ Opens("near", N, cpu.eip % D, Now, N)

JumpReg(r) == Do("jmp", "none", [cpu EXCEPT !.eip = Get(cpu, r, D)]) /\ Neither

(* ret: imm is added in the operand size, not in that of the stack.        *)
RetNear(imm) ==
  LET m == Pop(cpu, N, W)
  IN  /\ Do("ret", imm, SetReg([m EXCEPT !.eip = Top(cpu, N, W)], "sp", Get(m, "sp", D) + imm, D))
      /\ Closes("near")

-----------------------------------------------------------------------------
(* The operand of a far jump or call is kept as what it asks for.          *)
Place(cs, eip) == [sel |-> cs, eip |-> eip]

JumpFar(cs, v) == Do("jmpf", Place(cs, v % D), Goto(cpu, cs, v % D)) /\ Neither

CallFar(cs, v) ==
  /\ Do("callf", Place(cs, v % D),
        Goto(Push(Push(cpu, N, cpu.seg["cs"].sel, W), N, cpu.eip % D, W), cs, v % D))
  /\ Opens("far", N, 0, Now, 2 * N)

RetFar(imm) ==
  LET m1 == Pop(cpu, N, W)
      m2 == Pop(m1, N, W)
      m3 == SetReg(m2, "sp", Get(m2, "sp", D) + imm, D)
  IN  /\ Do("retf", imm, Goto(m3, Top(m1, N, W) % Lo, Top(cpu, N, W)))
      /\ Closes("far")

(* int, int3, into; an opcode that is not implemented *)
SoftInt(n) == Do("int", "none", Raise(cpu, Soft(n))) /\ Neither
Undefined == Do("ud", "none", Raise(cpu, FaultUD)) /\ Neither

Iret ==
  LET m1 == Pop(cpu, N, W)
      m2 == Pop(m1, N, W)
      m3 == [Pop(m2, N, W) EXCEPT !.flags = AlwaysOn(Top(m2, N, W))]
  IN  /\ Do("iret", "none", Goto(m3, Top(m1, N, W) % Lo, Top(cpu, N, W)))
      /\ Closes("intr")

-----------------------------------------------------------------------------
(* enter: BP is pushed in the size of the stack; the loop copies level - 1 *)
(* frame pointers in the operand size, then the new one is pushed.         *)
Enter(local, level) ==
  LET m == Push(cpu, Size(mode.stack32), Get(cpu, "bp", W), W)
  IN  /\ stage = "exec" /\ stage' = "enter" /\ MayDo("enter")
      /\ ins' = [op |-> "enter", dest |-> Size(mode.stack32) + level * N + local]
      /\ cpu' = m
      /\ copies' = [left |-> level, fp |-> Get(m, "sp", W), local |-> local]
      /\ UNCHANGED <<mode, saved, count, was, open, closed>>

EnterCopy ==
  LET m1 == SetReg(cpu, "bp", Get(cpu, "bp", W) - N, W)
      ofs == Get(m1, "bp", W)
  IN  /\ stage = "enter" /\ copies.left > 1
      /\ cpu' = Push(Check(m1, "ss", ofs, N), N, Fetched(m1, "ss", ofs, N), W)
      /\ copies' = [copies EXCEPT !.left = copies.left - 1]
      /\ UNCHANGED <<stage, mode, saved, count, ins, was, open, closed>>

EnterEnd ==
  LET m1 == IF copies.left = 0 THEN cpu ELSE Push(cpu, N, copies.fp % D, W)
      m2 == SetReg(m1, "bp", copies.fp, W)
  IN  /\ stage = "enter" /\ copies.left <= 1 /\ stage' = "intr"
      /\ cpu' = SetReg(m2, "sp", Get(m2, "sp", W) - copies.local, W)
      /\ Opens("enter", Size(mode.stack32), 0, was, ins.dest)
      /\ UNCHANGED <<mode, saved, copies, count, ins, was>>

(* leave: BP is popped in the operand size.  SP has moved before: the      *)
(* frame is on top when BP points at it.                                   *)
Leave ==
  LET m == SetReg(cpu, "sp", Get(cpu, "bp", W), W)
      f == open[Len(open)]
  IN  /\ Do("leave", "bp", SetReg(Pop(m, N, W), "bp", Top(m, N, W), D))
      /\ CloseTop(Matches(f, "enter")
                  /\ Get(cpu, "bp", W) = (Seen(f.before.reg["sp"], W) - N) % W)

-----------------------------------------------------------------------------
(* les, lds, lss, lfs, lgs: the register, then the segment.  With a        *)
(* register as operand it is #UD.                                          *)
LoadFar(s, r, v, val) == Do("les", r, LoadSeg(SetReg(cpu, r, v, D), s, val)) /\ Neither

(* mov sreg, r/m; lldt, which asks for a segment like the others           *)
MovSeg(s, val) == Do("movseg", s, LoadSeg(cpu, s, val)) /\ Neither

(* mov r, imm *)
MovReg(r, v) == Do("mov", r, SetReg(cpu, r, v, D)) /\ Neither

(* lmsw, mov cr0: protected mode begins or ends, the segments stay.        *)
SetPe(pe) == Do("lmsw", "pe", [cpu EXCEPT !.pe = pe]) /\ Neither

LoadGdt(t) == Do("lgdt", "gdt", [cpu EXCEPT !.gdt = t]) /\ Neither
LoadIdt(t) == Do("lidt", "idt", [cpu EXCEPT !.idt = t]) /\ Neither

-----------------------------------------------------------------------------
(* handle_interrupt() *)
NoIntr ==
  /\ stage = "intr" /\ cpu.intr = None
  /\ stage' = "top" /\ closed' = NoFrame
  /\ UNCHANGED <<cpu, mode, saved, copies, count, ins, was, open>>

(* emu->intr() has taken care of it. *)
Handled ==
  /\ stage = "intr" /\ cpu.intr # None
  /\ stage' = "top" /\ closed' = NoFrame
  /\ cpu' = [cpu EXCEPT !.intr = None]
  /\ UNCHANGED <<mode, saved, copies, count, ins, was, open>>

(* generate_int(): protected mode pushes in the size of the code segment,  *)
(* real mode words; the error code is always a long.  What it raises is    *)
(* lost: an interrupt is pending until its end.                            *)
Deliver ==
  LET i    == cpu.intr
      n    == Size(cpu.pe /\ mode.code32)
      cs   == IF i.restart THEN saved.cs ELSE cpu.seg["cs"].sel
      eip  == IF i.restart THEN saved.eip ELSE cpu.eip
      to   == Handler(cpu.pe, cpu.idt, i.nr, cs, eip)
      m1   == Push(Push(Push(cpu, n, cpu.flags % Width(n = 2), W), n, cs, W),
                   n, eip % Width(n = 2), W)
      m2   == IF i.err = -1 THEN m1 ELSE Push(m1, 2, i.err, W)
      m3   == Goto([m2 EXCEPT !.flags = ClearIfTf(cpu.flags)], to.cs, to.eip)
  IN  /\ stage = "intr" /\ i # None
      /\ stage' = "top"
      /\ cpu' = [m3 EXCEPT !.intr = None]
      /\ closed' = NoFrame
      /\ open' =
           LET back == IF i.restart THEN [Now EXCEPT !.eip = eip, !.seg["cs"] = was.seg["cs"]]
                       ELSE Now
               f1   == Frame("intr", n, 0, back, m1.reg["sp"], Height, 3 * n)
               f2   == Frame("push", 2, i.err, Saved(m1), m2.reg["sp"], f1.height, 2)
           IN  IF i.err = -1
               THEN IF Fits(f1) THEN Append(open, f1) ELSE <<>>
               ELSE IF Fits(f1) /\ Fits(f2) THEN Append(Append(open, f1), f2) ELSE <<>>
      /\ UNCHANGED <<mode, saved, copies, count, ins, was>>

-----------------------------------------------------------------------------
Nowhere == [reg |-> [r \in Gpr |-> 0], seg |-> [s \in SegName |-> Null], eip |-> 0,
            flags |-> 0, pe |-> FALSE]

Init ==
  /\ stage = "top" /\ cpu \in Machines /\ count = 0
  /\ mode = [data32 |-> FALSE, stack32 |-> FALSE, code32 |-> FALSE]
  /\ saved = [cs |-> 0, eip |-> 0]
  /\ copies = [left |-> 0, fp |-> 0, local |-> 0]
  /\ ins = [op |-> "none", dest |-> "none"] /\ was = Nowhere
  /\ open = <<>> /\ closed = NoFrame

Stack ==
  \/ \E v \in Value : PushValue(v)
  \/ \E r \in RegArg : PushReg(r) \/ PopReg(r)
  \/ \E s \in SegName \ {"ldt"} : PushSeg(s)
  \/ \E s \in DataSeg : PopSeg(s)
  \/ PopMem \/ PushAll \/ PopAll \/ PushFlags \/ PopFlags
  \/ \E local \in Count, level \in Depth : Enter(local, level)
  \/ EnterCopy \/ EnterEnd \/ Leave

Near ==
  \/ \E ofs \in Offset : Jump(ofs) \/ Jcxz(ofs) \/ CallNear(ofs)
  \/ \E ofs \in Offset, zf \in BOOLEAN : LoopCx(ofs, zf)
  \/ NoJump
  \/ \E v \in Value : CallValue(v)
  \/ \E r \in RegArg : CallReg(r) \/ JumpReg(r)
  \/ \E imm \in Count : RetNear(imm)

Far ==
  \/ \E cs \in Selector, v \in Value : JumpFar(cs, v) \/ CallFar(cs, v)
  \/ \E imm \in Count : RetFar(imm)
  \/ \E n \in {3, 4} : SoftInt(n)
  \/ Undefined \/ Iret

Loads ==
  \/ \E s \in DataSeg, r \in RegArg, v \in Value, val \in Selector : LoadFar(s, r, v, val)
  \/ \E s \in SegName, val \in Selector : MovSeg(s, val)
  \/ \E r \in RegArg, v \in Value : MovReg(r, v)
  \/ \E pe \in BOOLEAN : SetPe(pe)
  \/ \E t \in Tables : LoadGdt(t) \/ LoadIdt(t)

Next ==
  \/ \E prefix \in BOOLEAN : Fetch(prefix)
  \/ Stack \/ Near \/ Far \/ Loads
  \/ NoIntr \/ Handled \/ Deliver

Spec == Init /\ [][Next]_vars
=============================================================================
