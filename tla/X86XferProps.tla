---------------------------- MODULE X86XferProps ----------------------------
(***************************************************************************)
(* What holds of stacks, transfers and segment registers whatever a        *)
(* program does with them.                                                 *)
(***************************************************************************)
EXTENDS X86Xfer

(* Every variable keeps to its range: registers to 32 bits, selectors to   *)
(* 16, whatever mixture of operand and stack sizes is in force.            *)
TypeOK ==
  /\ stage \in {"top", "exec", "enter", "intr"}
  /\ cpu \in Machine
  /\ mode \in [data32 : BOOLEAN, stack32 : BOOLEAN, code32 : BOOLEAN]
  /\ saved \in [cs : Word, eip : Long]
  /\ copies \in [left : 0 .. 31, fp : Long, local : Word]
  /\ count \in Nat
  /\ was \in [reg : [Gpr -> Long], seg : [SegName -> Reg], eip : Long, flags : Long,
              pe : BOOLEAN]

-----------------------------------------------------------------------------
(* What the return that was just executed has released on top of its frame *)
Released == IF ins.op \in {"ret", "retf"} THEN ins.dest ELSE 0

(* RET n and POPA add to SP in the operand size.  The claims for them are  *)
(* for a stack of that size, or a frame that does not straddle 64K.        *)
Carries ==
  LET sp == closed.before.reg["sp"]
  IN  D # W /\ ~(closed.sp <= sp /\ closed.sp \div Lo = sp \div Lo /\ (sp % Lo) + Released < Lo)

(* SP is where it was before the frame was pushed. *)
SpBack ==
  (Released # 0 \/ ins.op = "popa" => ~Carries) =>
    cpu.reg["sp"] = LET sp == closed.before.reg["sp"]
                    IN  Written(sp, Seen(sp, W) + Released, W)

(* That CS is what a load gives where the instruction finds another one:   *)
(* it is not from before a change of mode, nor is its descriptor changed.  *)
Reloads(m) ==
  Load(cpu.pe, cpu.gdt, cpu.seg["ldt"], was.seg["cs"], m.seg["cs"].sel)
    = [ok |-> TRUE, reg |-> m.seg["cs"]]

CsBack == cpu.intr = None /\ Reloads(closed.before) => cpu.seg["cs"] = closed.before.seg["cs"]

(* A return, or a pop, undoes what it belongs to, with any balanced pushes, *)
(* calls and interrupts in between: the registers, CS:EIP, the flags and   *)
(* SP are those of before, as wide as they were pushed.  An interrupt that *)
(* restarts comes back to the beginning of the instruction.                *)
Undone ==
  closed # NoFrame =>
    LET b == closed.before
        d == Width(closed.n = 2)
    IN  CASE closed.kind = "push" ->
               IF ins.op = "pop"
               THEN /\ ins.dest \in Gpr => Get(cpu, ins.dest, D) = closed.val
                    /\ ins.dest # "sp" => SpBack
               ELSE /\ SpBack
                    /\ cpu.intr = None => cpu.seg[ins.dest].sel \in {closed.val % Lo, 0}
          [] closed.kind = "all" ->
               /\ Carries \/ \A r \in Gpr \ {"sp"} : Get(cpu, r, D) = Seen(b.reg[r], D)
               /\ SpBack
          [] closed.kind = "flags" -> cpu.flags = closed.val /\ SpBack
          [] closed.kind = "near" -> cpu.eip = b.eip % d /\ SpBack
          [] closed.kind = "far"  -> cpu.eip = b.eip % d /\ SpBack /\ CsBack
          [] closed.kind = "intr" ->
               /\ cpu.eip = b.eip % d /\ SpBack /\ CsBack
               /\ cpu.flags = AlwaysOn(Seen(b.flags, d))
          [] closed.kind = "enter" -> Get(cpu, "bp", W) = Seen(b.reg["bp"], W) /\ SpBack

(* On a 16 bit stack the upper half of ESP stays, except where a program   *)
(* loads it and where POPAD and RET add to ESP instead of SP.              *)
UpperHalfKept ==
  [][~mode.stack32 /\ cpu'.reg["sp"] \div Lo # cpu.reg["sp"] \div Lo =>
       \/ ins'.op \in {"pop", "mov", "les"} /\ ins'.dest = "sp"
       \/ ins'.op \in {"popa", "ret", "retf"} /\ mode.data32]_vars

-----------------------------------------------------------------------------
(* Limit and access rights are those of one descriptor that may be in a    *)
(* segment register, or what the host prepared; selector and base belong   *)
(* to it, or come together from a load in real mode.  No refused load, and *)
(* no change of mode, leaves a mixture.                                    *)
From(r, base, i) ==
  LET d == Descrs[base][i]
  IN  Usable(d) /\ r.limit = LimitOf(d) /\ r.acc = d.acc

Kept(r, q) == r.limit = q.limit /\ r.acc = q.acc

SegmentsWhole ==
  \A s \in SegName :
    LET r == cpu.seg[s]
    IN  \/ r = Null
        \/ \E base \in Long : From(r, base, Index(r.sel)) /\ r.base = Descrs[base][Index(r.sel)].base
        \/ \E m \in Machines : r = m.seg[s]
        \/ /\ r.base = r.sel * Para
           /\ \/ Kept(r, Null)
              \/ \E base \in Long, i \in Nr : From(r, base, i)
              \/ \E m \in Machines : Kept(r, m.seg[s])

(* What a fault leaves changed behind it, so that the instruction begins   *)
(* again in a different machine: SP of those that popped or pushed, the    *)
(* register of LES, all POPA has loaded, the flags of POPF and IRET, BP of *)
(* ENTER and LEAVE; and a segment register never by its own refusal.       *)
Spoils(op) ==
  CASE op \in {"push", "pusha", "pop", "popseg", "pushf", "popf", "call", "callf", "ret",
               "retf", "iret"} -> {"sp"}
    [] op \in {"enter", "leave"} -> {"sp", "bp"}
    [] op = "popa" -> Gpr
    [] OTHER -> {}

FaultLeaves ==
  stage = "intr" /\ cpu.intr # None /\ cpu.intr.restart =>
    /\ \A r \in Gpr : cpu.reg[r] # was.reg[r] =>
         r \in Spoils(ins.op) \/ (ins.op \in {"pop", "les"} /\ r = ins.dest)
    /\ cpu.flags # was.flags => ins.op \in {"popf", "iret"}
    /\ \A s \in SegName : cpu.seg[s] # was.seg[s] =>
         \* the fault is that of an access to the stack
         cpu.intr.err = was.seg["ss"].sel /\ ins.op \in {"popseg", "callf", "retf", "iret"}

(* Where the far transfer just executed was asked to go: its operand, or   *)
(* what a return found on the stack, which it does not write.              *)
OnStack(k) == Fetched(cpu, "ss", (Seen(was.reg["sp"], W) + k * N) % W, N)

Asked ==
  IF ins.op \in {"jmpf", "callf"} THEN ins.dest ELSE Place(OnStack(1) % Lo, OnStack(0))

(* CS and EIP are of one place, the one that was asked for: EIP is taken   *)
(* at once, and CS with it when the selector that was asked for can be     *)
(* loaded.  When it is refused, the old CS with the new EIP lasts only     *)
(* until the interrupt: a fault is pending that goes back to the CS:EIP of *)
(* the instruction (x86emu_set_seg_register() and what its callers do).    *)
ArrivesWhole ==
  stage = "intr" /\ ins.op \in {"jmpf", "callf", "retf", "iret"} =>
    LET l == Load(cpu.pe, cpu.gdt, cpu.seg["ldt"], was.seg["cs"], Asked.sel)
    IN  /\ cpu.eip = Asked.eip /\ cpu.seg["cs"] = l.reg
        /\ ~l.ok => /\ cpu.intr # None /\ cpu.intr.restart
                    /\ saved = [cs |-> was.seg["cs"].sel, eip |-> was.eip]
=============================================================================
