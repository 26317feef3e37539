------------------------------- MODULE X86Str -------------------------------
(***************************************************************************)
(* The string instructions: MOVS, CMPS, STOS, LODS, SCAS (ops.c), INS and  *)
(* OUTS (prim_ops.c), alone and under REPE or REPNE, one element per step. *)
(*                                                                         *)
(* A 32 bit register holds 0 .. Full-1 and its 16 bit half the rest modulo *)
(* Lo; memory is a ring of Full bytes, as linear addresses are.  Of the    *)
(* flags CMPS and SCAS set, ZF is kept: no other one steers the loop.      *)
(***************************************************************************)
EXTENDS Integers

CONSTANTS
  Lo, Full,    \* 2^16 and 2^32
  Value,       \* the values of a byte
  Base, Limit, \* of the segments in DS and ES
  Instrs,      \* the instructions, below
  Starts,      \* registers and memory the program has prepared
  Port         \* what a port may deliver

Seg    == {"ds", "es"}
Scans  == {"cmps", "scas"}
Ports  == {"ins", "outs"}
Counts == {"movs", "stos", "lods"} \cup Ports

(* Prefixes: rep is the set of repeat prefixes, seg the source segment.     *)
Instr == [op : Scans \cup Counts, size : {1, 2, 4}, rep : SUBSET {"repe", "repne"},
          a32 : BOOLEAN, seg : Seg]
Reg   == 0 .. (Full - 1)
Acc   == [0 .. 3 -> Value]
Start == [si : Reg, di : Reg, cx : Reg, df : BOOLEAN, zf : BOOLEAN, acc : Acc,
          mem : [Reg -> Value]]

ASSUME WidthAssumption == /\ Lo \in Nat \ {0} /\ Full \in Nat
                          /\ Full > 4 /\ Full % Lo = 0
ASSUME SegAssumption   == Base \in [Seg -> Reg] /\ Limit \in [Seg -> Reg]
ASSUME InputAssumption == /\ 0 \in Value /\ Port \subseteq Acc
                          /\ Instrs \subseteq Instr /\ Starts \subseteq Start

VARIABLES
  phase,       \* "idle", "loop", "done"
  ins,         \* the instruction
  left,        \* count; for CMPS and SCAS: 0 when the loop was left by break
  si, di, cx,  \* R_ESI, R_EDI, R_ECX
  df, zf,      \* F_DF, F_ZF
  acc,         \* the bytes of R_EAX
  mem,         \* by linear address
  fault,       \* the segment of the pending #GP, or "none"
  start        \* history: the registers and memory the instruction found

regs == <<si, di, cx, df, zf, acc, mem>>
vars == <<phase, ins, left, si, di, cx, df, zf, acc, mem, fault, start>>

-----------------------------------------------------------------------------
(* Mutant: the sum is not cut to the width of the register. *)
WrittenFar(r, v, w) == (r - (r % w)) + v

(* The part of a register of width w, Lo or Full, that an instruction sees, *)
(* and the register with a new value in that part.                         *)
Seen(r, w)       == r % w
Written(r, v, w) == (r - (r % w)) + (v % w)

(* MODE_ADDR32 *)
WidthOf(a32) == IF a32 THEN Full ELSE Lo

Rep      == ins.rep # {}
Width    == WidthOf(ins.a32)
Index(r) == Seen(r, Width)

(* Mutant: words step by bytes. *)
UnitOne == 1

(* INS and OUTS step by one whatever their size. *)
Unit == IF ins.op \in Ports THEN 1 ELSE ins.size
Inc  == IF df THEN -Unit ELSE Unit

(* Mutant: the whole register is stepped, whatever the address size. *)
AdvanceWide(r) == Written(r, Index(r) + Inc, Full)

Advance(r) == Written(r, Index(r) + Inc, Width)

Linear(seg, ofs) == (Base[seg] + ofs) % Full
Bytes == 0 .. (ins.size - 1)

(* fetch_data_*(), store_data_*(), and R_AL, R_AX or R_EAX *)
Load(seg, ofs) == [k \in Bytes |-> mem[Linear(seg, ofs + k)]]

(* Mutant: the segment override applies to the destination as well. *)
StoreOverridden(seg, ofs, v) ==
  [a \in Reg |-> LET k == (a - Linear(ins.seg, ofs)) % Full
                 IN  IF k \in Bytes THEN v[k] ELSE mem[a]]

Store(seg, ofs, v) ==
  [a \in Reg |-> LET k == (a - Linear(seg, ofs)) % Full
                 IN  IF k \in Bytes THEN v[k] ELSE mem[a]]

Low(v) == [k \in Bytes |-> v[k]]

(* Mutant: the last fault is the one reported. *)
CheckedLast(pending, seg, ofs) ==
  IF (ofs + ins.size - 1) % Full > Limit[seg] THEN seg ELSE pending

(* check_data_access(): the access goes on, the first #GP stays pending.   *)
Checked(pending, seg, ofs) ==
  IF pending = "none" /\ (ofs + ins.size - 1) % Full > Limit[seg] THEN seg ELSE pending

-----------------------------------------------------------------------------
(* The program has loaded its registers with r; i is decoded and begins.    *)
(* Counted instructions take their count and clear CX at once.             *)
Begin(i, r) ==
  LET counted == i.rep # {} /\ i.op \in Counts
  IN  /\ phase = "idle" /\ phase' = "loop"
      /\ ins' = i /\ start' = r
      /\ left' = IF counted THEN Seen(r.cx, WidthOf(i.a32)) ELSE 1
      /\ cx' = IF counted THEN Written(r.cx, 0, WidthOf(i.a32)) ELSE r.cx
      /\ si' = r.si /\ di' = r.di /\ df' = r.df /\ zf' = r.zf
      /\ acc' = r.acc /\ mem' = r.mem
      /\ fault' = "none"

(* Mutant: the count is looked at after the first round only. *)
MoreForever == left # 0

(* The heads of the two kinds of loop: while(count--) and while(CX).       *)
More == left # 0 /\ (ins.op \in Scans /\ Rep => Index(cx) # 0)

Element(op) == phase = "loop" /\ ins.op = op /\ More

Movs ==
  /\ Element("movs")
  /\ mem' = Store("es", Index(di), Load(ins.seg, Index(si)))
  /\ fault' = Checked(Checked(fault, ins.seg, Index(si)), "es", Index(di))
  /\ si' = Advance(si) /\ di' = Advance(di) /\ left' = left - 1
  /\ UNCHANGED <<phase, ins, cx, df, zf, acc, start>>

Stos ==
  /\ Element("stos")
  /\ mem' = Store("es", Index(di), Low(acc))
  /\ fault' = Checked(fault, "es", Index(di))
  /\ di' = Advance(di) /\ left' = left - 1
  /\ UNCHANGED <<phase, ins, si, cx, df, zf, acc, start>>

Lods ==
  /\ Element("lods")
  /\ LET v == Load(ins.seg, Index(si))
     IN  acc' = [k \in 0 .. 3 |-> IF k \in Bytes THEN v[k] ELSE acc[k]]
  /\ fault' = Checked(fault, ins.seg, Index(si))
  /\ si' = Advance(si) /\ left' = left - 1
  /\ UNCHANGED <<phase, ins, di, cx, df, zf, mem, start>>

(* The port is read before the access is checked. *)
Ins(v) ==
  /\ Element("ins")
  /\ mem' = Store("es", Index(di), v)
  /\ fault' = Checked(fault, "es", Index(di))
  /\ di' = Advance(di) /\ left' = left - 1
  /\ UNCHANGED <<phase, ins, si, cx, df, zf, acc, start>>

(* OUTS reads from ES; without a prefix it steps SI, never ESI.            *)
Outs ==
  /\ Element("outs")
  /\ fault' = Checked(fault, "es", Index(si))
  /\ si' = Written(si, Index(si) + Inc, WidthOf(ins.a32 /\ Rep))
  /\ left' = left - 1
  /\ UNCHANGED <<phase, ins, di, cx, df, zf, acc, mem, start>>

(* Mutant: REPNE ends like REPE. *)
EndsScanEqual(equal) == ~equal

(* With both prefixes REPE counts. *)
EndsScan(equal) == IF "repe" \in ins.rep THEN ~equal ELSE equal

(* How CMPS and SCAS go on behind the comparison. *)
Compared(equal) ==
  /\ zf' = equal
  /\ IF Rep
     THEN /\ cx' = Written(cx, Index(cx) - 1, Width)
          /\ left' = IF EndsScan(equal) THEN 0 ELSE 1
     ELSE left' = 0 /\ UNCHANGED cx

Cmps ==
  /\ Element("cmps")
  /\ Compared(Load(ins.seg, Index(si)) = Load("es", Index(di)))
  /\ fault' = Checked(Checked(fault, ins.seg, Index(si)), "es", Index(di))
  /\ si' = Advance(si) /\ di' = Advance(di)
  /\ UNCHANGED <<phase, ins, df, acc, mem, start>>

Scas ==
  /\ Element("scas")
  /\ Compared(Low(acc) = Load("es", Index(di)))
  /\ fault' = Checked(fault, "es", Index(di))
  /\ di' = Advance(di)
  /\ UNCHANGED <<phase, ins, si, df, acc, mem, start>>

Finish ==
  /\ phase = "loop" /\ ~More
  /\ phase' = "done"
  /\ UNCHANGED <<ins, left, si, di, cx, df, zf, acc, mem, fault, start>>

-----------------------------------------------------------------------------
NoInstr == [op |-> "lods", size |-> 1, rep |-> {}, a32 |-> FALSE, seg |-> "ds"]
Zeroed  == [si |-> 0, di |-> 0, cx |-> 0, df |-> FALSE, zf |-> FALSE,
            acc |-> [k \in 0 .. 3 |-> 0], mem |-> [a \in Reg |-> 0]]

(* What the program does with the results is left out: it can prepare      *)
(* whatever the next instruction finds.                                    *)
Leave ==
  /\ phase = "done" /\ phase' = "idle"
  /\ ins' = NoInstr /\ left' = 0 /\ fault' = "none" /\ start' = Zeroed
  /\ si' = 0 /\ di' = 0 /\ cx' = 0 /\ df' = FALSE /\ zf' = FALSE
  /\ acc' = Zeroed.acc /\ mem' = Zeroed.mem

Init ==
  /\ phase = "idle"
  /\ ins = NoInstr /\ left = 0 /\ fault = "none" /\ start = Zeroed
  /\ si = 0 /\ di = 0 /\ cx = 0 /\ df = FALSE /\ zf = FALSE
  /\ acc = Zeroed.acc /\ mem = Zeroed.mem

Loop == Movs \/ Stos \/ Lods \/ (\E v \in Port : Ins(v)) \/ Outs \/ Cmps \/ Scas \/ Finish

Next == (\E i \in Instrs, r \in Starts : Begin(i, r)) \/ Loop \/ Leave

Spec == Init /\ [][Next]_vars

(* Nothing but the loop itself runs while it runs. *)
FairSpec == Spec /\ WF_vars(Loop)
=============================================================================
