------------------------------ MODULE X86Addr -------------------------------
(***************************************************************************)
(* Operands: ModRM and SIB bytes, displacements, the choice of the data    *)
(* segment and of (parts of) registers (decode.c), and the instructions    *)
(* that move, exchange and change such operands (ops.c, ops2.c).           *)
(*                                                                         *)
(* An operand is what the bytes behind the opcode say.  An access beyond   *)
(* the limit of its segment raises #GP and goes on.                        *)
(***************************************************************************)
EXTENDS Integers, FiniteSetsExt

CONSTANTS
  ByteBits,  \* bits in a byte, 8 in the code
  Machines,  \* what the host prepares
  Operands,  \* operands of the first instruction
  ImmArg, DispArg, \* immediate operands and displacements
  CountArg,  \* how far to rotate
  MaxInstr,  \* instructions in a program
  None       \* no segment, no operand, no interrupt

Size == {1, 2, 4}                \* byte, word, long: in bytes
Width(k) == ByteBits * k         \* ... in bits
Mod(k)   == 2 ^ Width(k)

Byte == 0 .. (Mod(1) - 1)
Word == 0 .. (Mod(2) - 1)
Long == 0 .. (Mod(4) - 1)

(* Registers and segment registers by their number *)
AX == 0  CX == 1  DX == 2  BX == 3  SP == 4  BP == 5  SI == 6  DI == 7
Gpr == 0 .. 7
ES == 0  CS == 1  SS == 2  DS == 3  FS == 4  GS == 5  LDT == 6
Seg == 0 .. 6

Fault == {None, "UD", "GP"}

(* x86emu_regs_t as far as operands go, and the bytes in memory that   *)
(* are not 0; intr is intr_type.                                           *)
IsMachine(m) ==
  /\ m = [reg |-> m.reg, mem |-> m.mem, seg |-> m.seg, cf |-> m.cf, zf |-> m.zf, intr |-> m.intr]
  /\ m.reg \in [Gpr -> Long]
  /\ DOMAIN m.mem \subseteq Long /\ m.mem \in [DOMAIN m.mem -> Byte \ {0}]
  /\ m.seg \in [Seg -> [sel : Word, base : Long, limit : Long]]
  /\ m.cf \in BOOLEAN /\ m.zf \in BOOLEAN /\ m.intr \in Fault

(* mod, rm and the register field r of a ModRM byte; the SIB byte; what    *)
(* follows it in the code; address size and segment override in force.     *)
Operand == [mod : 0 .. 3, rm : Gpr, r : Gpr, scale : 0 .. 3, index : Gpr,
            base : Gpr, disp : Long, addr32 : BOOLEAN, over : (Seg \ {LDT}) \cup {None}]

ASSUME OperandAssumption ==
  /\ ByteBits \in Nat \ {0}
  /\ (\A m \in Machines : IsMachine(m)) /\ Operands \subseteq Operand
  /\ \A o \in Operands : o.disp \in DispArg
  /\ ImmArg \subseteq Long /\ DispArg \subseteq Long /\ CountArg \subseteq Nat
  /\ MaxInstr \in Nat
  /\ None \notin Gpr \cup Seg \cup Operand \cup {"UD", "GP"}

VARIABLES
  cpu,
  seg_ss,    \* SEG_DS_SS of x86.mode
  count,     \* instructions executed
  \* History, not in the code:
  ins, prev, \* the last instruction and the one before
  was, first \* the machines they found

vars == <<cpu, seg_ss, count, ins, prev, was, first>>

-----------------------------------------------------------------------------
(* decode_rm_byte_register(), ..._word_..., ..._long_...: AH is in AX, ... *)
Part(r, k) == [reg |-> IF k = 1 THEN r % 4 ELSE r, low |-> IF k = 1 /\ r > 3 THEN Mod(1) ELSE 1]

GetReg(m, r, k) == (m.reg[Part(r, k).reg] \div Part(r, k).low) % Mod(k)

(* Mutant: a word clears the upper half. *)
SetRegWhole(m, r, k, v) ==
  IF k = 1 THEN [m EXCEPT !.reg[r % 4] = v % Mod(1)] ELSE [m EXCEPT !.reg[r] = v % Mod(k)]

(* Mutant: the value is not cut to the part. *)
SetRegFar(m, r, k, v) ==
  LET p == Part(r, k)
  IN  [m EXCEPT !.reg[p.reg] = @ + p.low * (v - GetReg(m, r, k))]

SetReg(m, r, k, v) ==
  LET p == Part(r, k)
  IN  [m EXCEPT !.reg[p.reg] = @ + p.low * ((v % Mod(k)) - GetReg(m, r, k))]

(* (s8), (s16), (s32) *)
Signed(v, k) == IF (v % Mod(k)) * 2 >= Mod(k) THEN (v % Mod(k)) - Mod(k) ELSE v % Mod(k)

-----------------------------------------------------------------------------
(* An address: offset, whether it marks the stack segment, bytes of code   *)
(* behind the ModRM byte.                                                  *)
At(ofs, ss, len) == [ofs |-> ofs % Mod(4), ss |-> ss, len |-> len]

Raw(o, k)  == o.disp % Mod(k)
Disp(o, k) == Signed(o.disp, k)

(* Mutant: base 5 means EBP for every mod. *)
SibAlways(m, o) ==
  At(m.reg[o.base] + (IF o.index = SP THEN 0 ELSE m.reg[o.index] * 2 ^ o.scale),
     o.base \in {SP, BP}, 1)

(* decode_sib_address() and the SIB byte itself *)
Sib(m, o) ==
  LET absolute == o.base = BP /\ o.mod = 0
      base     == IF absolute THEN Raw(o, 4) ELSE m.reg[o.base]
      index    == IF o.index = SP THEN 0 ELSE m.reg[o.index] * 2 ^ o.scale
  IN  At(base + index, o.base \in {SP, BP} /\ ~absolute, IF absolute THEN 5 ELSE 1)

(* The registers of a 16 bit address *)
Pairs == [rm \in Gpr |-> CASE rm = 0 -> {BX, SI} [] rm = 1 -> {BX, DI} [] rm = 2 -> {BP, SI}
            [] rm = 3 -> {BP, DI} [] rm = 4 -> {SI} [] rm = 5 -> {DI} [] rm = 6 -> {BP} [] rm = 7 -> {BX}]

Sum16(m, rm) == MapThenSumSet(LAMBDA x : GetReg(m, x, 2), Pairs[rm])

Rm00(m, o) ==
  IF o.addr32
  THEN CASE o.rm = 4 -> Sib(m, o)
         [] o.rm = 5 -> At(Raw(o, 4), FALSE, 4)
         [] OTHER    -> At(m.reg[o.rm], FALSE, 0)
  ELSE IF o.rm = 6 THEN At(Raw(o, 2), FALSE, 2)
       ELSE At(Sum16(m, o.rm) % Mod(2), BP \in Pairs[o.rm], 0)

(* decode_rm01_address(), decode_rm10_address() with k bytes displacement  *)
Displaced(m, o, k) ==
  IF o.addr32
  THEN LET s == Sib(m, o)
       IN  IF o.rm = 4 THEN At(s.ofs + Disp(o, k), s.ss, s.len + k)
           ELSE At(m.reg[o.rm] + Disp(o, k), o.rm = BP, k)
  ELSE At((Sum16(m, o.rm) + Disp(o, k)) % Mod(2), BP \in Pairs[o.rm], k)

Rm01(m, o) == Displaced(m, o, 1)
Rm10(m, o) == Displaced(m, o, IF o.addr32 THEN 4 ELSE 2)

Address(m, o) == CASE o.mod = 0 -> Rm00(m, o) [] o.mod = 1 -> Rm01(m, o) [] o.mod = 2 -> Rm10(m, o)

(* get_data_segment() *)
DataSegment(over, ss) == IF over # None THEN over ELSE IF ss THEN SS ELSE DS

-----------------------------------------------------------------------------
(* x86emu_intr_raise(): the first interrupt wins. *)
Raise(m, fault) == IF m.intr = None THEN [m EXCEPT !.intr = fault] ELSE m

(* A place is a register, or memory at an offset of a segment. *)
InReg(r)     == [seg |-> None, ofs |-> r]
InMem(s, ofs) == [seg |-> s, ofs |-> ofs % Mod(4)]

(* The head of x86emu_run() assigns the mode word. *)
Head(ss)      == FALSE

Place(m, o) ==
  IF o.mod = 3 THEN InReg(o.rm)
  ELSE LET a == Address(m, o) IN InMem(DataSegment(o.over, Head(seg_ss) \/ a.ss), a.ofs)

MarksSs(o) == Head(seg_ss) \/ (o.mod # 3 /\ Address(cpu, o).ss)
Length(o)  == IF o.mod = 3 THEN 0 ELSE Address(cpu, o).len

(* check_data_access() *)
Check(m, p, k) ==
  IF p.seg # None /\ (p.ofs + k - 1) % Mod(4) > m.seg[p.seg].limit THEN Raise(m, "GP") ELSE m

Cell(m, p, i) == (m.seg[p.seg].base + p.ofs + i) % Mod(4)
ByteOf(v, i)  == (v \div Mod(i)) % Mod(1)
MemAt(m, a)   == IF a \in DOMAIN m.mem THEN m.mem[a] ELSE 0

Load(m, p, k) ==
  IF p.seg = None THEN GetReg(m, p.ofs, k)
  ELSE MapThenSumSet(LAMBDA i : MemAt(m, Cell(m, p, i)) * Mod(i), 0 .. (k - 1))

(* The bytes in memory behind a write of v *)
Written(m, p, k, v) ==
  LET cells == {Cell(m, p, i) : i \in 0 .. (k - 1)}
      all   == [a \in cells \cup DOMAIN m.mem |->
                  IF a \in cells THEN ByteOf(v, (a - m.seg[p.seg].base - p.ofs) % Mod(4)) ELSE m.mem[a]]
  IN  [a \in {b \in DOMAIN all : all[b] # 0} |-> all[a]]

Store(m, p, k, v) ==
  IF p.seg = None THEN SetReg(m, p.ofs, k, v)
  ELSE [Check(m, p, k) EXCEPT !.mem = Written(m, p, k, v)]

-----------------------------------------------------------------------------
(* Instruction op on operands of k bytes turns the machine into m.         *)
Nothing == [op |-> "start", k |-> 1, o |-> None, p |-> InReg(AX), len |-> 0, x |-> 0]

(* o is the operand, or None; p the place it, or the instruction, means;   *)
(* x its other operand or number.                                          *)
Did(op, k, o, p, x, m) ==
  /\ cpu' = m
  /\ ins' = [op |-> op, k |-> k, o |-> o, p |-> p, x |-> x,
             len |-> IF o = None THEN 0 ELSE Length(o)]
  /\ seg_ss' = IF o = None THEN Head(seg_ss) ELSE MarksSs(o)
  /\ prev' = ins /\ was' = cpu
  /\ first' = IF count = 0 THEN cpu ELSE first

(* Bound: the second instruction names the same operand as the first, or   *)
(* has none of its own, and is the first or one of its counterparts.       *)
Counterpart == [op \in {"mov", "load", "xchg", "add", "sub", "not", "neg", "inc", "dec",
                        "bts", "btr", "btc", "bswap", "xchgax", "movsx", "cbw", "lea",
                        "incr", "decr", "rol", "ror", "rcl", "rcr"} |->
  CASE op = "mov" -> {"load"} [] op = "load" -> {"mov"} [] op = "add" -> {"sub"} [] op = "sub" -> {"add"}
    [] op = "inc" -> {"dec"} [] op = "dec" -> {"inc"} [] op \in {"bts", "btr"} -> {"bt"}
    [] op = "incr" -> {"decr"} [] op = "decr" -> {"incr"} [] op = "rol" -> {"ror"} [] op = "ror" -> {"rol"}
    [] op = "rcl" -> {"rcr"} [] op = "rcr" -> {"rcl"} [] op = "btc" -> {"bt", "btc"} [] op = "cbw" -> {"cwd"} [] OTHER -> {op}]

Running == cpu.intr = None /\ count < MaxInstr

Goes(op, k, o) ==
  /\ Running /\ count' = count + 1
  /\ \/ count = 0
     \/ ins.op \in DOMAIN Counterpart /\ op \in Counterpart[ins.op] /\ k = ins.k /\ o = ins.o
     \/ op = "moffs" /\ ins.op = "load"

Choice == IF count = 0 THEN Operands ELSE {ins.o} \ {None}

(* 88 .. 8b *)
MovToRm(k, o) ==
  LET p == Place(cpu, o)
  IN  Goes("mov", k, o) /\ Did("mov", k, o, p, 0, Store(cpu, p, k, GetReg(cpu, o.r, k)))

MovToReg(k, o) ==
  LET p == Place(cpu, o)
  IN  Goes("load", k, o) /\ Did("load", k, o, p, 0, SetReg(Check(cpu, p, k), o.r, k, Load(cpu, p, k)))

(* 86, 87 *)
Xchg(k, o) ==
  LET p == Place(cpu, o)
  IN  /\ Goes("xchg", k, o)
      /\ Did("xchg", k, o, p, 0,
             SetReg(Store(cpu, p, k, GetReg(cpu, o.r, k)), o.r, k, Load(cpu, p, k)))

(* c6, c7: the byte form returns from an undefined opcode, the other goes  *)
(* on.                                                                     *)
MovImm(k, o, imm) ==
  LET p == Place(cpu, o)
      m == IF o.r # 0 THEN Raise(cpu, "UD") ELSE cpu
  IN  /\ Goes("movimm", k, o)
      /\ Did("movimm", k, o, p, imm, IF o.r # 0 /\ k = 1 THEN m ELSE Store(m, p, k, imm))

(* 8c: memory gets a word, whatever the operand size *)
MovFromSeg(k, o) ==
  LET p == Place(cpu, o)
      s == IF o.r > GS THEN LDT ELSE o.r
      m == IF o.r > GS THEN Raise(cpu, "UD") ELSE cpu
  IN  /\ k # 1 /\ Goes("movsr", k, o)
      /\ Did("movsr", IF o.mod = 3 THEN k ELSE 2, o, p, 0,
             Store(m, p, IF o.mod = 3 THEN k ELSE 2, cpu.seg[s].sel))

(* 8d *)
Lea(k, o) ==
  /\ k # 1 /\ Goes("lea", k, o)
  /\ Did("lea", k, o, Place(cpu, o), 0,
         IF o.mod = 3 THEN Raise(cpu, "UD") ELSE SetReg(cpu, o.r, k, Address(cpu, o).ofs))

(* a0 .. a3: AL, AX or EAX and a word or long in the code *)
MovAcc(k, a, addr32, over, toAcc) ==
  LET p == InMem(DataSegment(over, Head(seg_ss)), a % Mod(IF addr32 THEN 4 ELSE 2))
  IN  /\ Goes("moffs", k, None)
      /\ Did("moffs", k, None, p, a % Mod(IF addr32 THEN 4 ELSE 2),
             IF toAcc THEN SetReg(Check(cpu, p, k), AX, k, Load(cpu, p, k))
             ELSE Store(cpu, p, k, GetReg(cpu, AX, k)))

(* 91 .. 97; b0 .. bf *)
XchgAx(k, r) ==
  /\ k # 1 /\ r # AX /\ Goes("xchgax", k, None)
  /\ Did("xchgax", k, None, InReg(r), 0,
         SetReg(SetReg(cpu, AX, k, GetReg(cpu, r, k)), r, k, GetReg(cpu, AX, k)))

MovRegImm(k, r, imm) ==
  Goes("movri", k, None) /\ Did("movri", k, None, InReg(r), imm, SetReg(cpu, r, k, imm))

(* bswap: for words "undefined. Do nothing" *)
Bswap(k, r) ==
  /\ k # 1 /\ Goes("bswap", k, None)
  /\ Did("bswap", k, None, InReg(r), 0,
         IF k = 2 THEN cpu
         ELSE SetReg(cpu, r, 4, MapThenSumSet(
                LAMBDA i : ByteOf(cpu.reg[r], i) * Mod(3 - i), 0 .. 3)))

(* 98, 99: to a word or long *)
Cbw(k) ==
  /\ k # 1 /\ Goes("cbw", k, None)
  /\ Did("cbw", k, None, InReg(AX), 0, SetReg(cpu, AX, k, Signed(cpu.reg[AX], k \div 2)))

Cwd(k) ==
  /\ k # 1 /\ Goes("cwd", k, None)
  /\ Did("cwd", k, None, InReg(DX), 0,
         SetReg(cpu, DX, k, IF Signed(cpu.reg[AX], k) < 0 THEN -1 ELSE 0))

(* d7: the width of the address follows the operand size *)
Xlat(data32, over) ==
  LET a == GetReg(cpu, BX, IF data32 THEN 4 ELSE 2) + GetReg(cpu, AX, 1)
      p == InMem(DataSegment(over, Head(seg_ss)), IF data32 THEN a ELSE a % Mod(2))
  IN  Goes("xlat", 1, None) /\ Did("xlat", 1, None, p, 0, SetReg(Check(cpu, p, 1), AX, 1, Load(cpu, p, 1)))

-----------------------------------------------------------------------------
(* Arithmetic on operands; of the flags CF and ZF are kept here.           *)
Bit(v, n) == (v \div 2 ^ n) % 2 = 1

Flagged(m, cf, zf) == [m EXCEPT !.cf = cf, !.zf = zf]

Sum(op, d, s) == IF op = "add" THEN d + s ELSE d - s
ArithFlags(m, op, d, s, k) ==
  Flagged(m, Sum(op, d, s) \notin 0 .. (Mod(k) - 1), Sum(op, d, s) % Mod(k) = 0)

(* add, sub and cmp of the eight operations.  CMP does not store to memory. *)
Arith(m, op, p, k, d, s) ==
  IF op = "cmp" THEN ArithFlags(Check(m, p, k), op, d, s, k)
  ELSE Store(ArithFlags(m, op, d, s, k), p, k, Sum(op, d, s))

(* 00, 01, 28, 29, 38, 39 *)
ArithToRm(op, k, o) ==
  LET p == Place(cpu, o)
      s == GetReg(cpu, o.r, k)
  IN  Goes(op, k, o) /\ Did(op, k, o, p, s, Arith(cpu, op, p, k, Load(cpu, p, k), s))

(* 02, 03, ... *)
ArithToReg(op, k, o) ==
  LET p == Place(cpu, o)
      s == Load(cpu, p, k)
      d == GetReg(cpu, o.r, k)
  IN  /\ count = 0 /\ Goes(op, k, o)
      /\ Did(IF op = "cmp" THEN "cmp" ELSE "arith", k, o, p, s,
             Arith(Check(cpu, p, k), op, InReg(o.r), k, d, s))

(* 04, 05, ... *)
ArithAcc(op, k, imm) ==
  /\ Goes(op, k, None)
  /\ Did(op, k, None, InReg(AX), imm, Arith(cpu, op, InReg(AX), k, GetReg(cpu, AX, k), imm % Mod(k)))

(* 80 .. 83: a byte is extended to the operand *)
ArithImm(k, o, imm, short) ==
  LET p  == Place(cpu, o)
      s  == (IF short THEN Signed(imm, 1) ELSE imm) % Mod(k)
      op == CASE o.r = 0 -> "add" [] o.r = 5 -> "sub" [] o.r = 7 -> "cmp"
  IN  /\ o.r \in {0, 5, 7} /\ count = 0 /\ Goes(op, k, o)
      /\ Did(IF op = "cmp" THEN "cmp" ELSE "arithi", k, o, p, s,
             Arith(cpu, op, p, k, Load(cpu, p, k), s))

(* 84, 85, a8, a9, and f6, f7 with an immediate operand *)
Test(k, o, s) ==
  LET p == Place(cpu, o)
      v == Load(cpu, p, k)
      both == \E n \in 0 .. (Width(k) - 1) : Bit(v, n) /\ Bit(s % Mod(k), n)
  IN  Goes("test", k, o) /\ Did("test", k, o, p, s, Flagged(Check(cpu, p, k), FALSE, ~both))

(* 40 .. 47, 48 .. 4f *)
StepReg(op, k, r, n) ==
  /\ k # 1 /\ Goes(op, k, None)
  /\ Did(op, k, None, InReg(r), 0, SetReg(Flagged(cpu, cpu.cf, n % Mod(k) = 0), r, k, n))

IncReg(k, r) == StepReg("incr", k, r, GetReg(cpu, r, k) + 1)
DecReg(k, r) == StepReg("decr", k, r, GetReg(cpu, r, k) - 1)

(* The four rotations, by any count *)
Turned(v, n, w) == ((v * 2 ^ (n % w)) % 2 ^ w) + v \div 2 ^ (w - (n % w))

Rotated(op, v, n, w, cf) ==
  LET u == v + (IF cf THEN 2 ^ w ELSE 0)
      t == CASE op = "rol" -> Turned(v, n, w)     [] op = "ror" -> Turned(v, w - (n % w), w)
             [] op = "rcl" -> Turned(u, n, w + 1) [] op = "rcr" -> Turned(u, w + 1 - (n % (w + 1)), w + 1)
  IN  [val |-> t % 2 ^ w, cf |-> IF n = 0 THEN cf ELSE Bit(t, CASE op = "rol" -> 0 [] op = "ror" -> w - 1 [] OTHER -> w)]

Rotate(op, k, o, n) ==
  LET p == Place(cpu, o)
      t == Rotated(op, Load(cpu, p, k), n, Width(k), cpu.cf)
  IN  /\ count = 0 \/ n = ins.x
      /\ Goes(op, k, o)
      /\ Did(op, k, o, p, n, Store([cpu EXCEPT !.cf = t.cf], p, k, t.val))

(* c0, c1; d0, d1 by one, d2, d3 by CL *)
RotateImm(op, k, o) == \E n \in CountArg : Rotate(op, k, o, n)
RotateCl(op, k, o)  == \E n \in {1, GetReg(cpu, CX, 1)} : Rotate(op, k, o, n)

(* f6, f7 *)
NotRm(k, o) ==
  LET p == Place(cpu, o)
  IN  Goes("not", k, o) /\ Did("not", k, o, p, 0, Store(cpu, p, k, -1 - Load(cpu, p, k)))

NegRm(k, o) ==
  LET p == Place(cpu, o)
      d == Load(cpu, p, k)
  IN  Goes("neg", k, o) /\ Did("neg", k, o, p, 0, Store(Flagged(cpu, d # 0, d = 0), p, k, -d))

(* fe, ff *)
StepRm(op, k, o) ==
  LET p == Place(cpu, o)
      n == Load(cpu, p, k) + (IF op = "inc" THEN 1 ELSE -1)
  IN  Goes(op, k, o) /\ Did(op, k, o, p, 0, Store(Flagged(cpu, cpu.cf, n % Mod(k) = 0), p, k, n))

(* setcc, and cmovcc, which reads memory only to move *)
SetCc(o, cond) ==
  LET p == Place(cpu, o)
  IN  Goes("setcc", 1, o) /\ Did("setcc", 1, o, p, 0, Store(cpu, p, 1, IF cond THEN 1 ELSE 0))

Cmov(k, o, cond) ==
  LET p == Place(cpu, o)
  IN  /\ k # 1 /\ Goes("cmov", k, o)
      /\ Did("cmov", k, o, p, 0,
             IF cond THEN SetReg(Check(cpu, p, k), o.r, k, Load(cpu, p, k)) ELSE cpu)

(* movzx, movsx from j bytes *)
MovZx(k, j, o) ==
  LET p == Place(cpu, o)
  IN  k # 1 /\ Goes("movzx", k, o) /\ Did("movzx", k, o, p, j, SetReg(Check(cpu, p, j), o.r, k, Load(cpu, p, j)))

MovSx(k, j, o) ==
  LET p == Place(cpu, o)
  IN  /\ k # 1 /\ Goes("movsx", k, o)
      /\ Did("movsx", k, o, p, j, SetReg(Check(cpu, p, j), o.r, k, Signed(Load(cpu, p, j), j)))

-----------------------------------------------------------------------------
(* Bit instructions *)
WithBit(op, v, n) ==
  LET on == CASE op = "bt" -> Bit(v, n) [] op = "bts" -> TRUE
              [] op = "btr" -> FALSE [] op = "btc" -> ~Bit(v, n)
  IN  v + (IF on THEN 2 ^ n ELSE 0) - (IF Bit(v, n) THEN 2 ^ n ELSE 0)

(* BT reads only. *)
BitDone(op, p, k, n) ==
  LET v == Load(cpu, p, k)
      m == [Check(cpu, p, k) EXCEPT !.cf = Bit(v, n)]
  IN  IF op = "bt" THEN m ELSE Store(m, p, k, WithBit(op, v, n))

(* Mutant: words where there should be longs. *)
BitStepWord(op, k) == IF op = "bt" THEN Width(k) ELSE Width(2)

(* In memory the bit offset, a signed register, is split: its multiple of  *)
(* the width moves the address, in bytes.  The 16 bit forms of BTS, BTR    *)
(* and BTC step by the width of a long.                                    *)
BitStep(op, k) == IF op = "bt" THEN Width(k) ELSE Width(4)

BitReg(op, k, o) ==
  LET p == Place(cpu, o)
      x == Signed(GetReg(cpu, o.r, k), k)
      q == IF o.mod = 3 THEN p ELSE InMem(p.seg, p.ofs + x \div BitStep(op, k))
  IN  k # 1 /\ Goes(op, k, o) /\ Did(op, k, o, q, x, BitDone(op, q, k, x % Width(k)))

(* ba: the register form of words masks the number as that of longs *)
BitImm(op, k, o, imm) ==
  LET p == Place(cpu, o)
      n == imm % Width(IF o.mod = 3 THEN 4 ELSE k)
      m == IF n < Width(k) THEN BitDone(op, p, k, n) ELSE [cpu EXCEPT !.cf = FALSE]
  IN  /\ k # 1 /\ count = 0 /\ Goes(op, k, o)
      /\ Did("biti", k, o, p, n, m)

(* bsf counts from the bottom to the width, bsr from the top to 0 *)
Scanned(op, v, k) ==
  LET on == {n \in 0 .. (Width(k) - 1) : Bit(v, n)}
  IN  IF op = "bsf" THEN Min(on \cup {Width(k)}) ELSE Max(on \cup {0})

Scan(op, k, o) ==
  LET p == Place(cpu, o)
      v == Load(cpu, p, k)
  IN  /\ k # 1 /\ Goes(op, k, o)
      /\ Did(op, k, o, p, 0, SetReg([Check(cpu, p, k) EXCEPT !.zf = (v = 0)], o.r, k, Scanned(op, v, k)))

-----------------------------------------------------------------------------
Init ==
  /\ cpu \in Machines /\ seg_ss = FALSE /\ count = 0
  /\ ins = Nothing /\ prev = Nothing /\ was = cpu /\ first = cpu

Moves(k, o) ==
  \/ MovToRm(k, o)
  \/ MovToReg(k, o)
  \/ Xchg(k, o)
  \/ \E imm \in ImmArg : MovImm(k, o, imm)
  \/ MovFromSeg(k, o)
  \/ Lea(k, o)
  \/ \E cond \in BOOLEAN : Cmov(k, o, cond)
  \/ \E j \in {1, 2} : MovZx(k, j, o) \/ MovSx(k, j, o)

Arithmetics == {"add", "sub", "cmp"}

Changes(k, o) ==
  \/ \E op \in Arithmetics : ArithToRm(op, k, o)
  \/ \E op \in Arithmetics : ArithToReg(op, k, o)
  \/ \E imm \in ImmArg, short \in BOOLEAN : ArithImm(k, o, imm, short)
  \/ \E x \in ImmArg \cup {GetReg(cpu, o.r, k)} : Test(k, o, x)
  \/ \E op \in {"rol", "ror", "rcl", "rcr"} : RotateImm(op, k, o) \/ RotateCl(op, k, o)
  \/ NotRm(k, o) \/ NegRm(k, o)
  \/ \E op \in {"inc", "dec"} : StepRm(op, k, o)
  \/ k = 1 /\ \E cond \in BOOLEAN : SetCc(o, cond)
  \/ \E op \in {"bt", "bts", "btr", "btc"} : BitReg(op, k, o)
  \/ \E op \in {"bt", "bts", "btr", "btc"}, imm \in ImmArg : BitImm(op, k, o, imm)
  \/ \E op \in {"bsf", "bsr"} : Scan(op, k, o)

Accumulator(k) ==
  \/ \E a \in DispArg, addr32 \in BOOLEAN, over \in {None, ES}, toAcc \in BOOLEAN :
       MovAcc(k, a, addr32, over, toAcc)
  \/ \E r \in Gpr : XchgAx(k, r)
  \/ \E r \in Gpr, imm \in ImmArg : MovRegImm(k, r, imm)
  \/ \E r \in Gpr : Bswap(k, r)
  \/ \E op \in Arithmetics, imm \in ImmArg : ArithAcc(op, k, imm)
  \/ \E r \in Gpr : IncReg(k, r) \/ DecReg(k, r)
  \/ Cbw(k)
  \/ Cwd(k)

Next == Running /\
  \/ \E k \in Size : Accumulator(k)
  \/ \E data32 \in BOOLEAN, over \in {None, ES} : Xlat(data32, over)
  \/ \E k \in Size, o \in Choice : Moves(k, o) \/ Changes(k, o)

Spec == Init /\ [][Next]_vars
=============================================================================
