---------------------------- MODULE X86AddrProps ----------------------------
(***************************************************************************)
(* Properties of operands: what an assembler would write for them, what    *)
(* pairs of instructions undo, and what an instruction leaves alone.       *)
(***************************************************************************)
EXTENDS X86Addr

(* Types of the machine and of the history. *)
TypeOK ==
  /\ IsMachine(cpu)
  /\ seg_ss \in BOOLEAN
  /\ count \in 0 .. MaxInstr
  /\ ins.p.seg \in Seg \cup {None} /\ ins.p.ofs \in Long
  /\ ins.len \in 0 .. 6

-----------------------------------------------------------------------------
(* The integer that k bytes mean *)
Meaning(v, k) == CHOOSE i \in -(Mod(k) \div 2) .. (Mod(k) \div 2) - 1 : (v - i) % Mod(k) = 0

(* An operand as an assembler writes it: [base + index * 2 ^ scale + disp] *)
Disps == {0} \cup {Meaning(d, k) : d \in DispArg, k \in Size}
Written32 == [base : Gpr \cup {None}, index : (Gpr \ {SP}) \cup {None}, scale : 0 .. 3, disp : Disps]
Written16 == [base : {BX, BP, None}, index : {SI, DI, None}, scale : {0}, disp : Disps]

DispBytes(t, o, wide) ==
  CASE o.mod = 0 -> IF t.base = None THEN wide ELSE 0
    [] o.mod = 1 -> 1
    [] o.mod = 2 -> wide

(* The bytes o encode t.  Without base there is a displacement, and mod 0; *)
(* EBP and BP alone need one, too.                                         *)
Encodes32(t, o) ==
  LET sib == o.rm = SP
  IN  /\ o.mod # 0 => t.base # None
      /\ IF t.base = None THEN o.mod = 0 /\ (IF sib THEN o.base = BP ELSE o.rm = BP)
         ELSE /\ o.mod = 0 => t.base # BP
              /\ t.base = IF sib THEN o.base ELSE o.rm
      /\ IF sib THEN IF t.index = None THEN o.index = SP /\ t.scale = o.scale
                     ELSE t.index = o.index /\ t.scale = o.scale
         ELSE t.index = None /\ t.scale = 0

Encodes16(t, o) ==
  CASE t.base = BX /\ t.index = SI     -> o.rm = 0
    [] t.base = BX /\ t.index = DI     -> o.rm = 1
    [] t.base = BP /\ t.index = SI     -> o.rm = 2
    [] t.base = BP /\ t.index = DI     -> o.rm = 3
    [] t.base = None /\ t.index = SI   -> o.rm = 4
    [] t.base = None /\ t.index = DI   -> o.rm = 5
    [] t.base = BP /\ t.index = None   -> o.rm = 6 /\ o.mod # 0
    [] t.base = BX /\ t.index = None   -> o.rm = 7
    [] t.base = None /\ t.index = None -> o.rm = 6 /\ o.mod = 0

HasDisp(t, o, k) == t.disp = IF k = 0 THEN 0 ELSE Meaning(o.disp, k)

(* No base in 16 bit: a displacement only without an index, too.           *)
Encodes(t, o) ==
  IF o.addr32 THEN Encodes32(t, o) /\ HasDisp(t, o, DispBytes(t, o, 4))
  ELSE /\ Encodes16(t, o)
       /\ HasDisp(t, o, IF t.index # None /\ o.mod = 0 THEN 0 ELSE DispBytes(t, o, 2))

Bytes(t, o) ==
  IF o.addr32 THEN DispBytes(t, o, 4) + (IF o.rm = SP THEN 1 ELSE 0)
  ELSE IF t.index # None /\ o.mod = 0 THEN 0 ELSE DispBytes(t, o, 2)

Effective(m, t, k) ==
  LET value(r) == IF r = None THEN 0 ELSE GetReg(m, r, k)
  IN  (value(t.base) + value(t.index) * 2 ^ t.scale + t.disp) % Mod(k)

(* An access goes where the assembler's operand says: offset, segment (the *)
(* override, or the stack segment for a base of (E)BP or ESP, whatever the *)
(* instruction before was) and length of the code agree, for each encoding *)
(* (decode_rm_address(), decode_sib_address(), get_data_segment()).        *)
DecodesOperand ==
  /\ ins.op = "load" /\ ins.o.mod # 3 =>
       \E t \in IF ins.o.addr32 THEN Written32 ELSE Written16 :
         /\ Encodes(t, ins.o)
         /\ ins.p.ofs = Effective(was, t, IF ins.o.addr32 THEN 4 ELSE 2)
         /\ ins.p.seg = IF ins.o.over # None THEN ins.o.over
                        ELSE IF t.base \in {BP, SP} THEN SS ELSE DS
         /\ ins.len = Bytes(t, ins.o)
  /\ ins.op = "moffs" => ins.p.seg \in {DS, ES}  \* ES: the override

-----------------------------------------------------------------------------
(* Two instructions of the same operand, none of which faulted, and the    *)
(* first has not moved what the second's address is made of                *)
Same ==
  /\ count = 2 /\ cpu.intr = None
  /\ ins.o # None /\ ins.k = prev.k /\ ins.o = prev.o
  /\ Place(first, ins.o) = Place(was, ins.o)

SameRegister == Same /\ GetReg(first, ins.o.r, ins.k) = GetReg(was, ins.o.r, ins.k)

Involution == {"not", "neg", "xchg"}
Opposite   == {<<"add", "sub">>, <<"sub", "add">>, <<"inc", "dec">>, <<"dec", "inc">>}
Through    == {<<"rcl", "rcr">>, <<"rcr", "rcl">>}
Rotations  == {<<"rol", "ror">>, <<"ror", "rol">>} \cup Through
Copies     == {<<"mov", "load">>, <<"load", "mov">>}
Unchanged  == cpu.reg = first.reg /\ cpu.mem = first.mem

(* A bit that was set, reset or complemented, and is then tested *)
Tested == SameRegister /\ prev.op \in {"bts", "btr", "btc"} /\ ins.op = "bt"

Remembers == cpu.cf = CASE prev.op = "bts" -> TRUE [] prev.op = "btr" -> FALSE
                        [] prev.op = "btc" -> ~was.cf

(* XCHG, NOT, NEG, BTC and BSWAP undo themselves, ADD and SUB, INC and DEC *)
(* and the rotations to the left and right each other, by any count and    *)
(* through the carry with CF; what is stored is loaded again, and BT finds *)
(* the bit as BTS, BTR or BTC left it, for longs with every bit offset, for*)
(* words with those within the word: with any operand, in any size, bytes  *)
(* of AH .. BH and words that straddle segment ends included.              *)
Undone ==
  /\ Same /\ prev.op = ins.op /\ ins.op \in Involution => Unchanged
  /\ SameRegister /\ <<prev.op, ins.op>> \in Opposite  => Unchanged
  /\ SameRegister /\ prev.op = "btc" /\ ins.op = "btc" => Unchanged
  /\ Same /\ <<prev.op, ins.op>> \in Rotations => cpu.reg = first.reg /\ cpu.mem = first.mem
  /\ Same /\ <<prev.op, ins.op>> \in Through   => cpu.cf = first.cf
  /\ Same /\ <<prev.op, ins.op>> \in Copies => cpu.reg = was.reg /\ cpu.mem = was.mem
  /\ count = 2 /\ prev.op = ins.op /\ prev.k = ins.k /\ ins.op \in {"bswap", "xchgax"} /\ prev.p = ins.p => Unchanged
  /\ count = 2 /\ prev.p = ins.p /\ prev.k = ins.k /\ <<prev.op, ins.op>> \in
       {<<"incr", "decr">>, <<"decr", "incr">>} => Unchanged
  /\ Tested /\ (ins.k = 4 \/ ins.o.mod = 3 \/ ins.x \in 0 .. (Width(2) - 1)) => Remembers

-----------------------------------------------------------------------------
(* What an instruction may write *)
ToPlace == {"mov", "xchg", "movimm", "movsr", "add", "sub", "arithi", "not", "neg", "inc",
            "dec", "incr", "decr", "rol", "ror", "rcl", "rcr", "setcc", "bts", "btr", "btc", "biti", "moffs"}
ToReg   == {"load", "xchg", "lea", "arith", "cmov", "movzx", "movsx", "bsf", "bsr"}

RegsWritten ==
  UNION {{<<r, ins.k>> : r \in {x \in {ins.p.ofs} : ins.op \in ToPlace /\ ins.p.seg = None}},
         {<<r, ins.k>> : r \in {x \in {IF ins.o = None THEN AX ELSE ins.o.r} : ins.op \in ToReg}},
         {<<AX, ins.k>> : x \in {1} \cap (IF ins.op \in {"moffs", "xchgax", "cbw", "xlat"} THEN {1} ELSE {})},
         {<<ins.p.ofs, ins.k>> : x \in {1} \cap (IF ins.op \in {"xchgax", "movri", "bswap", "cwd"} THEN {1} ELSE {})}}

(* An instruction changes the named part of its target register and the    *)
(* bytes of its place, and nothing else: writing AH keeps AL, writing AX   *)
(* keeps the upper half, and a fault changes no more than success would.   *)
OnlyTarget ==
  /\ \A r \in Gpr : cpu.reg[r] # was.reg[r] =>
       /\ \E w \in RegsWritten : Part(w[1], w[2]).reg = r
       /\ \A n \in 0 .. (Width(4) - 1) : Bit(cpu.reg[r], n) # Bit(was.reg[r], n) =>
            \E w \in RegsWritten :
              /\ Part(w[1], w[2]).reg = r
              /\ 2 ^ n >= Part(w[1], w[2]).low
              /\ 2 ^ n < Part(w[1], w[2]).low * Mod(w[2])
  /\ cpu.mem # was.mem =>
       /\ ins.op \in ToPlace /\ ins.p.seg # None
       /\ \A a \in DOMAIN cpu.mem \cup DOMAIN was.mem : MemAt(cpu, a) # MemAt(was, a) =>
            \E i \in 0 .. (ins.k - 1) : a = Cell(was, ins.p, i)
  /\ cpu.seg = was.seg

-----------------------------------------------------------------------------
(* README.md:5 "'regular' 32-bit instructions are covered": BT finds the   *)
(* bit for every bit offset.                                               *)
BitFound == Tested => Remembers
=============================================================================
