---------------------------- MODULE X86XferProofs ---------------------------
(***************************************************************************)
(* Proofs about stacks, transfers and segment registers, for every width   *)
(* of words, all descriptor tables, machines and operands.  An instruction *)
(* is a chain of a few helpers (push, pop, load of a segment ...): each    *)
(* takes a good machine to a good one, so every chain does.  The second    *)
(* part is about what the steps of an instruction leave alone, on a 16 bit *)
(* stack and behind a fault, and where a far transfer arrives.  The third  *)
(* is about frames: each lies in memory below the ones opened before it,   *)
(* so that what pops the top one finds what was pushed.                    *)
(***************************************************************************)
EXTENDS X86XferProps, TLAPS

-----------------------------------------------------------------------------
(* Arithmetic of widths *)
LEMMA DivMod ==
  ASSUME NEW x \in Int, NEW m \in Nat \ {0}
  PROVE  /\ x \div m \in Int /\ x % m \in 0 .. (m - 1)
         /\ x = m * (x \div m) + (x % m)
BY SMT

LEMMA Sizes ==
  /\ Lo \in Nat /\ Lo >= 16 /\ Full \in Nat /\ Full >= Lo /\ Hi \in Nat \ {0} /\ Hi <= Lo
  /\ Word \subseteq Long /\ Nr = Word /\ 0 \in Word
  /\ Lo \in Nat \ {0} /\ Full \in Nat \ {0}
<1>1. Lo \in Nat /\ Lo >= 16 /\ Hi \in Nat /\ Hi >= 1 /\ Hi <= Lo
  BY SizeAssumption, SMT
<1>2. Lo * Hi >= Lo /\ Lo * Hi \in Nat
  BY <1>1, SMT
<1> QED
  BY <1>1, <1>2, SMT DEF Full, Word, Long, Nr

Widths == {Lo, Full}

LEMMA WrittenLong ==
  ASSUME NEW r \in Long, NEW v \in Int, NEW w \in Widths
  PROVE  Written(r, v, w) \in Long
<1>1. w \in Nat \ {0} /\ Lo \in Nat \ {0} /\ Full \in Nat \ {0} /\ r \in Int
  BY Sizes, SMT DEF Widths, Long
<1> DEFINE q == r \div w
           y == r % w
           z == v % w
<1>2. q \in Int /\ y \in 0 .. (w - 1) /\ r = w * q + y /\ z \in 0 .. (w - 1)
  BY <1>1, DivMod
<1>3. Written(r, v, w) = w * q + z
  <2> HIDE DEF q
  <2> QED BY <1>1, <1>2, SMT DEF Written
<1> HIDE DEF q, y, z
<1>4. \E h \in Nat \ {0} : Full = w * h
  <2>1. Full = Lo * Hi /\ Full = Full * 1 /\ Hi \in Nat \ {0}
    BY Sizes, SMT DEF Full
  <2> QED BY <2>1 DEF Widths
<1>5. PICK h \in Nat \ {0} : Full = w * h
  BY <1>4
<1>6. r >= 0 /\ r < w * h
  BY <1>5, Sizes, SMT DEF Long
<1>7. q >= 0
  <2>1. CASE q < 0
    <3>1. w * q <= -w
      <4>1. q + 1 <= 0 /\ w * (q + 1) = w * q + w
        BY <2>1, <1>1, <1>2, SMT
      <4>2. w * (q + 1) <= 0
        BY <4>1, <1>1, <1>2, SMT
      <4> QED BY <4>1, <4>2, <1>1, <1>2, SMT
    <3> QED BY <3>1, <1>1, <1>2, <1>6, SMT
  <2> QED BY <2>1, <1>2, SMT
<1>8. q <= h - 1
  <2>1. CASE q >= h
    <3>1. w * q >= w * h
      BY <2>1, <1>1, <1>2, SMT
    <3> QED BY <3>1, <1>1, <1>2, <1>6, SMT
  <2> QED BY <2>1, <1>2, SMT
<1>9. w * q >= 0 /\ w * q <= w * (h - 1) /\ w * (h - 1) = w * h - w
  BY <1>7, <1>8, <1>1, <1>2, SMT
<1>10. w * q + z >= 0 /\ w * q + z <= Full - 1
  <2>1. w * q \in Int /\ w * h \in Int
    BY <1>1, <1>2, SMT
  <2> QED BY <2>1, <1>9, <1>1, <1>2, <1>5, SMT
<1> QED
  BY <1>3, <1>10, <1>1, <1>2, SMT DEF Long

LEMMA SeenLong ==
  ASSUME NEW r \in Int, NEW w \in Widths
  PROVE  Seen(r, w) \in Long /\ Seen(r, w) \in 0 .. (w - 1)
<1>1. w \in Nat \ {0} /\ w <= Full /\ Full \in Nat
  BY Sizes, SMT DEF Widths
<1>2. r % w \in 0 .. (w - 1)
  BY <1>1, DivMod
<1> QED
  BY <1>1, <1>2, SMT DEF Seen, Long

LEMMA WidthsAre == N \in {1, 2} /\ D \in Widths /\ W \in Widths /\ Size(mode.stack32) \in {1, 2}
BY DEF N, D, W, Size, Width, Widths

-----------------------------------------------------------------------------
(* Segment registers are whole: the parts of SegmentsWhole, for one.       *)
OfDescr(r)  == \E base \in Long : From(r, base, Index(r.sel))
               /\ r.base = Descrs[base][Index(r.sel)].base
OfHost(s, r) == \E m \in Machines : r = m.seg[s]
OfReal(s, r) ==
  /\ r.base = r.sel * Para
  /\ \/ Kept(r, Null)
     \/ \E base \in Long, i \in Nr : From(r, base, i)
     \/ \E m \in Machines : Kept(r, m.seg[s])

WholeReg(s, r) == r = Null \/ OfDescr(r) \/ OfHost(s, r) \/ OfReal(s, r)

Good(m) == m \in Machine /\ \A s \in SegName : WholeReg(s, m.seg[s])

LEMMA FieldTypes ==
  ASSUME NEW m \in Machine
  PROVE  /\ m.reg \in [Gpr -> Long] /\ m.seg \in [SegName -> Reg]
         /\ m.gdt \in Table /\ m.idt \in Table /\ m.pe \in BOOLEAN
         /\ m.eip \in Long /\ m.flags \in Long /\ m.mem \in [Long -> Word]
         /\ m.intr \in Intr \cup {None}
         /\ \A r \in Gpr : m.reg[r] \in Long
         /\ \A s \in SegName : /\ m.seg[s] \in Reg /\ m.seg[s].sel \in Word
                               /\ m.seg[s].base \in Long /\ m.seg[s].limit \in Nat
BY DEF Machine, Reg

LEMMA NullReg == Null \in Reg
BY Sizes, SMT DEF Null, Reg, NoAcc, Access, Type, Word, Long

LEMMA DescrTypes ==
  ASSUME NEW base \in Long, NEW i \in Nr
  PROVE  /\ Descrs[base][i] \in Descr
         /\ Descrs[base][i].base \in Long /\ Descrs[base][i].acc \in Access
         /\ LimitOf(Descrs[base][i]) \in Nat
         /\ Descrs[base][i].sel \in Word /\ Descrs[base][i].ofs \in Long
<1>1. Descrs[base][i] \in Descr
  BY TableAssumption
<1>2. Gran \in Nat \ {0}
  BY SizeAssumption
<1> QED
  BY <1>1, <1>2, SMT DEF Descr, LimitOf

LEMMA IndexNr ==
  ASSUME NEW val \in Word
  PROVE  Index(val) \in Nr
BY Sizes, SMT DEF Index, Nr, Word

(* x86emu_set_seg_register(): whatever is loaded, or refused, the register *)
(* is whole.                                                               *)
LEMMA LoadWhole ==
  ASSUME NEW pe \in BOOLEAN, NEW gdt \in Table, NEW ldt \in Reg, NEW r \in Reg,
         NEW val \in Word, NEW s \in SegName, WholeReg(s, r)
  PROVE  /\ Load(pe, gdt, ldt, r, val).reg \in Reg
         /\ WholeReg(s, Load(pe, gdt, ldt, r, val).reg)
<1> DEFINE table == IF InLdt(val) THEN ldt ELSE gdt
           i     == Index(val)
           d     == Descrs[table.base][i]
           loaded == Load(pe, gdt, ldt, r, val).reg
<1>1. table.base \in Long /\ i \in Nr
  BY IndexNr DEF Table, Reg
<1>2. CASE ~pe
  <2> DEFINE q == [r EXCEPT !.sel = val, !.base = val * Para]
  <2>1. loaded = q
    BY <1>2 DEF Load
  <2>2. val * Para \in Long
    <3>1. Para \in Nat /\ Lo \in Nat /\ Para * Lo <= Full /\ val \in 0 .. (Lo - 1)
      BY SizeAssumption, SMT DEF Word
    <3>2. CASE Para = 0
      BY <3>1, <3>2, Sizes, SMT DEF Long
    <3>3. CASE Para > 0
      <4>1. val * Para <= (Lo - 1) * Para /\ (Lo - 1) * Para = Para * Lo - Para /\ val * Para >= 0
        BY <3>1, <3>3, SMT
      <4> QED BY <4>1, <3>1, <3>3, Sizes, SMT DEF Long
    <3> QED BY <3>1, <3>2, <3>3, SMT
  <2>3. q \in Reg /\ q.sel = val /\ q.base = val * Para /\ q.limit = r.limit /\ q.acc = r.acc
    BY <2>2 DEF Reg
  <2>4. \/ Kept(r, Null)
        \/ \E base \in Long, j \in Nr : From(r, base, j)
        \/ \E m \in Machines : Kept(r, m.seg[s])
    <3>1. CASE r = Null
      BY <3>1 DEF Kept
    <3>2. CASE OfDescr(r)
      <4>1. Index(r.sel) \in Nr
        BY IndexNr DEF Reg
      <4> QED BY <4>1, <3>2 DEF OfDescr
    <3>3. CASE OfHost(s, r)
      BY <3>3 DEF OfHost, Kept
    <3>4. CASE OfReal(s, r)
      BY <3>4 DEF OfReal
    <3> QED BY <3>1, <3>2, <3>3, <3>4 DEF WholeReg
  <2>5. \/ Kept(q, Null)
        \/ \E base \in Long, j \in Nr : From(q, base, j)
        \/ \E m \in Machines : Kept(q, m.seg[s])
    <3> HIDE DEF q
    <3> QED BY <2>3, <2>4 DEF Kept, From
  <2> HIDE DEF q
  <2> QED BY <2>1, <2>3, <2>5 DEF WholeReg, OfReal
<1>3. CASE pe /\ i = 0
  BY <1>3, NullReg DEF Load, WholeReg
<1>4. CASE pe /\ i # 0 /\ Within(table, i) /\ Usable(d)
  <2>1. loaded = LoadedFrom(d, val)
    BY <1>4 DEF Load, At
  <2>2. d.base \in Long /\ d.acc \in Access /\ LimitOf(d) \in Nat
    BY <1>1, DescrTypes
  <2> HIDE DEF d, loaded
  <2>3. /\ loaded \in Reg /\ loaded.sel = val /\ loaded.base = d.base
        /\ loaded.limit = LimitOf(d) /\ loaded.acc = d.acc
    BY <2>1, <2>2 DEF LoadedFrom, Reg
  <2>4. From(loaded, table.base, i)
    BY <2>3, <1>4 DEF From, d
  <2>5. OfDescr(loaded)
    BY <2>3, <2>4, <1>1 DEF OfDescr, d
  <2> QED BY <2>3, <2>5 DEF WholeReg, loaded
<1>5. CASE pe /\ i # 0 /\ ~(Within(table, i) /\ Usable(d))
  BY <1>5 DEF Load, At
<1> QED
  BY <1>2, <1>3, <1>4, <1>5

-----------------------------------------------------------------------------
(* The helpers an instruction is made of.  Those that leave the segment    *)
(* registers alone keep them whole.                                        *)
LEMMA SameSegments ==
  ASSUME NEW m, NEW q \in Machine, Good(m), q.seg = m.seg
  PROVE  Good(q)
BY DEF Good

LEMMA RaiseGood ==
  ASSUME NEW m, Good(m), NEW new \in Intr
  PROVE  Good(Raise(m, new)) /\ Raise(m, new).reg = m.reg
<1>1. m \in Machine
  BY DEF Good
<1>2. Raise(m, new) \in Machine /\ Raise(m, new).seg = m.seg /\ Raise(m, new).reg = m.reg
  BY <1>1 DEF Raise, Machine
<1> QED
  BY <1>2, SameSegments

LEMMA Faults ==
  ASSUME NEW e \in Word
  PROVE  FaultGP(e) \in Intr /\ FaultUD \in Intr /\ Soft(3) \in Intr /\ Soft(4) \in Intr
BY OperandAssumption DEF FaultGP, FaultUD, Soft, Intr

LEMMA CheckGood ==
  ASSUME NEW m, Good(m), NEW s \in SegName, NEW ofs, NEW n
  PROVE  Good(Check(m, s, ofs, n)) /\ Check(m, s, ofs, n).reg = m.reg
<1>1. m.seg[s].sel \in Word
  BY FieldTypes DEF Good
<1> QED
  BY <1>1, Faults, RaiseGood DEF Check

LEMMA SetRegGood ==
  ASSUME NEW m, Good(m), NEW r \in Gpr, NEW v \in Int, NEW w \in Widths
  PROVE  Good(SetReg(m, r, v, w))
<1>1. m \in Machine /\ m.reg[r] \in Long
  BY FieldTypes DEF Good
<1>2. Written(m.reg[r], v, w) \in Long
  BY <1>1, WrittenLong
<1>3. SetReg(m, r, v, w) \in Machine /\ SetReg(m, r, v, w).seg = m.seg
  BY <1>1, <1>2 DEF SetReg, Machine
<1> QED
  BY <1>3, SameSegments

LEMMA GetLong ==
  ASSUME NEW m, Good(m), NEW r \in Gpr, NEW w \in Widths
  PROVE  Get(m, r, w) \in Long /\ Get(m, r, w) \in Int
<1>1. m.reg[r] \in Long
  BY FieldTypes DEF Good
<1>2. m.reg[r] \in Int
  BY <1>1, Sizes, SMT DEF Long
<1>3. Get(m, r, w) \in Long
  BY <1>2, SeenLong DEF Get
<1> QED
  BY <1>3, Sizes, SMT DEF Long

LEMMA LinearLong ==
  ASSUME NEW m, Good(m), NEW s \in SegName, NEW ofs \in Int
  PROVE  Linear(m, s, ofs) \in Long
<1>1. m.seg[s].base \in Long
  BY FieldTypes DEF Good
<1>2. m.seg[s].base + ofs \in Int /\ Full \in Nat \ {0}
  BY <1>1, Sizes, SMT DEF Long
<1>3. (m.seg[s].base + ofs) % Full \in 0 .. (Full - 1)
  BY <1>2, DivMod
<1> QED
  BY <1>3 DEF Linear, Long

LEMMA Halves ==
  ASSUME NEW v \in Int
  PROVE  v % Lo \in Word /\ (v \div Lo) % Hi \in Word
<1>1. Lo \in Nat \ {0} /\ Hi \in Nat \ {0} /\ Hi <= Lo
  BY Sizes
<1>2. v % Lo \in 0 .. (Lo - 1) /\ v \div Lo \in Int
  BY <1>1, DivMod
<1>3. (v \div Lo) % Hi \in 0 .. (Hi - 1)
  BY <1>1, <1>2, DivMod
<1> QED
  BY <1>1, <1>2, <1>3, SMT DEF Word

LEMMA StoredGood ==
  ASSUME NEW m, Good(m), NEW s \in SegName, NEW ofs, NEW n, NEW v \in Int
  PROVE  Good(Stored(m, s, ofs, n, v)) /\ Stored(m, s, ofs, n, v).reg = m.reg
<1> DEFINE c == Check(m, s, ofs, n)
           q == Stored(m, s, ofs, n, v)
<1>1. Good(c) /\ c.reg = m.reg
  BY CheckGood
<1>2. v % Lo \in Word /\ (v \div Lo) % Hi \in Word
  BY Halves
<1>3. m.mem \in [Long -> Word]
  BY FieldTypes DEF Good
<1> HIDE DEF c
<1>4. c \in Machine
  BY <1>1 DEF Good
<1>5. q = [c EXCEPT !.mem = q.mem] /\ q.mem \in [Long -> Word]
  BY <1>2, <1>3, <1>4 DEF Stored, c, Machine
<1> HIDE DEF q
<1>6. q \in Machine /\ q.seg = c.seg /\ q.reg = c.reg
  BY <1>4, <1>5 DEF Machine
<1> QED
  BY <1>1, <1>6, SameSegments DEF q

LEMMA PushGood ==
  ASSUME NEW m, Good(m), NEW n \in {1, 2}, NEW v \in Int, NEW w \in Widths
  PROVE  Good(Push(m, n, v, w))
<1> DEFINE m1 == SetReg(m, "sp", Get(m, "sp", w) - n, w)
<1>1. "sp" \in Gpr /\ "ss" \in SegName
  BY DEF Gpr, SegName
<1>2. Get(m, "sp", w) - n \in Int
  BY <1>1, GetLong, SMT
<1>3. Good(m1)
  BY <1>1, <1>2, SetRegGood
<1> HIDE DEF m1
<1>4. Good(Stored(m1, "ss", Get(m1, "sp", w), n, v))
  BY <1>1, <1>3, StoredGood
<1> QED
  BY <1>4, ZenonT(60) DEF Push, m1

LEMMA TopLong ==
  ASSUME NEW m, Good(m), NEW s \in SegName, NEW ofs \in Int, NEW n \in {1, 2}
  PROVE  Fetched(m, s, ofs, n) \in Long
<1>1. m.mem \in [Long -> Word]
  BY FieldTypes DEF Good
<1>2. Linear(m, s, ofs) \in Long /\ Linear(m, s, ofs + 1) \in Long
  BY LinearLong, SMT
<1>3. m.mem[Linear(m, s, ofs)] \in Word /\ m.mem[Linear(m, s, ofs + 1)] \in Word
  BY <1>1, <1>2
<1> DEFINE x == m.mem[Linear(m, s, ofs)]
           y == m.mem[Linear(m, s, ofs + 1)]
           z == y % Hi
<1> HIDE DEF x, y
<1>4. x \in Word /\ y \in Int /\ Hi \in Nat \ {0} /\ Lo \in Nat
  BY <1>3, Sizes, SMT DEF x, y, Word
<1>5. z \in 0 .. (Hi - 1)
  BY <1>4, DivMod
<1> HIDE DEF z
<1>6. Lo * z >= 0 /\ Lo * z <= Lo * (Hi - 1) /\ Lo * (Hi - 1) = Full - Lo /\ Lo * z \in Int
  BY <1>4, <1>5, SMT DEF Full
<1>7. x + Lo * z \in Long
  BY <1>4, <1>6, Sizes, SMT DEF Word, Long
<1>8. x \in Long
  BY <1>4, Sizes
<1>9. CASE n = 1
  BY <1>8, <1>9, <1>4, SMT DEF Fetched, x, Word
<1>10. CASE n = 2
  BY <1>7, <1>10 DEF Fetched, x, y, z
<1> QED
  BY <1>9, <1>10

LEMMA PopGood ==
  ASSUME NEW m, Good(m), NEW n \in {1, 2}, NEW w \in Widths
  PROVE  /\ Good(Pop(m, n, w))
         /\ Top(m, n, w) \in Long /\ Top(m, n, w) \in Int /\ Top(m, n, w) % Lo \in Word
<1>1. "sp" \in Gpr /\ "ss" \in SegName
  BY DEF Gpr, SegName
<1>2. Get(m, "sp", w) \in Int /\ Get(m, "sp", w) + n \in Int
  BY <1>1, GetLong, SMT
<1>3. Good(Check(m, "ss", Get(m, "sp", w), n))
  BY <1>1, CheckGood
<1>4. Good(Pop(m, n, w))
  BY <1>1, <1>2, <1>3, SetRegGood DEF Pop
<1>5. Top(m, n, w) \in Long
  BY <1>1, <1>2, TopLong DEF Top
<1>6. Top(m, n, w) \in Int
  BY <1>5, Sizes, SMT DEF Long
<1> QED
  BY <1>4, <1>5, <1>6, Halves

LEMMA LoadSegGood ==
  ASSUME NEW m, Good(m), NEW s \in SegName, NEW val \in Word
  PROVE  Good(LoadSeg(m, s, val)) /\ LoadSeg(m, s, val).reg = m.reg
<1> DEFINE l == Load(m.pe, m.gdt, m.seg["ldt"], m.seg[s], val)
           q == [m EXCEPT !.seg[s] = l.reg]
<1>1. m \in Machine /\ \A t \in SegName : WholeReg(t, m.seg[t])
  BY DEF Good
<1>2. m.pe \in BOOLEAN /\ m.gdt \in Table /\ m.seg["ldt"] \in Reg /\ m.seg[s] \in Reg
  BY <1>1, FieldTypes DEF SegName
<1>3. l.reg \in Reg /\ WholeReg(s, l.reg)
  BY <1>1, <1>2, LoadWhole
<1> HIDE DEF l
<1>4. q \in Machine /\ q.reg = m.reg /\ q.seg = [m.seg EXCEPT ![s] = l.reg]
  BY <1>1, <1>3 DEF Machine
<1> HIDE DEF q
<1>5. \A t \in SegName : q.seg[t] = IF t = s THEN l.reg ELSE m.seg[t]
  BY <1>1, <1>4 DEF Machine
<1>6. Good(q)
  BY <1>1, <1>3, <1>4, <1>5 DEF Good
<1>7. Good(Raise(m, FaultGP(val))) /\ Raise(m, FaultGP(val)).reg = m.reg
  BY Faults, RaiseGood
<1> QED
  BY <1>4, <1>6, <1>7 DEF LoadSeg, l, q

(* [m EXCEPT !.eip ...] and the other parts no segment depends on          *)
LEMMA PartsGood ==
  ASSUME NEW m, Good(m)
  PROVE  /\ \A eip \in Long : Good([m EXCEPT !.eip = eip])
         /\ \A f \in Long : Good([m EXCEPT !.flags = f])
         /\ \A pe \in BOOLEAN : Good([m EXCEPT !.pe = pe])
         /\ \A t \in Table : Good([m EXCEPT !.gdt = t]) /\ Good([m EXCEPT !.idt = t])
         /\ Good([m EXCEPT !.intr = None])
BY DEF Good, Machine

LEMMA GotoGood ==
  ASSUME NEW m, Good(m), NEW cs \in Word, NEW eip \in Long
  PROVE  Good(Goto(m, cs, eip))
<1>1. Good(LoadSeg(m, "cs", cs))
  BY LoadSegGood DEF SegName
<1> QED
  BY <1>1, PartsGood DEF Goto

LEMMA FlagWords ==
  ASSUME NEW f \in Long
  PROVE  /\ AlwaysOn(f) \in Long /\ ClearIfTf(f) \in Long
         /\ Shown(f) \in Int
<1>1. Full \in Nat /\ \E k \in Nat : Full = 16 * k
  <2>1. PICK j \in Int : Lo = 16 * j
    <3>1. Lo = 16 * (Lo \div 16) /\ Lo \div 16 \in Int
      BY SizeAssumption, SMT
    <3> QED BY <3>1
  <2>2. Full = 16 * (j * Hi) /\ Full \in Nat /\ j * Hi \in Int
    BY <2>1, Sizes, SMT DEF Full
  <2>3. j * Hi \in Nat
    BY <2>2, SMT
  <2> QED BY <2>2, <2>3
<1>2. PICK k \in Nat : Full = 16 * k
  BY <1>1
<1>3. f \in Nat /\ f < 16 * k
  BY <1>2, SMT DEF Long
<1>4. f % 16 \in 0 .. 15 /\ f % 4 \in 0 .. 3 /\ f % 4 <= f % 16 /\ f % 16 <= f
  BY <1>3, SMT
<1>5. ClearIfTf(f) \in Long
  BY <1>2, <1>3, <1>4, SMT DEF ClearIfTf, Long
<1>6. AlwaysOn(f) \in Long
  <2>1. CASE (f \div 2) % 2 = 1
    BY <2>1 DEF AlwaysOn
  <2>2. CASE (f \div 2) % 2 # 1
    <3>1. f + 2 < 16 * k
      BY <2>2, <1>3, SMT
    <3> QED BY <3>1, <2>2, <1>2, <1>3, SMT DEF AlwaysOn, Long
  <2> QED BY <2>1, <2>2
<1>7. Shown(f) \in Int
  <2>1. f % Lo \in 0 .. (Lo - 1)
    BY <1>3, Sizes, DivMod
  <2> DEFINE g == (f % 16) + (IF Cpuid THEN f - (f % Lo) ELSE 0)
  <2>2. g \in Int
    BY <2>1, <1>3, <1>4, Sizes, SMT
  <2> HIDE DEF g
  <2>3. AlwaysOn(g) \in Int
    BY <2>2, SMT DEF AlwaysOn
  <2> QED BY <2>3 DEF Shown, g
<1> QED
  BY <1>5, <1>6, <1>7

-----------------------------------------------------------------------------
(* The actions *)
GoodState == TypeOK /\ Good(cpu)

LEMMA DoneGood ==
  ASSUME TypeOK, NEW op, NEW dest, NEW result, Do(op, dest, result), Good(result)
  PROVE  TypeOK' /\ Good(cpu')
<1>1. cpu' = result /\ stage' = "intr" /\ UNCHANGED <<mode, saved, copies, count, was>>
  BY DEF Do
<1>2. cpu' \in Machine
  BY <1>1 DEF Good
<1> QED
  BY <1>1, <1>2 DEF TypeOK

LEMMA WordsAndLongs ==
  /\ \A v \in Int : v % D \in Long /\ v % D \in Int /\ v % Lo \in Word
  /\ \A v \in Long : v \in Int /\ v % D \in Long
  /\ \A v \in Word : v \in Int /\ v \in Long
<1>1. ASSUME NEW v \in Int PROVE v % D \in Long /\ v % D \in Int
  <2>1. D \in Nat \ {0} /\ D <= Full
    BY WidthsAre, Sizes, SMT DEF Widths
  <2>2. v % D \in 0 .. (D - 1)
    BY <2>1, DivMod
  <2> QED BY <2>1, <2>2, Sizes, SMT DEF Long
<1>2. \A v \in Long : v \in Int
  BY SMT DEF Long
<1>3. \A v \in Word : v \in Int /\ v \in Long
  BY Sizes, SMT DEF Word
<1> QED
  BY <1>1, <1>2, <1>3, Halves

LEMMA PushAllGood ==
  ASSUME GoodState, PushAll
  PROVE  TypeOK' /\ Good(cpu')
<1> DEFINE P(m, r) == Push(m, N, Get(cpu, r, D), W)
<1>1. \A m : Good(m) => \A r \in Gpr : Good(P(m, r))
  <2> TAKE m
  <2> HAVE Good(m)
  <2> TAKE r \in Gpr
  <2>1. Get(cpu, r, D) \in Int
    BY GetLong, WidthsAre DEF GoodState
  <2> QED BY <2>1, PushGood, WidthsAre
<1> DEFINE all == P(P(P(P(P(P(P(P(cpu, "ax"), "cx"), "dx"), "bx"), "sp"), "bp"), "si"), "di")
<1>2. Do("pusha", "none", all)
  BY DEF PushAll
<1>3. Good(all)
  <2> HIDE DEF P
  <2>1. Good(P(P(P(P(cpu, "ax"), "cx"), "dx"), "bx"))
    BY <1>1 DEF GoodState, Gpr
  <2> QED BY <1>1, <2>1 DEF Gpr
<1> HIDE DEF all
<1> QED
  BY <1>2, <1>3, DoneGood DEF GoodState

LEMMA PopAllGood ==
  ASSUME GoodState, PopAll
  PROVE  TypeOK' /\ Good(cpu')
<1> DEFINE P(m, r) == SetReg(Pop(m, N, W), r, Top(m, N, W), D)
           Skip(m) == SetReg(m, "sp", Get(m, "sp", D) + N, D)
           all == P(P(P(P(Skip(P(P(P(cpu, "di"), "si"), "bp")), "bx"), "dx"), "cx"), "ax")
<1>1. \A m : Good(m) => \A r \in Gpr : Good(P(m, r))
  BY PopGood, SetRegGood, WidthsAre
<1>2. \A m : Good(m) => Good(Skip(m))
  <2> TAKE m
  <2> HAVE Good(m)
  <2>1. "sp" \in Gpr
    BY DEF Gpr
  <2>2. Get(m, "sp", D) \in Int
    BY <2>1, GetLong, WidthsAre
  <2>3. Get(m, "sp", D) + N \in Int
    BY <2>2, WidthsAre, SMT
  <2> QED BY <2>1, <2>3, SetRegGood, WidthsAre
<1>3. Do("popa", "all", all)
  BY DEF PopAll
<1>4. Good(all)
  <2> HIDE DEF P, Skip
  <2>1. Good(Skip(P(P(P(cpu, "di"), "si"), "bp")))
    BY <1>1, <1>2 DEF GoodState, Gpr
  <2> QED BY <1>1, <2>1 DEF Gpr
<1> HIDE DEF all
<1> QED
  BY <1>3, <1>4, DoneGood DEF GoodState

LEMMA PushPopGood ==
  ASSUME GoodState,
         \/ \E v \in Value : PushValue(v)
         \/ \E r \in RegArg : PushReg(r) \/ PopReg(r)
         \/ \E s \in SegName \ {"ldt"} : PushSeg(s)
         \/ \E s \in DataSeg : PopSeg(s)
         \/ PopMem \/ PushFlags \/ PopFlags \/ Leave
  PROVE  TypeOK' /\ Good(cpu')
<1> USE DEF GoodState
<1>1. \A v \in Int : Good(Push(cpu, N, v, W))
  BY PushGood, WidthsAre
<1>2. /\ Good(Pop(cpu, N, W)) /\ Top(cpu, N, W) \in Long /\ Top(cpu, N, W) \in Int
      /\ Top(cpu, N, W) % Lo \in Word
  BY PopGood, WidthsAre
<1>3. cpu.flags \in Long /\ \A s \in SegName : cpu.seg[s].sel \in Word
  BY FieldTypes DEF Good
<1>4. \A r \in Gpr : Get(cpu, r, D) \in Int /\ Get(cpu, r, W) \in Int
  BY GetLong, WidthsAre
<1>5. ASSUME NEW v \in Value, PushValue(v) PROVE TypeOK' /\ Good(cpu')
  <2>1. v % D \in Int
    BY OperandAssumption, WordsAndLongs
  <2> QED BY <1>1, <1>5, <2>1, DoneGood DEF PushValue
<1>6. ASSUME NEW r \in RegArg, PushReg(r) PROVE TypeOK' /\ Good(cpu')
  BY <1>1, <1>4, <1>6, OperandAssumption, DoneGood DEF PushReg
<1>7. ASSUME NEW r \in RegArg, PopReg(r) PROVE TypeOK' /\ Good(cpu')
  <2>1. Good(SetReg(Pop(cpu, N, W), r, Top(cpu, N, W), D))
    BY <1>2, OperandAssumption, SetRegGood, WidthsAre
  <2> QED BY <1>7, <2>1, DoneGood DEF PopReg
<1>8. ASSUME NEW s \in SegName, PushSeg(s) PROVE TypeOK' /\ Good(cpu')
  BY <1>1, <1>3, <1>8, WordsAndLongs, DoneGood DEF PushSeg
<1>9. ASSUME NEW s \in DataSeg, PopSeg(s) PROVE TypeOK' /\ Good(cpu')
  <2>1. Good(LoadSeg(Pop(cpu, N, W), s, Top(cpu, N, W) % Lo))
    BY <1>2, LoadSegGood DEF DataSeg, SegName
  <2> QED BY <1>9, <2>1, DoneGood DEF PopSeg
<1>10. CASE PopMem
  BY <1>2, <1>10, DoneGood DEF PopMem
<1>11. CASE PushFlags
  <2>1. Shown(cpu.flags) % D \in Int
    BY <1>3, FlagWords, WordsAndLongs
  <2> QED BY <1>1, <1>11, <2>1, DoneGood DEF PushFlags
<1>12. CASE PopFlags
  <2>1. AlwaysOn(Top(cpu, N, W)) \in Long
    BY <1>2, FlagWords
  <2>2. Good([Pop(cpu, N, W) EXCEPT !.flags = AlwaysOn(Top(cpu, N, W))])
    BY <1>2, <2>1, PartsGood
  <2> QED BY <1>12, <2>2, DoneGood DEF PopFlags
<1>13. CASE Leave
  <2> DEFINE m == SetReg(cpu, "sp", Get(cpu, "bp", W), W)
  <2>1. "sp" \in Gpr /\ "bp" \in Gpr
    BY DEF Gpr
  <2>2. Good(m)
    BY <2>1, <1>4, SetRegGood, WidthsAre
  <2>3. Do("leave", "bp", SetReg(Pop(m, N, W), "bp", Top(m, N, W), D))
    BY <1>13 DEF Leave
  <2> HIDE DEF m
  <2>4. Good(Pop(m, N, W)) /\ Top(m, N, W) \in Int
    BY <2>2, PopGood, WidthsAre
  <2>5. Good(SetReg(Pop(m, N, W), "bp", Top(m, N, W), D))
    BY <2>1, <2>4, SetRegGood, WidthsAre
  <2> QED BY <2>3, <2>5, DoneGood
<1> QED
  BY <1>5, <1>6, <1>7, <1>8, <1>9, <1>10, <1>11, <1>12, <1>13

LEMMA EnterGood ==
  ASSUME GoodState, NEW local \in Count, NEW level \in Depth, Enter(local, level)
  PROVE  TypeOK' /\ Good(cpu')
<1> DEFINE m == Push(cpu, Size(mode.stack32), Get(cpu, "bp", W), W)
<1>1. "sp" \in Gpr /\ "bp" \in Gpr
  BY DEF Gpr
<1>2. Get(cpu, "bp", W) \in Int
  BY <1>1, GetLong, WidthsAre DEF GoodState
<1>3. Good(m)
  BY <1>2, PushGood, WidthsAre DEF GoodState
<1>4. cpu' = m /\ copies' = [left |-> level, fp |-> Get(m, "sp", W), local |-> local]
      /\ stage' = "enter" /\ UNCHANGED <<mode, saved, count, was>>
  BY DEF Enter
<1> HIDE DEF m
<1>5. Get(m, "sp", W) \in Long
  BY <1>1, <1>3, GetLong, WidthsAre
<1>6. m \in Machine /\ level \in 0 .. 31 /\ local \in Word
  BY <1>3, OperandAssumption DEF Good
<1> QED
  BY <1>3, <1>4, <1>5, <1>6 DEF TypeOK, GoodState

LEMMA EnterCopyGood ==
  ASSUME GoodState, EnterCopy
  PROVE  TypeOK' /\ Good(cpu')
<1> DEFINE m1  == SetReg(cpu, "bp", Get(cpu, "bp", W) - N, W)
           ofs == Get(m1, "bp", W)
           m2  == Check(m1, "ss", ofs, N)
           v   == Fetched(m1, "ss", ofs, N)
<1>1. "bp" \in Gpr /\ "ss" \in SegName
  BY DEF Gpr, SegName
<1>2. Get(cpu, "bp", W) \in Int
  BY <1>1, GetLong, WidthsAre DEF GoodState
<1>3. Get(cpu, "bp", W) - N \in Int
  BY <1>2, WidthsAre, SMT
<1>4. Good(m1)
  BY <1>1, <1>3, SetRegGood, WidthsAre DEF GoodState
<1>5. /\ cpu' = Push(m2, N, v, W) /\ copies.left > 1
      /\ copies' = [copies EXCEPT !.left = copies.left - 1]
      /\ UNCHANGED <<stage, mode, saved, count, was>>
  BY DEF EnterCopy
<1> HIDE DEF m1
<1>6. ofs \in Int
  BY <1>1, <1>4, GetLong, WidthsAre
<1> HIDE DEF ofs
<1>7. Good(m2) /\ v \in Long
  BY <1>1, <1>4, <1>6, CheckGood, TopLong, WidthsAre
<1> HIDE DEF m2, v
<1>8. Good(Push(m2, N, v, W))
  BY <1>7, WordsAndLongs, PushGood, WidthsAre
<1>9. Good(cpu') /\ cpu' \in Machine
  BY <1>5, <1>8 DEF Good
<1>10. copies' \in [left : 0 .. 31, fp : Long, local : Word]
  BY <1>5, SMT DEF TypeOK, GoodState
<1> QED
  BY <1>5, <1>9, <1>10 DEF TypeOK, GoodState

LEMMA EnterEndGood ==
  ASSUME GoodState, EnterEnd
  PROVE  TypeOK' /\ Good(cpu')
<1> DEFINE m1 == IF copies.left = 0 THEN cpu ELSE Push(cpu, N, copies.fp % D, W)
           m2 == SetReg(m1, "bp", copies.fp, W)
           m3 == SetReg(m2, "sp", Get(m2, "sp", W) - copies.local, W)
<1>1. "bp" \in Gpr /\ "sp" \in Gpr
  BY DEF Gpr
<1>2. copies.fp \in Int /\ copies.fp % D \in Int /\ copies.local \in Int
  BY WordsAndLongs DEF TypeOK, GoodState
<1>3. Good(m1)
  BY <1>2, PushGood, WidthsAre DEF GoodState
<1>4. cpu' = m3 /\ stage' = "intr" /\ UNCHANGED <<mode, saved, copies, count, was>>
  BY DEF EnterEnd
<1> HIDE DEF m1
<1>5. Good(m2)
  BY <1>1, <1>2, <1>3, SetRegGood, WidthsAre
<1> HIDE DEF m2
<1>6. Get(m2, "sp", W) \in Int
  BY <1>1, <1>5, GetLong, WidthsAre
<1>7. Get(m2, "sp", W) - copies.local \in Int
  BY <1>2, <1>6, SMT
<1>8. Good(m3)
  BY <1>1, <1>5, <1>7, SetRegGood, WidthsAre
<1>9. Good(cpu') /\ cpu' \in Machine
  BY <1>4, <1>8 DEF Good
<1> QED
  BY <1>4, <1>9 DEF TypeOK, GoodState

LEMMA NearGood ==
  ASSUME GoodState, Near
  PROVE  TypeOK' /\ Good(cpu')
<1> USE DEF GoodState
<1>1. /\ cpu.eip \in Int /\ cpu.eip % D \in Int /\ cpu.eip \in Long
  <2>1. cpu.eip \in Long
    BY FieldTypes DEF Good
  <2> QED BY <2>1, WordsAndLongs
<1>2. \A ofs \in Offset : Target(ofs) \in Long
  <2>1. \A ofs \in Offset : cpu.eip + ofs \in Int
    BY <1>1, OperandAssumption, SMT
  <2> QED BY <2>1, WordsAndLongs DEF Target
<1>3. Good(Push(cpu, N, cpu.eip % D, W))
  BY <1>1, PushGood, WidthsAre
<1>4. \A m : Good(m) => \A r \in Gpr : Get(m, r, D) \in Long /\ Get(m, r, D) \in Int
  BY GetLong, WidthsAre
<1>5. ASSUME NEW ofs \in Offset, Jump(ofs) PROVE TypeOK' /\ Good(cpu')
  BY <1>2, <1>5, PartsGood, DoneGood DEF Jump
<1>6. ASSUME NEW ofs \in Offset, Jcxz(ofs) PROVE TypeOK' /\ Good(cpu')
  BY <1>2, <1>6, PartsGood, DoneGood DEF Jcxz
<1>7. ASSUME NEW ofs \in Offset, CallNear(ofs) PROVE TypeOK' /\ Good(cpu')
  BY <1>2, <1>3, <1>7, PartsGood, DoneGood DEF CallNear
<1>8. ASSUME NEW ofs \in Offset, NEW zf \in BOOLEAN, LoopCx(ofs, zf) PROVE TypeOK' /\ Good(cpu')
  <2> DEFINE m == SetReg(cpu, "cx", Get(cpu, "cx", D) - 1, D)
             q == IF Get(m, "cx", D) # 0 /\ zf THEN [m EXCEPT !.eip = Target(ofs)] ELSE m
  <2>1. "cx" \in Gpr
    BY DEF Gpr
  <2>2. Get(cpu, "cx", D) - 1 \in Int
    BY <1>4, <2>1, SMT
  <2>3. Good(m)
    BY <2>1, <2>2, SetRegGood, WidthsAre
  <2>4. Do("loop", "cx", q)
    BY <1>8 DEF LoopCx
  <2> HIDE DEF m
  <2>5. Good(q)
    BY <1>2, <2>3, PartsGood
  <2> QED BY <2>4, <2>5, DoneGood
<1>9. CASE NoJump
  BY <1>9, DoneGood DEF NoJump
<1>10. ASSUME NEW v \in Value, CallValue(v) PROVE TypeOK' /\ Good(cpu')
  <2>1. v % D \in Long
    BY OperandAssumption, WordsAndLongs
  <2> QED BY <1>3, <1>10, <2>1, PartsGood, DoneGood DEF CallValue
<1>11. ASSUME NEW r \in RegArg, CallReg(r) PROVE TypeOK' /\ Good(cpu')
  <2> DEFINE m == Push(cpu, N, cpu.eip % D, W)
  <2>1. Good(m) /\ r \in Gpr
    BY <1>3, OperandAssumption
  <2>2. Do("call", "none", [m EXCEPT !.eip = Get(m, r, D)])
    BY <1>11 DEF CallReg
  <2> HIDE DEF m
  <2>3. Good([m EXCEPT !.eip = Get(m, r, D)])
    BY <1>4, <2>1, PartsGood
  <2> QED BY <2>2, <2>3, DoneGood
<1>12. ASSUME NEW r \in RegArg, JumpReg(r) PROVE TypeOK' /\ Good(cpu')
  BY <1>4, <1>12, OperandAssumption, PartsGood, DoneGood DEF JumpReg
<1>13. ASSUME NEW imm \in Count, RetNear(imm) PROVE TypeOK' /\ Good(cpu')
  <2> DEFINE m == Pop(cpu, N, W)
             q == [m EXCEPT !.eip = Top(cpu, N, W)]
             v == Get(m, "sp", D) + imm
  <2>1. Good(m) /\ Top(cpu, N, W) \in Long
    BY PopGood, WidthsAre
  <2>2. Do("ret", imm, SetReg(q, "sp", v, D))
    BY <1>13 DEF RetNear
  <2> HIDE DEF m
  <2>3. Good(q)
    BY <2>1, PartsGood
  <2>4. "sp" \in Gpr /\ imm \in Int
    BY OperandAssumption, WordsAndLongs DEF Gpr
  <2>5. Get(m, "sp", D) \in Int
    BY <1>4, <2>1, <2>4
  <2>6. v \in Int
    BY <2>4, <2>5, SMT
  <2> HIDE DEF q, v
  <2>7. Good(SetReg(q, "sp", v, D))
    BY <2>3, <2>4, <2>6, SetRegGood, WidthsAre
  <2> QED BY <2>2, <2>7, DoneGood
<1> QED
  BY <1>5, <1>6, <1>7, <1>8, <1>9, <1>10, <1>11, <1>12, <1>13 DEF Near

LEMMA FarGood ==
  ASSUME GoodState, Far
  PROVE  TypeOK' /\ Good(cpu')
<1> USE DEF GoodState
<1>1. cpu.eip % D \in Int /\ cpu.seg["cs"].sel \in Int
  <2>1. cpu.eip \in Long /\ cpu.seg["cs"].sel \in Word
    BY FieldTypes DEF Good, SegName
  <2> QED BY <2>1, WordsAndLongs
<1>2. \A v \in Value : v % D \in Long
  BY OperandAssumption, WordsAndLongs
<1>3. \A cs \in Selector : cs \in Word
  BY OperandAssumption
<1>4. \A m : Good(m) => /\ Good(Pop(m, N, W)) /\ Top(m, N, W) \in Long
                         /\ Top(m, N, W) % Lo \in Word
  BY PopGood, WidthsAre
<1>5. ASSUME NEW cs \in Selector, NEW v \in Value, JumpFar(cs, v) PROVE TypeOK' /\ Good(cpu')
  BY <1>2, <1>3, <1>5, GotoGood, DoneGood DEF JumpFar
<1>6. ASSUME NEW cs \in Selector, NEW v \in Value, CallFar(cs, v) PROVE TypeOK' /\ Good(cpu')
  <2>1. Good(Push(cpu, N, cpu.seg["cs"].sel, W))
    BY <1>1, PushGood, WidthsAre
  <2>2. Good(Push(Push(cpu, N, cpu.seg["cs"].sel, W), N, cpu.eip % D, W))
    BY <1>1, <2>1, PushGood, WidthsAre
  <2>3. Good(Goto(Push(Push(cpu, N, cpu.seg["cs"].sel, W), N, cpu.eip % D, W), cs, v % D))
    BY <1>2, <1>3, <2>2, GotoGood
  <2> QED BY <1>6, <2>3, DoneGood DEF CallFar
<1>7. ASSUME NEW imm \in Count, RetFar(imm) PROVE TypeOK' /\ Good(cpu')
  <2> DEFINE m1 == Pop(cpu, N, W)
             m2 == Pop(m1, N, W)
             m3 == SetReg(m2, "sp", Get(m2, "sp", D) + imm, D)
  <2>1. Good(m1) /\ Top(cpu, N, W) \in Long
    BY <1>4
  <2>2. Do("retf", imm, Goto(m3, Top(m1, N, W) % Lo, Top(cpu, N, W)))
    BY <1>7 DEF RetFar
  <2> HIDE DEF m1
  <2>3. Good(m2) /\ Top(m1, N, W) % Lo \in Word
    BY <1>4, <2>1
  <2> HIDE DEF m2
  <2>4. "sp" \in Gpr /\ imm \in Int
    BY OperandAssumption, WordsAndLongs DEF Gpr
  <2>5. Get(m2, "sp", D) \in Int
    BY <2>3, <2>4, GetLong, WidthsAre
  <2>6. Get(m2, "sp", D) + imm \in Int
    BY <2>4, <2>5, SMT
  <2>7. Good(m3)
    BY <2>3, <2>4, <2>6, SetRegGood, WidthsAre
  <2> HIDE DEF m3
  <2>8. Good(Goto(m3, Top(m1, N, W) % Lo, Top(cpu, N, W)))
    BY <2>1, <2>3, <2>7, GotoGood
  <2> QED BY <2>2, <2>8, DoneGood
<1>8. ASSUME NEW n \in {3, 4}, SoftInt(n) PROVE TypeOK' /\ Good(cpu')
  <2>1. Soft(n) \in Intr
    BY OperandAssumption DEF Soft, Intr
  <2> QED BY <1>8, <2>1, RaiseGood, DoneGood DEF SoftInt
<1>9. CASE Undefined
  <2>1. FaultUD \in Intr
    BY Faults, Sizes
  <2> QED BY <1>9, <2>1, RaiseGood, DoneGood DEF Undefined
<1>10. CASE Iret
  <2> DEFINE m1 == Pop(cpu, N, W)
             m2 == Pop(m1, N, W)
             f  == AlwaysOn(Top(m2, N, W))
             m3 == [Pop(m2, N, W) EXCEPT !.flags = f]
  <2>1. Good(m1) /\ Top(cpu, N, W) \in Long
    BY <1>4
  <2>2. Do("iret", "none", Goto(m3, Top(m1, N, W) % Lo, Top(cpu, N, W)))
    BY <1>10 DEF Iret
  <2> HIDE DEF m1
  <2>3. Good(m2) /\ Top(m1, N, W) % Lo \in Word
    BY <1>4, <2>1
  <2> HIDE DEF m2
  <2>4. Good(Pop(m2, N, W)) /\ f \in Long
    BY <1>4, <2>3, FlagWords
  <2> HIDE DEF f
  <2>5. Good(m3)
    BY <2>4, PartsGood
  <2> HIDE DEF m3
  <2>6. Good(Goto(m3, Top(m1, N, W) % Lo, Top(cpu, N, W)))
    BY <2>1, <2>3, <2>5, GotoGood
  <2> QED BY <2>2, <2>6, DoneGood
<1> QED
  BY <1>5, <1>6, <1>7, <1>8, <1>9, <1>10 DEF Far

LEMMA LoadsGood ==
  ASSUME GoodState, Loads
  PROVE  TypeOK' /\ Good(cpu')
<1> USE DEF GoodState
<1>1. RegArg \subseteq Gpr /\ DataSeg \subseteq SegName /\ Selector \subseteq Word
      /\ Tables \subseteq Table /\ \A v \in Value : v \in Int
  BY OperandAssumption, WordsAndLongs DEF DataSeg, SegName
<1>2. ASSUME NEW s \in DataSeg, NEW r \in RegArg, NEW v \in Value, NEW val \in Selector,
             LoadFar(s, r, v, val)
      PROVE  TypeOK' /\ Good(cpu')
  <2>1. Good(SetReg(cpu, r, v, D))
    BY <1>1, SetRegGood, WidthsAre
  <2>2. Good(LoadSeg(SetReg(cpu, r, v, D), s, val))
    BY <1>1, <2>1, LoadSegGood
  <2> QED BY <1>2, <2>2, DoneGood DEF LoadFar
<1>3. ASSUME NEW s \in SegName, NEW val \in Selector, MovSeg(s, val) PROVE TypeOK' /\ Good(cpu')
  BY <1>1, <1>3, LoadSegGood, DoneGood DEF MovSeg
<1>4. ASSUME NEW r \in RegArg, NEW v \in Value, MovReg(r, v) PROVE TypeOK' /\ Good(cpu')
  BY <1>1, <1>4, SetRegGood, WidthsAre, DoneGood DEF MovReg
<1>5. ASSUME NEW pe \in BOOLEAN, SetPe(pe) PROVE TypeOK' /\ Good(cpu')
  BY <1>5, PartsGood, DoneGood DEF SetPe
<1>6. ASSUME NEW t \in Tables, LoadGdt(t) \/ LoadIdt(t) PROVE TypeOK' /\ Good(cpu')
  BY <1>1, <1>6, PartsGood, DoneGood DEF LoadGdt, LoadIdt
<1> QED
  BY <1>2, <1>3, <1>4, <1>5, <1>6 DEF Loads

LEMMA HandlerTypes ==
  ASSUME NEW m, Good(m), NEW nr \in Nr, NEW cs \in Word, NEW eip \in Long
  PROVE  /\ Handler(m.pe, m.idt, nr, cs, eip).cs \in Word
         /\ Handler(m.pe, m.idt, nr, cs, eip).eip \in Long
<1>1. m.idt.base \in Long
  BY FieldTypes DEF Good, Table
<1>2. Vectors[m.idt.base][nr].cs \in Word /\ Vectors[m.idt.base][nr].eip \in Long
  <2>1. Vectors[m.idt.base][nr] \in [cs : Word, eip : Word]
    BY <1>1, TableAssumption
  <2> QED BY <2>1, WordsAndLongs
<1>3. At(m.idt, nr).sel \in Word /\ At(m.idt, nr).ofs \in Long
  BY <1>1, DescrTypes DEF At
<1> QED
  BY <1>2, <1>3 DEF Handler

LEMMA DeliverGood ==
  ASSUME GoodState, Deliver
  PROVE  TypeOK' /\ Good(cpu')
<1> DEFINE i   == cpu.intr
           n   == Size(cpu.pe /\ mode.code32)
           cs  == IF i.restart THEN saved.cs ELSE cpu.seg["cs"].sel
           eip == IF i.restart THEN saved.eip ELSE cpu.eip
           to  == Handler(cpu.pe, cpu.idt, i.nr, cs, eip)
           w   == Width(n = 2)
           p1  == Push(cpu, n, cpu.flags % w, W)
           p2  == Push(p1, n, cs, W)
           m1  == Push(p2, n, eip % w, W)
           m2  == IF i.err = -1 THEN m1 ELSE Push(m1, 2, i.err, W)
           f   == ClearIfTf(cpu.flags)
           q   == [m2 EXCEPT !.flags = f]
           m3  == Goto(q, to.cs, to.eip)
<1>1. /\ cpu' = [m3 EXCEPT !.intr = None] /\ i # None
      /\ stage' = "top" /\ UNCHANGED <<mode, saved, copies, count, was>>
  BY DEF Deliver
<1>2. i \in Intr /\ i.nr \in Nr /\ i.err \in Int
  <2>1. i \in Intr
    BY <1>1, FieldTypes DEF GoodState, Good
  <2> QED BY <2>1, WordsAndLongs, SMT DEF Intr
<1>3. cs \in Word /\ eip \in Long
  BY FieldTypes DEF GoodState, Good, TypeOK, SegName
<1>4. to.cs \in Word /\ to.eip \in Long
  <2> HIDE DEF i, cs, eip
  <2>1. /\ Handler(cpu.pe, cpu.idt, i.nr, cs, eip).cs \in Word
        /\ Handler(cpu.pe, cpu.idt, i.nr, cs, eip).eip \in Long
    BY <1>2, <1>3, HandlerTypes DEF GoodState
  <2> QED BY <2>1 DEF to
<1>5. n \in {1, 2} /\ w \in Widths
  BY DEF Size, Width, Widths
<1>6. cpu.flags % w \in Int /\ eip % w \in Int /\ cs \in Int /\ f \in Long
  <2>1. cpu.flags \in Long /\ cpu.flags \in Int /\ eip \in Int /\ cs \in Int
    BY <1>3, FieldTypes, WordsAndLongs DEF GoodState, Good
  <2>2. w \in Nat \ {0}
    BY <1>5, Sizes DEF Widths
  <2> HIDE DEF w, eip, cs
  <2>3. cpu.flags % w \in Int /\ eip % w \in Int
    BY <2>1, <2>2, SMT
  <2> QED BY <2>1, <2>3, FlagWords
<1> HIDE DEF i, n, cs, eip, to, w, f
<1>7. Good(p1)
  BY <1>5, <1>6, PushGood, WidthsAre DEF GoodState
<1> HIDE DEF p1
<1>8. Good(p2)
  BY <1>5, <1>6, <1>7, PushGood, WidthsAre
<1> HIDE DEF p2
<1>9. Good(m1)
  BY <1>5, <1>6, <1>8, PushGood, WidthsAre
<1> HIDE DEF m1
<1>10. Good(m2)
  BY <1>2, <1>9, PushGood, WidthsAre
<1> HIDE DEF m2
<1>11. Good(q)
  BY <1>6, <1>10, PartsGood
<1> HIDE DEF q
<1>12. Good(m3)
  BY <1>4, <1>11, GotoGood
<1> HIDE DEF m3
<1>13. Good(cpu') /\ cpu' \in Machine
  BY <1>1, <1>12, PartsGood DEF Good
<1> QED
  BY <1>1, <1>13 DEF TypeOK, GoodState

LEMMA FetchGood ==
  ASSUME GoodState, NEW prefix \in BOOLEAN, Fetch(prefix)
  PROVE  TypeOK' /\ Good(cpu')
<1> DEFINE w == Width(cpu.seg["cs"].acc.big)
           e == Written(cpu.eip, cpu.eip + 1, w)
<1>1. /\ cpu.eip \in Long /\ cpu.seg["cs"].sel \in Word
      /\ cpu.seg["cs"] \in Reg /\ cpu.seg["ss"] \in Reg
  BY FieldTypes DEF GoodState, Good, SegName
<1>2. cpu.seg["cs"].acc.big \in BOOLEAN /\ cpu.seg["ss"].acc.big \in BOOLEAN
  BY <1>1 DEF Reg, Access
<1>3. /\ cpu' = [cpu EXCEPT !.eip = e] /\ was' = Saved(cpu) /\ stage' = "exec"
      /\ saved' = [cs |-> cpu.seg["cs"].sel, eip |-> cpu.eip]
      /\ mode' = [data32 |-> cpu.seg["cs"].acc.big # prefix, code32 |-> cpu.seg["cs"].acc.big,
                  stack32 |-> cpu.seg["ss"].acc.big]
      /\ count' = count + 1 /\ UNCHANGED copies
  BY DEF Fetch
<1>4. e \in Long
  <2>1. cpu.eip \in Int
    BY <1>1, WordsAndLongs
  <2>2. cpu.eip + 1 \in Int
    BY <2>1, SMT
  <2>3. w \in Widths
    BY DEF Width, Widths
  <2> HIDE DEF w
  <2> QED BY <1>1, <2>2, <2>3, WrittenLong
<1> HIDE DEF e
<1>5. Good(cpu') /\ cpu' \in Machine
  BY <1>3, <1>4, PartsGood DEF Good, GoodState
<1>6. mode' \in [data32 : BOOLEAN, stack32 : BOOLEAN, code32 : BOOLEAN]
  BY <1>2, <1>3
<1>7. saved' \in [cs : Word, eip : Long]
  BY <1>1, <1>3
<1>8. was' \in [reg : [Gpr -> Long], seg : [SegName -> Reg], eip : Long, flags : Long, pe : BOOLEAN]
  BY <1>3, FieldTypes DEF Saved, GoodState, Good
<1>9. count' \in Nat
  BY <1>3, SMT DEF GoodState, TypeOK
<1> QED
  BY <1>3, <1>5, <1>6, <1>7, <1>8, <1>9 DEF TypeOK, GoodState

-----------------------------------------------------------------------------
LEMMA InitGood == Init => GoodState
<1> SUFFICES ASSUME Init PROVE GoodState
  OBVIOUS
<1>1. cpu \in Machines /\ cpu \in Machine
  BY OperandAssumption DEF Init
<1>2. Good(cpu)
  BY <1>1 DEF Good, WholeReg, OfHost
<1>3. 0 \in Long /\ 0 \in Word
  BY Sizes
<1>4. Nowhere \in [reg : [Gpr -> Long], seg : [SegName -> Reg],
                     eip : Long, flags : Long, pe : BOOLEAN]
  BY <1>3, NullReg DEF Nowhere
<1>5. TypeOK
  BY <1>1, <1>3, <1>4, SMT DEF Init, TypeOK
<1> QED
  BY <1>2, <1>5 DEF GoodState

LEMMA NextGood == GoodState /\ [Next]_vars => GoodState'
<1> SUFFICES ASSUME GoodState, [Next]_vars
             PROVE  TypeOK' /\ Good(cpu')
  BY DEF GoodState
<1>1. CASE \E prefix \in BOOLEAN : Fetch(prefix)
  BY <1>1, FetchGood
<1>2. CASE Stack
  BY <1>2, PushPopGood, PushAllGood, PopAllGood, EnterGood, EnterCopyGood, EnterEndGood DEF Stack
<1>3. CASE Near
  BY <1>3, NearGood
<1>4. CASE Far
  BY <1>4, FarGood
<1>5. CASE Loads
  BY <1>5, LoadsGood
<1>6. CASE NoIntr
  BY <1>6 DEF NoIntr, GoodState, TypeOK
<1>7. CASE Handled
  <2>1. cpu' = [cpu EXCEPT !.intr = None]
    BY <1>7 DEF Handled
  <2>2. Good(cpu') /\ cpu' \in Machine
    BY <2>1, PartsGood DEF GoodState, Good
  <2> QED BY <1>7, <2>2 DEF Handled, GoodState, TypeOK
<1>8. CASE Deliver
  BY <1>8, DeliverGood
<1>9. CASE UNCHANGED vars
  BY <1>9 DEF vars, GoodState, TypeOK
<1> QED
  BY <1>1, <1>2, <1>3, <1>4, <1>5, <1>6, <1>7, <1>8, <1>9 DEF Next

(* Whatever a program pushes, pops, loads and jumps to, with any mixture   *)
(* of operand and stack sizes and through any faults: registers keep to 32 *)
(* bits, selectors and stack words to 16, interrupts to their numbers.     *)
THEOREM XferTypeCorrect == Spec => []TypeOK
<1>1. GoodState => TypeOK
  BY DEF GoodState
<1> QED
  BY <1>1, InitGood, NextGood, PTL DEF Spec

(* No sequence of loads, refused loads, far transfers, interrupts and      *)
(* changes of mode leaves a segment register that is a mixture: its limit  *)
(* and rights are those of one usable descriptor, its selector and base    *)
(* belong to it or to one load in real mode (x86emu_set_seg_register()).   *)
THEOREM SegmentsStayWhole == Spec => []SegmentsWhole
<1>1. GoodState => SegmentsWhole
  BY DEF GoodState, Good, SegmentsWhole, WholeReg, OfDescr, OfHost, OfReal
<1> QED
  BY <1>1, InitGood, NextGood, PTL DEF Spec

-----------------------------------------------------------------------------
(* The upper half of ESP *)
High(m) == m.reg["sp"] \div Lo

LEMMA DivUnique ==
  ASSUME NEW q \in Int, NEW w \in Nat \ {0}, NEW z \in 0 .. (w - 1)
  PROVE  (w * q + z) \div w = q
<1> DEFINE x == w * q + z
           p == x \div w
           y == x % w
<1>1. x \in Int /\ p \in Int /\ y \in 0 .. (w - 1) /\ x = w * p + y
  BY DivMod
<1>2. w * (q - p) = y - z
  BY <1>1, SMT
<1> HIDE DEF p, y
<1>3. CASE q > p
  <2>1. w * (q - p) >= w
    BY <1>1, <1>3, SMT
  <2> QED BY <2>1, <1>1, <1>2, SMT
<1>4. CASE q < p
  <2>1. w * (p - q) >= w
    BY <1>1, <1>4, SMT
  <2>2. w * (p - q) = z - y
    BY <1>1, SMT
  <2> QED BY <2>1, <2>2, <1>1, <1>2, SMT
<1> QED BY <1>1, <1>3, <1>4, SMT DEF p

LEMMA WrittenHigh ==
  ASSUME NEW r \in Long, NEW v \in Int
  PROVE  Written(r, v, Lo) \div Lo = r \div Lo
<1>1. Lo \in Nat \ {0} /\ r \in Int
  BY Sizes, SMT DEF Long
<1> DEFINE q == r \div Lo
           y == r % Lo
           z == v % Lo
<1>2. q \in Int /\ y \in 0 .. (Lo - 1) /\ r = Lo * q + y /\ z \in 0 .. (Lo - 1)
  BY <1>1, DivMod
<1>3. Written(r, v, Lo) = Lo * q + z
  <2>1. Written(r, v, Lo) = (r - y) + z
    BY DEF Written
  <2> HIDE DEF q, y, z
  <2>2. r - y = Lo * q
    BY <1>1, <1>2, SMT
  <2> QED BY <2>1, <2>2
<1> HIDE DEF q, z
<1>4. (Lo * q + z) \div Lo = q
  BY <1>1, <1>2, DivUnique
<1> QED
  BY <1>3, <1>4 DEF q

LEMMA SetRegHigh ==
  ASSUME NEW m, Good(m), NEW r \in Gpr, NEW v \in Int, NEW w \in Widths, r # "sp" \/ w = Lo
  PROVE  High(SetReg(m, r, v, w)) = High(m)
<1>1. m \in Machine /\ m.reg \in [Gpr -> Long]
  BY FieldTypes DEF Good
<1>2. SetReg(m, r, v, w).reg = [m.reg EXCEPT ![r] = Written(m.reg[r], v, w)]
  BY <1>1 DEF SetReg, Machine
<1>3. CASE r # "sp"
  BY <1>1, <1>2, <1>3 DEF High, Gpr
<1>4. CASE r = "sp" /\ w = Lo
  <2>1. SetReg(m, r, v, w).reg["sp"] = Written(m.reg["sp"], v, Lo)
    BY <1>1, <1>2, <1>4
  <2>2. Written(m.reg["sp"], v, Lo) \div Lo = m.reg["sp"] \div Lo
    BY <1>1, <1>4, WrittenHigh
  <2> QED BY <2>1, <2>2 DEF High
<1> QED
  BY <1>3, <1>4

LEMMA PushHigh ==
  ASSUME NEW m, Good(m), NEW n \in {1, 2}, NEW v \in Int
  PROVE  High(Push(m, n, v, Lo)) = High(m)
<1> DEFINE m1 == SetReg(m, "sp", Get(m, "sp", Lo) - n, Lo)
<1>1. "sp" \in Gpr /\ "ss" \in SegName /\ Lo \in Widths
  BY DEF Gpr, SegName, Widths
<1>2. Get(m, "sp", Lo) - n \in Int
  BY <1>1, GetLong, SMT
<1>3. Good(m1) /\ High(m1) = High(m)
  BY <1>1, <1>2, SetRegGood, SetRegHigh
<1> HIDE DEF m1
<1>4. Stored(m1, "ss", Get(m1, "sp", Lo), n, v).reg = m1.reg
  BY <1>1, <1>3, StoredGood
<1> QED
  BY <1>3, <1>4, Zenon DEF Push, High, m1

LEMMA PopHigh ==
  ASSUME NEW m, Good(m), NEW n \in {1, 2}
  PROVE  High(Pop(m, n, Lo)) = High(m)
<1> DEFINE m1 == Check(m, "ss", Get(m, "sp", Lo), n)
<1>1. "sp" \in Gpr /\ "ss" \in SegName /\ Lo \in Widths
  BY DEF Gpr, SegName, Widths
<1>2. Get(m, "sp", Lo) + n \in Int
  BY <1>1, GetLong, SMT
<1>3. Good(m1) /\ m1.reg = m.reg
  BY <1>1, CheckGood
<1> HIDE DEF m1
<1>4. High(SetReg(m1, "sp", Get(m, "sp", Lo) + n, Lo)) = High(m1)
  BY <1>1, <1>2, <1>3, SetRegHigh
<1> QED
  BY <1>3, <1>4 DEF Pop, High, m1

LEMMA LoadHigh ==
  ASSUME NEW m, Good(m), NEW s \in SegName, NEW val \in Word
  PROVE  /\ High(LoadSeg(m, s, val)) = High(m)
         /\ s = "cs" => \A eip \in Long : High(Goto(m, val, eip)) = High(m)
<1>1. LoadSeg(m, s, val).reg = m.reg /\ Good(LoadSeg(m, s, val))
  BY LoadSegGood
<1>2. \A q, eip : [q EXCEPT !.eip = eip].reg = q.reg \/ q \notin Machine
  BY DEF Machine
<1>3. s = "cs" => \A eip \in Long : Goto(m, val, eip).reg = m.reg
  BY <1>1, <1>2 DEF Goto, Good
<1> QED
  BY <1>1, <1>3 DEF High

LEMMA PartsHigh ==
  ASSUME NEW m, Good(m)
  PROVE  /\ \A x : High([m EXCEPT !.eip = x]) = High(m) /\ High([m EXCEPT !.flags = x]) = High(m)
         /\ \A x : High([m EXCEPT !.pe = x]) = High(m) /\ High([m EXCEPT !.gdt = x]) = High(m)
         /\ \A x : High([m EXCEPT !.idt = x]) = High(m) /\ High([m EXCEPT !.intr = x]) = High(m)
BY DEF Good, Machine, High

(* ... along the chain of an instruction *)
Keeps(q) == Good(q) /\ High(q) = High(cpu)

LEMMA KeepsSteps ==
  ASSUME GoodState, W = Lo
  PROVE  /\ Keeps(cpu)
         /\ \A m : Keeps(m) => \A n \in {1, 2}, v \in Int : Keeps(Push(m, n, v, W))
         /\ \A m : Keeps(m) => /\ Keeps(Pop(m, N, W)) /\ Top(m, N, W) \in Long
                               /\ Top(m, N, W) \in Int /\ Top(m, N, W) % Lo \in Word
         /\ \A m : Keeps(m) => \A r \in Gpr, v \in Int, w \in Widths :
              r # "sp" \/ w = W => Keeps(SetReg(m, r, v, w))
         /\ \A m : Keeps(m) => \A s \in SegName, val \in Word : Keeps(LoadSeg(m, s, val))
         /\ \A m : Keeps(m) => \A cs \in Word, eip \in Long : Keeps(Goto(m, cs, eip))
<1>1. Keeps(cpu)
  BY DEF Keeps, GoodState
<1>2. ASSUME NEW m, Keeps(m), NEW n \in {1, 2}, NEW v \in Int PROVE Keeps(Push(m, n, v, W))
  BY <1>2, PushGood, PushHigh, WidthsAre DEF Keeps
<1>3. ASSUME NEW m, Keeps(m)
      PROVE  /\ Keeps(Pop(m, N, W)) /\ Top(m, N, W) \in Long
             /\ Top(m, N, W) \in Int /\ Top(m, N, W) % Lo \in Word
  BY <1>3, PopGood, PopHigh, WidthsAre DEF Keeps
<1>4. ASSUME NEW m, Keeps(m), NEW r \in Gpr, NEW v \in Int, NEW w \in Widths, r # "sp" \/ w = W
      PROVE  Keeps(SetReg(m, r, v, w))
  BY <1>4, SetRegGood, SetRegHigh DEF Keeps
<1>5. ASSUME NEW m, Keeps(m), NEW s \in SegName, NEW val \in Word PROVE Keeps(LoadSeg(m, s, val))
  BY <1>5, LoadSegGood, LoadHigh DEF Keeps
<1>6. ASSUME NEW m, Keeps(m), NEW cs \in Word, NEW eip \in Long PROVE Keeps(Goto(m, cs, eip))
  BY <1>6, GotoGood, LoadHigh DEF Keeps, SegName
<1> QED
  BY <1>1, <1>2, <1>3, <1>4, <1>5, <1>6

LEMMA PartsKeep ==
  ASSUME NEW m, Keeps(m)
  PROVE  /\ \A eip \in Long : Keeps([m EXCEPT !.eip = eip])
         /\ \A f \in Long : Keeps([m EXCEPT !.flags = f])
BY PartsGood, PartsHigh DEF Keeps

LEMMA DoneIs ==
  ASSUME NEW op, NEW dest, NEW result, Do(op, dest, result)
  PROVE  cpu' = result /\ ins'.op = op /\ ins'.dest = dest
BY DEF Do

(* What UpperHalfKept excepts *)
LoadsSp == /\ ins'.op \in {"pop", "mov", "les"} /\ ins'.dest = "sp"
AddsEsp == /\ ins'.op \in {"popa", "ret", "retf"} /\ mode.data32

LEMMA StackKeeps ==
  ASSUME GoodState, W = Lo, Stack
  PROVE  High(cpu') = High(cpu) \/ LoadsSp \/ AddsEsp
<1>1. /\ cpu.flags \in Long /\ (\A s \in SegName : cpu.seg[s].sel \in Word)
      /\ copies.fp \in Int /\ copies.fp % D \in Int /\ copies.local \in Int
  BY FieldTypes, WordsAndLongs DEF GoodState, Good, TypeOK
<1>2. \A r \in Gpr : Get(cpu, r, D) \in Int /\ Get(cpu, r, W) \in Int
  BY GetLong, WidthsAre DEF GoodState
<1>3. \A m : Keeps(m) => \A r \in Gpr : Get(m, r, W) \in Int /\ Get(m, r, D) \in Int
  BY GetLong, WidthsAre DEF Keeps
<1>4. Keeps(cpu) /\ Keeps(Pop(cpu, N, W)) /\ Top(cpu, N, W) \in Long /\ Top(cpu, N, W) \in Int
      /\ Top(cpu, N, W) % Lo \in Word /\ \A v \in Int : Keeps(Push(cpu, N, v, W))
  BY KeepsSteps, WidthsAre
<1>5. ASSUME NEW v \in Value, PushValue(v) PROVE Keeps(cpu')
  <2>1. v % D \in Int
    BY OperandAssumption, WordsAndLongs
  <2> QED BY <1>4, <1>5, <2>1, DoneIs DEF PushValue
<1>6. ASSUME NEW r \in RegArg, PushReg(r) PROVE Keeps(cpu')
  BY <1>2, <1>4, <1>6, OperandAssumption, DoneIs DEF PushReg
<1>7. ASSUME NEW r \in RegArg, PopReg(r) PROVE Keeps(cpu') \/ LoadsSp
  <2>1. r # "sp" => Keeps(SetReg(Pop(cpu, N, W), r, Top(cpu, N, W), D))
    BY <1>4, KeepsSteps, WidthsAre, OperandAssumption
  <2> QED BY <1>7, <2>1, DoneIs DEF PopReg, LoadsSp
<1>8. ASSUME NEW s \in SegName, PushSeg(s) PROVE Keeps(cpu')
  BY <1>1, <1>4, <1>8, WordsAndLongs, DoneIs DEF PushSeg
<1>9. ASSUME NEW s \in DataSeg, PopSeg(s) PROVE Keeps(cpu')
  <2>1. Keeps(LoadSeg(Pop(cpu, N, W), s, Top(cpu, N, W) % Lo))
    BY <1>4, KeepsSteps DEF DataSeg, SegName
  <2> QED BY <1>9, <2>1, DoneIs DEF PopSeg
<1>10. ASSUME PopMem PROVE Keeps(cpu')
  BY <1>4, <1>10, DoneIs DEF PopMem
<1>11. ASSUME PushAll PROVE Keeps(cpu')
  <2> DEFINE P(m, r) == Push(m, N, Get(cpu, r, D), W)
             all == P(P(P(P(P(P(P(P(cpu, "ax"), "cx"), "dx"), "bx"), "sp"), "bp"), "si"), "di")
  <2>1. \A m : Keeps(m) => \A r \in Gpr : Keeps(P(m, r))
    BY <1>2, KeepsSteps, WidthsAre
  <2>2. cpu' = all
    BY <1>11, DoneIs DEF PushAll
  <2> HIDE DEF P
  <2>3. Keeps(P(P(P(P(cpu, "ax"), "cx"), "dx"), "bx"))
    BY <1>4, <2>1 DEF Gpr
  <2>4. Keeps(all)
    BY <2>1, <2>3 DEF Gpr
  <2> QED BY <2>2, <2>4
<1>12. ASSUME PopAll PROVE Keeps(cpu') \/ AddsEsp
  <2> DEFINE P(m, r) == SetReg(Pop(m, N, W), r, Top(m, N, W), D)
             Skip(m) == SetReg(m, "sp", Get(m, "sp", D) + N, D)
             all == P(P(P(P(Skip(P(P(P(cpu, "di"), "si"), "bp")), "bx"), "dx"), "cx"), "ax")
  <2>1. cpu' = all /\ ins'.op = "popa"
    <3>1. Do("popa", "all", all)
      BY <1>12 DEF PopAll
    <3> HIDE DEF all
    <3> QED BY <3>1, DoneIs
  <2>2. \A m : Keeps(m) => \A r \in Gpr \ {"sp"} : Keeps(P(m, r))
    BY KeepsSteps, WidthsAre
  <2>3. CASE ~mode.data32
    <3>1. D = W
      BY <2>3 DEF D, W, Width, Full
    <3>2. \A m : Keeps(m) => Keeps(Skip(m))
      <4> TAKE m
      <4> HAVE Keeps(m)
      <4>1. Get(m, "sp", D) \in Int
        BY <1>3 DEF Gpr
      <4>2. Get(m, "sp", D) + N \in Int
        BY <4>1, WidthsAre, SMT
      <4> QED BY <3>1, <4>2, KeepsSteps, WidthsAre DEF Gpr
    <3> HIDE DEF P, Skip
    <3>3. Keeps(Skip(P(P(P(cpu, "di"), "si"), "bp")))
      BY <1>4, <2>2, <3>2 DEF Gpr
    <3>4. Keeps(all)
      BY <2>2, <3>3 DEF Gpr
    <3> QED BY <2>1, <3>4
  <2> QED BY <2>1, <2>3 DEF AddsEsp
<1>13. ASSUME PushFlags PROVE Keeps(cpu')
  <2>1. Shown(cpu.flags) % D \in Int
    BY <1>1, FlagWords, WordsAndLongs
  <2> QED BY <1>4, <1>13, <2>1, DoneIs DEF PushFlags
<1>14. ASSUME PopFlags PROVE Keeps(cpu')
  <2>1. Keeps([Pop(cpu, N, W) EXCEPT !.flags = AlwaysOn(Top(cpu, N, W))])
    BY <1>4, FlagWords, PartsKeep
  <2> QED BY <1>14, <2>1, DoneIs DEF PopFlags
<1>15. ASSUME NEW local \in Count, NEW level \in Depth, Enter(local, level) PROVE Keeps(cpu')
  <2>1. cpu' = Push(cpu, Size(mode.stack32), Get(cpu, "bp", W), W)
    BY <1>15 DEF Enter
  <2> QED BY <1>2, <1>4, <2>1, KeepsSteps, WidthsAre DEF Gpr
<1>16. ASSUME EnterCopy PROVE Keeps(cpu')
  <2> DEFINE m1  == SetReg(cpu, "bp", Get(cpu, "bp", W) - N, W)
             ofs == Get(m1, "bp", W)
             m2  == Check(m1, "ss", ofs, N)
             v   == Fetched(m1, "ss", ofs, N)
  <2>1. "bp" \in Gpr /\ "bp" # "sp" /\ "ss" \in SegName
    BY DEF Gpr, SegName
  <2>2. Get(cpu, "bp", W) - N \in Int
    BY <1>2, <2>1, WidthsAre, SMT
  <2>3. Keeps(m1)
    BY <1>4, <2>1, <2>2, KeepsSteps, WidthsAre
  <2>4. cpu' = Push(m2, N, v, W)
    BY <1>16 DEF EnterCopy
  <2> HIDE DEF m1
  <2>5. ofs \in Int
    BY <1>3, <2>1, <2>3
  <2> HIDE DEF ofs
  <2>6. Good(m2) /\ m2.reg = m1.reg /\ v \in Long
    BY <2>1, <2>3, <2>5, CheckGood, TopLong, WidthsAre DEF Keeps
  <2>7. Keeps(m2) /\ v \in Int
    BY <2>3, <2>6, WordsAndLongs DEF Keeps, High
  <2> HIDE DEF m2, v
  <2> QED BY <2>4, <2>7, KeepsSteps, WidthsAre
<1>17. ASSUME EnterEnd PROVE Keeps(cpu')
  <2> DEFINE m1 == IF copies.left = 0 THEN cpu ELSE Push(cpu, N, copies.fp % D, W)
             m2 == SetReg(m1, "bp", copies.fp, W)
             m3 == SetReg(m2, "sp", Get(m2, "sp", W) - copies.local, W)
  <2>1. "bp" \in Gpr /\ "sp" \in Gpr
    BY DEF Gpr
  <2>2. Keeps(m1)
    BY <1>1, <1>4
  <2>3. cpu' = m3
    BY <1>17 DEF EnterEnd
  <2> HIDE DEF m1
  <2>4. Keeps(m2)
    BY <1>1, <2>1, <2>2, KeepsSteps, WidthsAre
  <2> HIDE DEF m2
  <2>5. Get(m2, "sp", W) - copies.local \in Int
    BY <1>1, <1>3, <2>1, <2>4, SMT
  <2> QED BY <2>1, <2>3, <2>4, <2>5, KeepsSteps, WidthsAre
<1>18. ASSUME Leave PROVE Keeps(cpu')
  <2> DEFINE m == SetReg(cpu, "sp", Get(cpu, "bp", W), W)
  <2>1. "sp" \in Gpr /\ "bp" \in Gpr /\ "bp" # "sp"
    BY DEF Gpr
  <2>2. Keeps(m)
    BY <1>2, <1>4, <2>1, KeepsSteps, WidthsAre
  <2>3. cpu' = SetReg(Pop(m, N, W), "bp", Top(m, N, W), D)
    BY <1>18, DoneIs DEF Leave
  <2> HIDE DEF m
  <2>4. Keeps(Pop(m, N, W)) /\ Top(m, N, W) \in Int
    BY <2>2, KeepsSteps
  <2> QED BY <2>1, <2>3, <2>4, KeepsSteps, WidthsAre
<1> QED
  BY <1>5, <1>6, <1>7, <1>8, <1>9, <1>10, <1>11, <1>12, <1>13, <1>14, <1>15, <1>16, <1>17, <1>18
     DEF Stack, Keeps

LEMMA NearKeeps ==
  ASSUME GoodState, W = Lo, Near
  PROVE  High(cpu') = High(cpu) \/ AddsEsp
<1>1. cpu.eip \in Int /\ cpu.eip % D \in Int
  <2>1. cpu.eip \in Long
    BY FieldTypes DEF GoodState, Good
  <2> QED BY <2>1, WordsAndLongs
<1>2. Keeps(cpu) /\ Keeps(Push(cpu, N, cpu.eip % D, W))
  BY <1>1, KeepsSteps, WidthsAre
<1>3. \A m, x : Keeps(m) => High([m EXCEPT !.eip = x]) = High(cpu)
  BY PartsHigh DEF Keeps
<1>4. \A m : Keeps(m) => \A r \in Gpr : Get(m, r, D) \in Int
  BY GetLong, WidthsAre DEF Keeps
<1>5. ASSUME NEW ofs \in Offset, Jump(ofs) \/ Jcxz(ofs) \/ CallNear(ofs)
      PROVE High(cpu') = High(cpu)
  BY <1>2, <1>3, <1>5, DoneIs DEF Jump, Jcxz, CallNear, Keeps
<1>6. ASSUME NEW ofs \in Offset, NEW zf \in BOOLEAN, LoopCx(ofs, zf) PROVE High(cpu') = High(cpu)
  <2> DEFINE m == SetReg(cpu, "cx", Get(cpu, "cx", D) - 1, D)
             q == IF Get(m, "cx", D) # 0 /\ zf THEN [m EXCEPT !.eip = Target(ofs)] ELSE m
  <2>1. "cx" \in Gpr /\ "cx" # "sp"
    BY DEF Gpr
  <2>2. Get(cpu, "cx", D) - 1 \in Int
    BY <1>2, <1>4, <2>1, SMT
  <2>3. Keeps(m)
    BY <1>2, <2>1, <2>2, KeepsSteps, WidthsAre
  <2>4. cpu' = q
    BY <1>6, DoneIs DEF LoopCx
  <2> HIDE DEF m
  <2> QED BY <1>3, <2>3, <2>4 DEF Keeps
<1>7. ASSUME NoJump \/ (\E r \in RegArg : JumpReg(r)) PROVE High(cpu') = High(cpu)
  <2>1. CASE NoJump
    BY <2>1, DoneIs DEF NoJump
  <2>2. ASSUME NEW r \in RegArg, JumpReg(r) PROVE High(cpu') = High(cpu)
    <3>1. cpu' = [cpu EXCEPT !.eip = Get(cpu, r, D)]
      BY <2>2, DoneIs DEF JumpReg
    <3>2. High([cpu EXCEPT !.eip = Get(cpu, r, D)]) = High(cpu)
      BY <1>2, <1>3
    <3> QED BY <3>1, <3>2
  <2> QED BY <1>7, <2>1, <2>2
<1>8. ASSUME NEW v \in Value, CallValue(v) PROVE High(cpu') = High(cpu)
  BY <1>2, <1>3, <1>8, DoneIs DEF CallValue
<1>9. ASSUME NEW r \in RegArg, CallReg(r) PROVE High(cpu') = High(cpu)
  BY <1>2, <1>3, <1>9, DoneIs DEF CallReg
<1>10. ASSUME NEW imm \in Count, RetNear(imm) PROVE High(cpu') = High(cpu) \/ AddsEsp
  <2> DEFINE m == Pop(cpu, N, W)
             q == [m EXCEPT !.eip = Top(cpu, N, W)]
             v == Get(m, "sp", D) + imm
  <2>1. cpu' = SetReg(q, "sp", v, D) /\ ins'.op = "ret"
    BY <1>10, DoneIs DEF RetNear
  <2>2. CASE ~mode.data32
    <3>1. D = W
      BY <2>2 DEF D, W, Width, Full
    <3>2. Keeps(m) /\ Top(cpu, N, W) \in Long
      BY <1>2, KeepsSteps
    <3> HIDE DEF m
    <3>3. Keeps(q)
      BY <3>2, PartsKeep
    <3>4. "sp" \in Gpr /\ imm \in Int
      BY OperandAssumption, WordsAndLongs DEF Gpr
    <3>5. Get(m, "sp", D) \in Int
      BY <1>4, <3>2, <3>4
    <3>6. v \in Int
      BY <3>4, <3>5, SMT
    <3> HIDE DEF q, v
    <3>7. Keeps(SetReg(q, "sp", v, D))
      BY <3>1, <3>3, <3>4, <3>6, KeepsSteps, WidthsAre
    <3> QED BY <2>1, <3>7 DEF Keeps
  <2> QED BY <2>1, <2>2 DEF AddsEsp
<1> QED
  BY <1>5, <1>6, <1>7, <1>8, <1>9, <1>10 DEF Near

LEMMA FarKeeps ==
  ASSUME GoodState, W = Lo, Far
  PROVE  High(cpu') = High(cpu) \/ AddsEsp
<1>1. cpu.eip % D \in Int /\ cpu.seg["cs"].sel \in Int
  <2>1. cpu.eip \in Long /\ cpu.seg["cs"].sel \in Word
    BY FieldTypes DEF GoodState, Good, SegName
  <2> QED BY <2>1, WordsAndLongs
<1>2. (\A v \in Value : v % D \in Long) /\ \A cs \in Selector : cs \in Word
  BY OperandAssumption, WordsAndLongs
<1>3. Keeps(cpu)
  BY KeepsSteps
<1>4. \A m : Keeps(m) => /\ Keeps(Pop(m, N, W)) /\ Top(m, N, W) \in Long
                          /\ Top(m, N, W) % Lo \in Word
  BY KeepsSteps
<1>5. ASSUME NEW cs \in Selector, NEW v \in Value, JumpFar(cs, v) PROVE Keeps(cpu')
  <2>1. Keeps(Goto(cpu, cs, v % D))
    BY <1>2, <1>3, KeepsSteps
  <2> QED BY <1>5, <2>1, DoneIs DEF JumpFar
<1>6. ASSUME NEW cs \in Selector, NEW v \in Value, CallFar(cs, v) PROVE Keeps(cpu')
  <2>1. Keeps(Push(cpu, N, cpu.seg["cs"].sel, W))
    BY <1>1, <1>3, KeepsSteps, WidthsAre
  <2>2. Keeps(Push(Push(cpu, N, cpu.seg["cs"].sel, W), N, cpu.eip % D, W))
    BY <1>1, <2>1, KeepsSteps, WidthsAre
  <2>3. Keeps(Goto(Push(Push(cpu, N, cpu.seg["cs"].sel, W), N, cpu.eip % D, W), cs, v % D))
    BY <1>2, <2>2, KeepsSteps
  <2> QED BY <1>6, <2>3, DoneIs DEF CallFar
<1>7. ASSUME NEW imm \in Count, RetFar(imm) PROVE Keeps(cpu') \/ AddsEsp
  <2> DEFINE m1 == Pop(cpu, N, W)
             m2 == Pop(m1, N, W)
             v  == Get(m2, "sp", D) + imm
             m3 == SetReg(m2, "sp", v, D)
             to == Top(m1, N, W) % Lo
  <2>1. cpu' = Goto(m3, to, Top(cpu, N, W)) /\ ins'.op = "retf"
    BY <1>7, DoneIs DEF RetFar
  <2>2. CASE ~mode.data32
    <3>1. D = W
      BY <2>2 DEF D, W, Width, Full
    <3>2. Keeps(m1) /\ Top(cpu, N, W) \in Long
      BY <1>3, <1>4
    <3> HIDE DEF m1
    <3>3. Keeps(m2) /\ to \in Word
      BY <1>4, <3>2
    <3> HIDE DEF m2, to
    <3>4. "sp" \in Gpr /\ imm \in Int
      BY OperandAssumption, WordsAndLongs DEF Gpr
    <3>5. Get(m2, "sp", D) \in Int
      BY <3>3, <3>4, GetLong, WidthsAre DEF Keeps
    <3>6. v \in Int
      BY <3>4, <3>5, SMT
    <3> HIDE DEF v
    <3>7. Keeps(m3)
      BY <3>1, <3>3, <3>4, <3>6, KeepsSteps, WidthsAre
    <3> HIDE DEF m3
    <3>8. Keeps(Goto(m3, to, Top(cpu, N, W)))
      BY <3>2, <3>3, <3>7, KeepsSteps
    <3> QED BY <2>1, <3>8
  <2> QED BY <2>1, <2>2 DEF AddsEsp
<1>8. ASSUME Undefined \/ \E n \in {3, 4} : SoftInt(n) PROVE High(cpu') = High(cpu)
  <2>1. \A new : High(Raise(cpu, new)) = High(cpu)
    BY PartsHigh DEF Raise, GoodState
  <2> QED BY <1>8, <2>1, DoneIs DEF SoftInt, Undefined
<1>9. ASSUME Iret PROVE Keeps(cpu')
  <2> DEFINE m1 == Pop(cpu, N, W)
             m2 == Pop(m1, N, W)
             f  == AlwaysOn(Top(m2, N, W))
             m3 == [Pop(m2, N, W) EXCEPT !.flags = f]
             to == Top(m1, N, W) % Lo
  <2>1. cpu' = Goto(m3, to, Top(cpu, N, W))
    BY <1>9, DoneIs DEF Iret
  <2>2. Keeps(m1) /\ Top(cpu, N, W) \in Long
    BY <1>3, <1>4
  <2> HIDE DEF m1
  <2>3. Keeps(m2) /\ to \in Word
    BY <1>4, <2>2
  <2> HIDE DEF m2, to
  <2>4. Keeps(Pop(m2, N, W)) /\ f \in Long
    BY <1>4, <2>3, FlagWords
  <2> HIDE DEF f
  <2>5. Keeps(m3)
    BY <2>4, PartsKeep
  <2> HIDE DEF m3
  <2>6. Keeps(Goto(m3, to, Top(cpu, N, W)))
    BY <2>2, <2>3, <2>5, KeepsSteps
  <2> QED BY <2>1, <2>6
<1> QED
  BY <1>5, <1>6, <1>7, <1>8, <1>9 DEF Far, Keeps

LEMMA LoadsKeep ==
  ASSUME GoodState, W = Lo, Loads
  PROVE  High(cpu') = High(cpu) \/ LoadsSp
<1>1. RegArg \subseteq Gpr /\ DataSeg \subseteq SegName /\ Selector \subseteq Word
      /\ \A v \in Value : v \in Int
  BY OperandAssumption, WordsAndLongs DEF DataSeg, SegName
<1>2. Keeps(cpu)
  BY KeepsSteps
<1>3. ASSUME NEW s \in DataSeg, NEW r \in RegArg, NEW v \in Value, NEW val \in Selector,
             LoadFar(s, r, v, val)
      PROVE  Keeps(cpu') \/ LoadsSp
  <2>1. CASE r # "sp"
    <3>1. Keeps(SetReg(cpu, r, v, D))
      BY <1>1, <1>2, <2>1, KeepsSteps, WidthsAre
    <3>2. Keeps(LoadSeg(SetReg(cpu, r, v, D), s, val))
      BY <1>1, <3>1, KeepsSteps
    <3> QED BY <1>3, <3>2, DoneIs DEF LoadFar
  <2> QED BY <1>3, <2>1, DoneIs DEF LoadFar, LoadsSp
<1>4. ASSUME NEW s \in SegName, NEW val \in Selector, MovSeg(s, val) PROVE Keeps(cpu')
  <2>1. Keeps(LoadSeg(cpu, s, val))
    BY <1>1, <1>2, KeepsSteps
  <2> QED BY <1>4, <2>1, DoneIs DEF MovSeg
<1>5. ASSUME NEW r \in RegArg, NEW v \in Value, MovReg(r, v) PROVE Keeps(cpu') \/ LoadsSp
  <2>1. r # "sp" => Keeps(SetReg(cpu, r, v, D))
    BY <1>1, <1>2, KeepsSteps, WidthsAre
  <2> QED BY <1>5, <2>1, DoneIs DEF MovReg, LoadsSp
<1>6. ASSUME \/ \E pe \in BOOLEAN : SetPe(pe)
             \/ \E t \in Tables : LoadGdt(t) \/ LoadIdt(t)
      PROVE  High(cpu') = High(cpu)
  <2>1. \A x : /\ High([cpu EXCEPT !.pe = x]) = High(cpu)
               /\ High([cpu EXCEPT !.gdt = x]) = High(cpu)
                /\ High([cpu EXCEPT !.idt = x]) = High(cpu)
    BY PartsHigh DEF GoodState
  <2>2. ASSUME NEW pe \in BOOLEAN, SetPe(pe) PROVE High(cpu') = High(cpu)
    BY <2>1, <2>2, DoneIs DEF SetPe
  <2>3. ASSUME NEW t \in Tables, LoadGdt(t) PROVE High(cpu') = High(cpu)
    BY <2>1, <2>3, DoneIs DEF LoadGdt
  <2>4. ASSUME NEW t \in Tables, LoadIdt(t) PROVE High(cpu') = High(cpu)
    BY <2>1, <2>4, DoneIs DEF LoadIdt
  <2> QED BY <1>6, <2>2, <2>3, <2>4
<1> QED
  BY <1>3, <1>4, <1>5, <1>6 DEF Loads, Keeps

LEMMA DeliverKeeps ==
  ASSUME GoodState, W = Lo, Deliver
  PROVE  High(cpu') = High(cpu)
<1> DEFINE i   == cpu.intr
           n   == Size(cpu.pe /\ mode.code32)
           cs  == IF i.restart THEN saved.cs ELSE cpu.seg["cs"].sel
           eip == IF i.restart THEN saved.eip ELSE cpu.eip
           to  == Handler(cpu.pe, cpu.idt, i.nr, cs, eip)
           w   == Width(n = 2)
           p1  == Push(cpu, n, cpu.flags % w, W)
           p2  == Push(p1, n, cs, W)
           m1  == Push(p2, n, eip % w, W)
           m2  == IF i.err = -1 THEN m1 ELSE Push(m1, 2, i.err, W)
           f   == ClearIfTf(cpu.flags)
           q   == [m2 EXCEPT !.flags = f]
           m3  == Goto(q, to.cs, to.eip)
<1>1. cpu' = [m3 EXCEPT !.intr = None] /\ i # None
  BY DEF Deliver
<1>2. i \in Intr /\ i.nr \in Nr /\ i.err \in Int
  <2>1. i \in Intr
    BY <1>1, FieldTypes DEF GoodState, Good
  <2> QED BY <2>1, WordsAndLongs, SMT DEF Intr
<1>3. cs \in Word /\ eip \in Long
  BY FieldTypes DEF GoodState, Good, TypeOK, SegName
<1>4. to.cs \in Word /\ to.eip \in Long
  <2> HIDE DEF i, cs, eip
  <2>1. /\ Handler(cpu.pe, cpu.idt, i.nr, cs, eip).cs \in Word
        /\ Handler(cpu.pe, cpu.idt, i.nr, cs, eip).eip \in Long
    BY <1>2, <1>3, HandlerTypes DEF GoodState
  <2> QED BY <2>1 DEF to
<1>5. n \in {1, 2} /\ w \in Widths
  BY DEF Size, Width, Widths
<1>6. cpu.flags % w \in Int /\ eip % w \in Int /\ cs \in Int /\ f \in Long
  <2>1. cpu.flags \in Long /\ cpu.flags \in Int /\ eip \in Int /\ cs \in Int
    BY <1>3, FieldTypes, WordsAndLongs DEF GoodState, Good
  <2>2. w \in Nat \ {0}
    BY <1>5, Sizes DEF Widths
  <2> HIDE DEF w, eip, cs
  <2>3. cpu.flags % w \in Int /\ eip % w \in Int
    BY <2>1, <2>2, SMT
  <2> QED BY <2>1, <2>3, FlagWords
<1> HIDE DEF i, n, cs, eip, to, w, f
<1>7. Keeps(p1)
  BY <1>5, <1>6, KeepsSteps
<1> HIDE DEF p1
<1>8. Keeps(p2)
  BY <1>5, <1>6, <1>7, KeepsSteps
<1> HIDE DEF p2
<1>9. Keeps(m1)
  BY <1>5, <1>6, <1>8, KeepsSteps
<1> HIDE DEF m1
<1>10. Keeps(m2)
  BY <1>2, <1>9, KeepsSteps
<1> HIDE DEF m2
<1>11. Keeps(q)
  BY <1>6, <1>10, PartsKeep
<1> HIDE DEF q
<1>12. Keeps(m3)
  BY <1>4, <1>11, KeepsSteps
<1> HIDE DEF m3
<1>13. High([m3 EXCEPT !.intr = None]) = High(m3)
  BY <1>12, PartsHigh DEF Keeps
<1> QED
  BY <1>1, <1>12, <1>13 DEF Keeps

LEMMA HighStep ==
  ASSUME GoodState, [Next]_vars
  PROVE  ~mode.stack32 /\ cpu'.reg["sp"] \div Lo # cpu.reg["sp"] \div Lo =>
           LoadsSp \/ AddsEsp
<1> SUFFICES ASSUME ~mode.stack32
             PROVE  High(cpu') = High(cpu) \/ LoadsSp \/ AddsEsp
  BY DEF High
<1>1. W = Lo
  BY DEF W, Width
<1>2. ASSUME NEW prefix \in BOOLEAN, Fetch(prefix) PROVE High(cpu') = High(cpu)
  BY <1>2, PartsHigh DEF Fetch, GoodState
<1>3. CASE Stack
  BY <1>1, <1>3, StackKeeps
<1>4. CASE Near
  BY <1>1, <1>4, NearKeeps
<1>5. CASE Far
  BY <1>1, <1>5, FarKeeps
<1>6. CASE Loads
  BY <1>1, <1>6, LoadsKeep
<1>7. CASE NoIntr
  BY <1>7 DEF NoIntr
<1>8. CASE Handled
  BY <1>8, PartsHigh DEF Handled, GoodState
<1>9. CASE Deliver
  BY <1>1, <1>9, DeliverKeeps
<1>10. CASE UNCHANGED vars
  BY <1>10 DEF vars
<1> QED
  BY <1>2, <1>3, <1>4, <1>5, <1>6, <1>7, <1>8, <1>9, <1>10 DEF Next

(* On a 16 bit stack nothing that pushes, pops, calls, returns or          *)
(* interrupts touches the upper half of ESP, in whatever size the operand  *)
(* is and whatever faults, but POPAD and RET with 32 bit operands.         *)
THEOREM UpperHalfIsKept == Spec => UpperHalfKept
<1>1. GoodState /\ [Next]_vars =>
        [~mode.stack32 /\ cpu'.reg["sp"] \div Lo # cpu.reg["sp"] \div Lo =>
           \/ ins'.op \in {"pop", "mov", "les"} /\ ins'.dest = "sp"
           \/ ins'.op \in {"popa", "ret", "retf"} /\ mode.data32]_vars
  BY HighStep DEF LoadsSp, AddsEsp
<1> QED
  BY <1>1, InitGood, NextGood, PTL DEF Spec, UpperHalfKept

-----------------------------------------------------------------------------
(* What an instruction leaves behind a fault.  Calm: the host has raised   *)
(* no interrupt before the program begins.                                 *)
Calm == \A m \in Machines : m.intr = None
Quiet(q) == Calm => q.intr = None

StackFault == FaultGP(was.seg["ss"].sel)

(* A machine an instruction has come to before it loads a segment: only    *)
(* the parts in R differ from those it found, and a fault is the stack's.  *)
Chain(q, R) ==
  /\ Good(q) /\ q.seg = was.seg /\ q.pe = was.pe /\ q.gdt = cpu.gdt
  /\ \A r \in Gpr \ R : q.reg[r] = was.reg[r]
  /\ "flags" \notin R => q.flags = was.flags
  /\ Calm => q.intr = None \/ q.intr = StackFault

(* ... and behind its end, where a fault is pending *)
Leaves(q, R) ==
  Calm /\ q.intr # None /\ q.intr.restart =>
    /\ \A r \in Gpr \ R : q.reg[r] = was.reg[r]
    /\ "flags" \notin R => q.flags = was.flags
    /\ \A s \in SegName : q.seg[s] # was.seg[s] => "seg" \in R /\ q.intr.err = was.seg["ss"].sel

LEMMA ChainCheck ==
  ASSUME NEW R, NEW m, Chain(m, R), NEW ofs, NEW n
  PROVE  Chain(Check(m, "ss", ofs, n), R)
<1> DEFINE q == Check(m, "ss", ofs, n)
<1>1. Good(m) /\ m \in Machine /\ "ss" \in SegName
  BY DEF Chain, Good, SegName
<1>2. Good(q) /\ q.reg = m.reg
  BY <1>1, CheckGood
<1>3. q.seg = m.seg /\ q.pe = m.pe /\ q.gdt = m.gdt /\ q.flags = m.flags
  BY <1>1 DEF Check, Raise, Machine
<1>4. q.intr = m.intr \/ q.intr = FaultGP(m.seg["ss"].sel)
  BY <1>1 DEF Check, Raise, Machine
<1> HIDE DEF q
<1> QED
  BY <1>2, <1>3, <1>4 DEF Chain, StackFault, q

LEMMA ChainSetReg ==
  ASSUME NEW R, NEW m, Chain(m, R), NEW r \in Gpr, r \in R, NEW v \in Int, NEW w \in Widths
  PROVE  Chain(SetReg(m, r, v, w), R) /\ SetReg(m, r, v, w).intr = m.intr
<1> DEFINE q == SetReg(m, r, v, w)
<1>1. Good(m) /\ m \in Machine /\ m.reg \in [Gpr -> Long]
  BY FieldTypes DEF Chain, Good
<1>2. Good(q)
  BY <1>1, SetRegGood
<1>3. /\ q.seg = m.seg /\ q.pe = m.pe /\ q.gdt = m.gdt /\ q.flags = m.flags /\ q.intr = m.intr
      /\ q.reg = [m.reg EXCEPT ![r] = Written(m.reg[r], v, w)]
  BY <1>1 DEF SetReg, Machine
<1> HIDE DEF q
<1>4. \A x \in Gpr \ R : q.reg[x] = m.reg[x]
  BY <1>1, <1>3
<1> QED
  BY <1>2, <1>3, <1>4 DEF Chain, q

LEMMA ChainStored ==
  ASSUME NEW R, NEW m, Chain(m, R), NEW ofs, NEW n, NEW v \in Int
  PROVE  Chain(Stored(m, "ss", ofs, n, v), R)
<1> DEFINE c == Check(m, "ss", ofs, n)
           q == Stored(m, "ss", ofs, n, v)
<1>1. Chain(c, R)
  BY ChainCheck
<1>2. Good(m) /\ "ss" \in SegName
  BY DEF Chain, SegName
<1>3. Good(q)
  BY <1>2, StoredGood
<1>4. c \in Machine
  BY <1>1 DEF Chain, Good
<1>5. /\ q.seg = c.seg /\ q.pe = c.pe /\ q.gdt = c.gdt /\ q.flags = c.flags
      /\ q.intr = c.intr /\ q.reg = c.reg
  <2> HIDE DEF c
  <2>1. \A f : LET x == [c EXCEPT !.mem = f]
               IN  /\ x.seg = c.seg /\ x.pe = c.pe /\ x.gdt = c.gdt /\ x.flags = c.flags
                   /\ x.intr = c.intr /\ x.reg = c.reg
    BY <1>4 DEF Machine
  <2> QED BY <2>1 DEF Stored, c
<1> HIDE DEF c, q
<1> QED
  BY <1>1, <1>3, <1>5 DEF Chain, q

LEMMA ChainPush ==
  ASSUME NEW R, "sp" \in R, NEW m, Chain(m, R), NEW n \in {1, 2}, NEW v \in Int
  PROVE  Chain(Push(m, n, v, W), R)
<1> DEFINE m1 == SetReg(m, "sp", Get(m, "sp", W) - n, W)
<1>1. "sp" \in Gpr /\ Get(m, "sp", W) \in Int
  BY GetLong, WidthsAre DEF Chain, Gpr
<1>2. Get(m, "sp", W) - n \in Int
  BY <1>1, SMT
<1>3. Chain(m1, R)
  BY <1>1, <1>2, ChainSetReg, WidthsAre
<1> HIDE DEF m1
<1>4. Chain(Stored(m1, "ss", Get(m1, "sp", W), n, v), R)
  BY <1>3, ChainStored
<1> QED
  BY <1>4, Zenon DEF Push, m1

LEMMA ChainPop ==
  ASSUME NEW R, "sp" \in R, NEW m, Chain(m, R)
  PROVE  /\ Chain(Pop(m, N, W), R) /\ Top(m, N, W) \in Long
         /\ Top(m, N, W) \in Int /\ Top(m, N, W) % Lo \in Word
<1> DEFINE m1 == Check(m, "ss", Get(m, "sp", W), N)
<1>1. "sp" \in Gpr /\ Get(m, "sp", W) \in Int
  BY GetLong, WidthsAre DEF Chain, Gpr
<1>2. Get(m, "sp", W) + N \in Int
  BY <1>1, WidthsAre, SMT
<1>3. Chain(m1, R)
  BY ChainCheck
<1> HIDE DEF m1
<1>4. Chain(SetReg(m1, "sp", Get(m, "sp", W) + N, W), R)
  BY <1>1, <1>2, <1>3, ChainSetReg, WidthsAre
<1>5. Good(m)
  BY DEF Chain
<1> QED
  BY <1>4, <1>5, PopGood, WidthsAre DEF Pop, m1

LEMMA ChainEip ==
  ASSUME NEW R, NEW m, Chain(m, R), NEW eip \in Long
  PROVE  Chain([m EXCEPT !.eip = eip], R)
<1> DEFINE q == [m EXCEPT !.eip = eip]
<1>1. m \in Machine /\ Good(m)
  BY DEF Chain, Good
<1>2. Good(q)
  BY <1>1, PartsGood
<1>3. /\ q.seg = m.seg /\ q.pe = m.pe /\ q.gdt = m.gdt /\ q.intr = m.intr /\ q.reg = m.reg
      /\ q.flags = m.flags
  BY <1>1 DEF Machine
<1> HIDE DEF q
<1> QED
  BY <1>2, <1>3 DEF Chain, q

LEMMA ChainFlags ==
  ASSUME NEW R, "flags" \in R, NEW m, Chain(m, R), NEW f \in Long
  PROVE  Chain([m EXCEPT !.flags = f], R)
<1> DEFINE q == [m EXCEPT !.flags = f]
<1>1. m \in Machine /\ Good(m)
  BY DEF Chain, Good
<1>2. Good(q)
  BY <1>1, PartsGood
<1>3. q.seg = m.seg /\ q.pe = m.pe /\ q.gdt = m.gdt /\ q.intr = m.intr /\ q.reg = m.reg
  BY <1>1 DEF Machine
<1> HIDE DEF q
<1> QED
  BY <1>2, <1>3 DEF Chain, q

-----------------------------------------------------------------------------
(* The end of an instruction *)
LEMMA ChainLeaves ==
  ASSUME NEW R, NEW q, Chain(q, R)
  PROVE  Leaves(q, R)
BY DEF Chain, Leaves

LEMMA EipLeaves ==
  ASSUME NEW R, NEW q \in Machine, Leaves(q, R), NEW eip
  PROVE  Leaves([q EXCEPT !.eip = eip], R)
<1> DEFINE x == [q EXCEPT !.eip = eip]
<1>1. x.seg = q.seg /\ x.flags = q.flags /\ x.intr = q.intr /\ x.reg = q.reg
  BY DEF Machine
<1> HIDE DEF x
<1> QED
  BY <1>1 DEF Leaves, x

(* A load that is refused leaves the segments alone; one that is not       *)
(* leaves what the accesses to the stack have raised.                      *)
LEMMA LoadLeaves ==
  ASSUME NEW R, NEW m, Chain(m, R), NEW s \in SegName, NEW val \in Word,
         "seg" \in R \/ Quiet(m)
  PROVE  Leaves(LoadSeg(m, s, val), R)
<1> DEFINE l == Load(m.pe, m.gdt, m.seg["ldt"], m.seg[s], val)
           q == LoadSeg(m, s, val)
<1>1. m \in Machine
  BY DEF Chain, Good
<1>2. CASE l.ok
  <2>1. q = [m EXCEPT !.seg[s] = l.reg]
    BY <1>2 DEF LoadSeg
  <2> HIDE DEF l
  <2>2. q.flags = m.flags /\ q.intr = m.intr /\ q.reg = m.reg
    BY <1>1, <2>1 DEF Machine
  <2>3. Calm /\ q.intr # None => q.intr = StackFault /\ "seg" \in R
    BY <2>2 DEF Chain, Quiet
  <2>4. StackFault.err = was.seg["ss"].sel
    BY DEF StackFault, FaultGP
  <2> HIDE DEF q
  <2> QED BY <2>2, <2>3, <2>4 DEF Chain, Leaves, q
<1>3. CASE ~l.ok
  <2>1. q = Raise(m, FaultGP(val))
    BY <1>3 DEF LoadSeg
  <2> HIDE DEF l
  <2>2. q.flags = m.flags /\ q.seg = m.seg /\ q.reg = m.reg
    BY <1>1, <2>1 DEF Machine, Raise
  <2> HIDE DEF q
  <2> QED BY <2>2 DEF Chain, Leaves, q
<1> QED
  BY <1>2, <1>3

LEMMA GotoLeaves ==
  ASSUME NEW R, NEW m, Chain(m, R), NEW cs \in Word, NEW eip \in Long, "seg" \in R \/ Quiet(m)
  PROVE  Leaves(Goto(m, cs, eip), R)
<1>1. "cs" \in SegName /\ Good(m)
  BY DEF SegName, Chain
<1>2. LoadSeg(m, "cs", cs) \in Machine
  BY <1>1, LoadSegGood DEF Good
<1>3. Leaves(LoadSeg(m, "cs", cs), R)
  BY <1>1, LoadLeaves
<1> QED
  BY <1>2, <1>3, EipLeaves DEF Goto

-----------------------------------------------------------------------------
(* Where an instruction is.  At its beginning the machine is the one it    *)
(* found but for EIP.                                                      *)
PathInv ==
  /\ stage = "top" => Quiet(cpu)
  /\ stage = "exec" => Chain(cpu, {}) /\ Quiet(cpu)
  /\ stage = "enter" => ins.op = "enter" /\ Chain(cpu, {"sp", "bp"})

(* What an instruction may leave changed *)
Free(op, dest) ==
  Spoils(op)
    \cup (IF op \in {"pop", "les"} THEN {dest} ELSE {})
    \cup (IF op \in {"popf", "iret"} THEN {"flags"} ELSE {})
    \cup (IF op \in {"popseg", "callf", "retf", "iret"} THEN {"seg"} ELSE {})

EndInv ==
  stage = "intr" =>
    /\ Leaves(cpu, Free(ins.op, ins.dest))
    /\ ins.dest \notin {"flags", "seg"} \/ ins.op \notin {"pop", "les"}

LEMMA Wider ==
  ASSUME NEW R, NEW S, R \subseteq S
  PROVE  /\ \A q : Chain(q, R) => Chain(q, S)
         /\ \A q : Leaves(q, R) => Leaves(q, S)
BY DEF Chain, Leaves

LEMMA QuietLeaves ==
  ASSUME NEW R, NEW q, Quiet(q)
  PROVE  Leaves(q, R)
BY DEF Quiet, Leaves

LEMMA DoneLeaves ==
  ASSUME NEW op, NEW dest, NEW result, Do(op, dest, result),
         NEW R, R \subseteq Free(op, dest), Leaves(result, R),
         dest \notin {"flags", "seg"} \/ op \notin {"pop", "les"}
  PROVE  PathInv' /\ EndInv'
<1>1. Leaves(result, Free(op, dest))
  BY Wider
<1>2. /\ stage' = "intr" /\ cpu' = result /\ was' = was
      /\ ins'.op = op /\ ins'.dest = dest
  BY DEF Do
<1>3. PathInv'
  BY <1>2 DEF PathInv
<1>4. Leaves(cpu, Free(ins.op, ins.dest))'
  BY <1>1, <1>2 DEF Leaves
<1> QED
  BY <1>2, <1>3, <1>4 DEF EndInv

(* Where a chain begins *)
LEMMA Begins ==
  ASSUME PathInv, stage = "exec"
  PROVE  /\ \A R : Chain(cpu, R)
         /\ Quiet(cpu) /\ Good(cpu)
BY Wider DEF PathInv, Chain

LEMMA StackLeaves ==
  ASSUME GoodState, PathInv, Stack
  PROVE  PathInv' /\ EndInv'
<1>1. /\ cpu.flags \in Long /\ (\A s \in SegName : cpu.seg[s].sel \in Word)
      /\ copies.fp \in Int /\ copies.fp % D \in Int /\ copies.local \in Int
  BY FieldTypes, WordsAndLongs DEF GoodState, Good, TypeOK
<1>2. \A r \in Gpr : Get(cpu, r, D) \in Int /\ Get(cpu, r, W) \in Int
  BY GetLong, WidthsAre DEF GoodState
<1>3. ASSUME NEW op, NEW v \in Int, Do(op, "none", Push(cpu, N, v, W)),
             op \in {"push", "pushf"}
      PROVE  PathInv' /\ EndInv'
  <2>1. Chain(cpu, {"sp"})
    BY <1>3, Begins DEF Do
  <2>2. Chain(Push(cpu, N, v, W), {"sp"})
    BY <2>1, ChainPush, WidthsAre
  <2>3. Leaves(Push(cpu, N, v, W), {"sp"})
    BY <2>2, ChainLeaves
  <2>4. {"sp"} \subseteq Free(op, "none")
    BY <1>3 DEF Free, Spoils
  <2> QED BY <1>3, <2>3, <2>4, DoneLeaves
<1>4. ASSUME NEW v \in Value, PushValue(v) PROVE PathInv' /\ EndInv'
  <2>1. v % D \in Int
    BY OperandAssumption, WordsAndLongs
  <2> QED BY <1>3, <1>4, <2>1 DEF PushValue
<1>5. ASSUME NEW r \in RegArg, PushReg(r) PROVE PathInv' /\ EndInv'
  BY <1>2, <1>3, <1>5, OperandAssumption DEF PushReg
<1>6. ASSUME NEW s \in SegName, PushSeg(s) PROVE PathInv' /\ EndInv'
  BY <1>1, <1>3, <1>6, WordsAndLongs DEF PushSeg
<1>7. ASSUME PushFlags PROVE PathInv' /\ EndInv'
  <2>1. Shown(cpu.flags) % D \in Int
    BY <1>1, FlagWords, WordsAndLongs
  <2> QED BY <1>3, <1>7, <2>1 DEF PushFlags
<1>8. ASSUME stage = "exec"
      PROVE  \A R : "sp" \in R => /\ Chain(Pop(cpu, N, W), R) /\ Top(cpu, N, W) \in Long
                                  /\ Top(cpu, N, W) \in Int /\ Top(cpu, N, W) % Lo \in Word
  BY <1>8, Begins, ChainPop
<1>9. ASSUME NEW r \in RegArg, PopReg(r) PROVE PathInv' /\ EndInv'
  <2> DEFINE q == SetReg(Pop(cpu, N, W), r, Top(cpu, N, W), D)
             R == {"sp", r}
  <2>1. Do("pop", r, q) /\ stage = "exec" /\ r \in Gpr /\ r \in R /\ "sp" \in R
    BY <1>9, OperandAssumption DEF PopReg, Do
  <2>2. R \subseteq Free("pop", r) /\ r \notin {"flags", "seg"}
    BY <2>1 DEF Free, Spoils, Gpr
  <2> HIDE DEF R
  <2>3. Chain(Pop(cpu, N, W), R) /\ Top(cpu, N, W) \in Int
    BY <1>8, <2>1
  <2>4. Chain(q, R)
    BY <2>1, <2>3, ChainSetReg, WidthsAre
  <2> HIDE DEF q
  <2>5. Leaves(q, R)
    BY <2>4, ChainLeaves
  <2> QED BY <2>1, <2>2, <2>5, DoneLeaves
<1>10. ASSUME NEW s \in DataSeg, PopSeg(s) PROVE PathInv' /\ EndInv'
  <2> DEFINE q == LoadSeg(Pop(cpu, N, W), s, Top(cpu, N, W) % Lo)
             R == {"sp", "seg"}
  <2>1. Do("popseg", s, q) /\ stage = "exec" /\ s \in SegName /\ "seg" \in R /\ "sp" \in R
    BY <1>10 DEF PopSeg, Do, DataSeg, SegName
  <2>2. R \subseteq Free("popseg", s) /\ "popseg" \notin {"pop", "les"}
    BY DEF Free, Spoils
  <2> HIDE DEF R
  <2>3. Chain(Pop(cpu, N, W), R) /\ Top(cpu, N, W) % Lo \in Word
    BY <1>8, <2>1
  <2>4. Leaves(q, R)
    BY <2>1, <2>3, LoadLeaves
  <2> HIDE DEF q
  <2> QED BY <2>1, <2>2, <2>4, DoneLeaves
<1>11. ASSUME PopMem PROVE PathInv' /\ EndInv'
  <2> DEFINE q == Pop(cpu, N, W)
  <2>1. Do("pop", "memory", q) /\ stage = "exec"
    BY <1>11 DEF PopMem, Do
  <2>2. {"sp"} \subseteq Free("pop", "memory")
        /\ "memory" \notin {"flags", "seg"}
    BY DEF Free, Spoils
  <2>3. Leaves(q, {"sp"})
    BY <1>8, <2>1, ChainLeaves
  <2> HIDE DEF q
  <2> QED BY <2>1, <2>2, <2>3, DoneLeaves
<1>12. ASSUME PushAll PROVE PathInv' /\ EndInv'
  <2> DEFINE P(m, r) == Push(m, N, Get(cpu, r, D), W)
             all == P(P(P(P(P(P(P(P(cpu, "ax"), "cx"), "dx"), "bx"), "sp"), "bp"), "si"), "di")
  <2>1. \A m : Chain(m, {"sp"}) => \A r \in Gpr : Chain(P(m, r), {"sp"})
    BY <1>2, ChainPush, WidthsAre
  <2>2. Do("pusha", "none", all) /\ stage = "exec"
    BY <1>12 DEF PushAll, Do
  <2>3. {"sp"} \subseteq Free("pusha", "none")
        /\ "none" \notin {"flags", "seg"}
    BY DEF Free, Spoils
  <2>4. Chain(cpu, {"sp"})
    BY <2>2, Begins
  <2> HIDE DEF P
  <2>5. Chain(P(P(P(P(cpu, "ax"), "cx"), "dx"), "bx"), {"sp"})
    BY <2>1, <2>4 DEF Gpr
  <2>6. Chain(all, {"sp"})
    BY <2>1, <2>5 DEF Gpr
  <2> HIDE DEF all
  <2>7. Leaves(all, {"sp"})
    BY <2>6, ChainLeaves
  <2> QED BY <2>2, <2>3, <2>7, DoneLeaves
<1>13. ASSUME PopAll PROVE PathInv' /\ EndInv'
  <2> DEFINE P(m, r) == SetReg(Pop(m, N, W), r, Top(m, N, W), D)
             Skip(m) == SetReg(m, "sp", Get(m, "sp", D) + N, D)
             all == P(P(P(P(Skip(P(P(P(cpu, "di"), "si"), "bp")), "bx"), "dx"), "cx"), "ax")
  <2>1. Do("popa", "all", all) /\ stage = "exec"
    <3>1. Do("popa", "all", all)
      BY <1>13 DEF PopAll
    <3> HIDE DEF all
    <3> QED BY <3>1 DEF Do
  <2>2. Gpr \subseteq Free("popa", "all")
        /\ "all" \notin {"flags", "seg"}
    BY DEF Free, Spoils
  <2>3. Chain(cpu, Gpr) /\ "sp" \in Gpr
    BY <2>1, Begins DEF Gpr
  <2>4. ASSUME NEW m, Chain(m, Gpr), NEW r \in Gpr PROVE Chain(P(m, r), Gpr)
    <3>1. Chain(Pop(m, N, W), Gpr) /\ Top(m, N, W) \in Int
      BY <2>3, <2>4, ChainPop
    <3> QED BY <2>4, <3>1, ChainSetReg, WidthsAre
  <2>5. ASSUME NEW m, Chain(m, Gpr) PROVE Chain(Skip(m), Gpr)
    <3>1. Get(m, "sp", D) \in Int
      BY <2>3, <2>5, GetLong, WidthsAre DEF Chain
    <3>2. Get(m, "sp", D) + N \in Int
      BY <3>1, WidthsAre, SMT
    <3> QED BY <2>3, <2>5, <3>2, ChainSetReg, WidthsAre
  <2> HIDE DEF P, Skip
  <2>6. Chain(Skip(P(P(P(cpu, "di"), "si"), "bp")), Gpr)
    BY <2>3, <2>4, <2>5 DEF Gpr
  <2>7. Chain(all, Gpr)
    BY <2>4, <2>6 DEF Gpr
  <2> HIDE DEF all
  <2>8. Leaves(all, Gpr)
    BY <2>7, ChainLeaves
  <2> QED BY <2>1, <2>2, <2>8, DoneLeaves
<1>14. ASSUME PopFlags PROVE PathInv' /\ EndInv'
  <2> DEFINE f == AlwaysOn(Top(cpu, N, W))
             q == [Pop(cpu, N, W) EXCEPT !.flags = f]
             R == {"sp", "flags"}
  <2>1. Do("popf", "flags", q) /\ stage = "exec" /\ "sp" \in R /\ "flags" \in R
    BY <1>14 DEF PopFlags, Do
  <2>2. R \subseteq Free("popf", "flags") /\ "popf" \notin {"pop", "les"}
    BY DEF Free, Spoils
  <2> HIDE DEF R
  <2>3. Chain(Pop(cpu, N, W), R) /\ Top(cpu, N, W) \in Long
    BY <1>8, <2>1
  <2>4. f \in Long
    BY <2>3, FlagWords
  <2> HIDE DEF f
  <2>5. Chain(q, R)
    BY <2>1, <2>3, <2>4, ChainFlags
  <2> HIDE DEF q
  <2>6. Leaves(q, R)
    BY <2>5, ChainLeaves
  <2> QED BY <2>1, <2>2, <2>6, DoneLeaves
<1> DEFINE E == {"sp", "bp"}
<1>15. "sp" \in E /\ "bp" \in E /\ "sp" \in Gpr /\ "bp" \in Gpr
       /\ \A dest : E \subseteq Free("enter", dest) /\ E \subseteq Free("leave", dest)
  BY DEF Free, Spoils, Gpr
<1>16. stage = "enter" => Chain(cpu, E) /\ ins.op = "enter"
  BY DEF PathInv
<1> HIDE DEF E
<1>17. ASSUME Chain(cpu', E), was' = was, stage' = "enter", ins'.op = "enter"
       PROVE  PathInv' /\ EndInv'
  <2>1. Chain(cpu, E)'
    <3>1. /\ Good(cpu') /\ (cpu.seg = was.seg)' /\ (cpu.pe = was.pe)'
          /\ (\A r \in Gpr \ E : cpu.reg[r] = was.reg[r])'
          /\ ("flags" \notin E => cpu.flags = was.flags)'
          /\ (Calm => cpu.intr = None \/ cpu.intr = StackFault)'
      BY <1>17 DEF Chain, StackFault
    <3> QED BY <3>1 DEF Chain
  <2> QED BY <1>17, <2>1 DEF PathInv, EndInv, E
<1>18. ASSUME NEW local \in Count, NEW level \in Depth, Enter(local, level)
      PROVE PathInv' /\ EndInv'
  <2>1. Chain(cpu, E)
    BY <1>18, Begins DEF Enter
  <2>2. Chain(Push(cpu, Size(mode.stack32), Get(cpu, "bp", W), W), E)
    BY <1>2, <1>15, <2>1, ChainPush, WidthsAre
  <2> QED BY <1>17, <1>18, <2>2 DEF Enter
<1>19. ASSUME EnterCopy PROVE PathInv' /\ EndInv'
  <2> DEFINE m1  == SetReg(cpu, "bp", Get(cpu, "bp", W) - N, W)
             ofs == Get(m1, "bp", W)
             m2  == Check(m1, "ss", ofs, N)
             v   == Fetched(m1, "ss", ofs, N)
  <2>1. Chain(cpu, E) /\ ins.op = "enter" /\ cpu' = Push(m2, N, v, W)
        /\ stage' = "enter" /\ UNCHANGED <<ins, was>>
    BY <1>16, <1>19 DEF EnterCopy
  <2>2. Get(cpu, "bp", W) - N \in Int
    BY <1>2, <1>15, WidthsAre, SMT
  <2>3. Chain(m1, E)
    BY <1>15, <2>1, <2>2, ChainSetReg, WidthsAre
  <2> HIDE DEF m1
  <2>4. ofs \in Int /\ Good(m1) /\ "ss" \in SegName
    BY <1>15, <2>3, GetLong, WidthsAre DEF Chain, SegName
  <2> HIDE DEF ofs
  <2>5. v \in Int
    BY <2>4, TopLong, WidthsAre, WordsAndLongs
  <2>6. Chain(m2, E)
    BY <2>3, ChainCheck
  <2> HIDE DEF m2, v
  <2>7. Chain(cpu', E)
    BY <1>15, <2>1, <2>5, <2>6, ChainPush, WidthsAre
  <2> QED BY <1>17, <2>1, <2>7
<1>20. ASSUME EnterEnd PROVE PathInv' /\ EndInv'
  <2> DEFINE m1 == IF copies.left = 0 THEN cpu ELSE Push(cpu, N, copies.fp % D, W)
             m2 == SetReg(m1, "bp", copies.fp, W)
             q  == SetReg(m2, "sp", Get(m2, "sp", W) - copies.local, W)
  <2>1. Chain(cpu, E) /\ ins.op = "enter" /\ cpu' = q
        /\ stage' = "intr" /\ UNCHANGED <<ins, was>>
    BY <1>16, <1>20 DEF EnterEnd
  <2>2. Chain(m1, E)
    BY <1>1, <1>15, <2>1, ChainPush, WidthsAre
  <2> HIDE DEF m1
  <2>3. Chain(m2, E)
    BY <1>1, <1>15, <2>2, ChainSetReg, WidthsAre
  <2> HIDE DEF m2
  <2>4. Get(m2, "sp", W) \in Int
    BY <1>15, <2>3, GetLong, WidthsAre DEF Chain
  <2>5. Get(m2, "sp", W) - copies.local \in Int
    BY <1>1, <2>4, SMT
  <2>6. Chain(q, E)
    BY <1>15, <2>3, <2>5, ChainSetReg, WidthsAre
  <2> HIDE DEF q
  <2>7. Leaves(q, Free("enter", ins.dest))
    BY <1>15, <2>6, ChainLeaves, Wider
  <2>8. Leaves(cpu, Free(ins.op, ins.dest))'
    BY <2>1, <2>7 DEF Leaves
  <2> QED BY <2>1, <2>8 DEF PathInv, EndInv
<1>21. ASSUME Leave PROVE PathInv' /\ EndInv'
  <2> DEFINE m == SetReg(cpu, "sp", Get(cpu, "bp", W), W)
             q == SetReg(Pop(m, N, W), "bp", Top(m, N, W), D)
  <2>1. Do("leave", "bp", q) /\ stage = "exec"
    <3>1. Do("leave", "bp", q)
      BY <1>21 DEF Leave
    <3> QED BY <3>1 DEF Do
  <2>2. Chain(cpu, E)
    BY <2>1, Begins
  <2>3. Chain(m, E)
    BY <1>2, <1>15, <2>2, ChainSetReg, WidthsAre
  <2> HIDE DEF m
  <2>4. Chain(Pop(m, N, W), E) /\ Top(m, N, W) \in Int
    BY <1>15, <2>3, ChainPop
  <2>5. Chain(q, E)
    BY <1>15, <2>4, ChainSetReg, WidthsAre
  <2> HIDE DEF q
  <2>6. Leaves(q, E)
    BY <2>5, ChainLeaves
  <2> QED BY <1>15, <2>1, <2>6, DoneLeaves
<1> QED
  BY <1>4, <1>5, <1>6, <1>7, <1>9, <1>10, <1>11, <1>12, <1>13, <1>14, <1>18, <1>19, <1>20, <1>21
     DEF Stack

LEMMA QuietEnds ==
  ASSUME NEW op, NEW dest, NEW result, Do(op, dest, result), Quiet(result),
         dest \notin {"flags", "seg"} \/ op \notin {"pop", "les"}
  PROVE  PathInv' /\ EndInv'
<1>1. Leaves(result, {}) /\ {} \subseteq Free(op, dest)
  BY QuietLeaves
<1> QED BY <1>1, DoneLeaves

LEMMA QuietParts ==
  ASSUME NEW m \in Machine, Quiet(m)
  PROVE  /\ \A x : Quiet([m EXCEPT !.eip = x]) /\ Quiet([m EXCEPT !.pe = x])
         /\ \A x : Quiet([m EXCEPT !.gdt = x]) /\ Quiet([m EXCEPT !.idt = x])
         /\ \A r, v, w : Quiet(SetReg(m, r, v, w))
BY DEF Quiet, Machine, SetReg

LEMMA NearLeaves ==
  ASSUME GoodState, PathInv, Near
  PROVE  PathInv' /\ EndInv'
<1>1. cpu \in Machine /\ cpu.eip % D \in Int
  <2>1. cpu.eip \in Long
    BY FieldTypes DEF GoodState, Good
  <2> QED BY <2>1, WordsAndLongs DEF GoodState, Good
<1>2. stage = "exec" => Quiet(cpu) /\ \A x : Quiet([cpu EXCEPT !.eip = x])
  BY <1>1, QuietParts, Begins
<1>4. ASSUME NEW ofs \in Offset, Jump(ofs) \/ Jcxz(ofs) PROVE PathInv' /\ EndInv'
  <2>1. CASE Jump(ofs)
    <3>1. Do("jmp", "none", [cpu EXCEPT !.eip = Target(ofs)]) /\ stage = "exec"
      BY <2>1 DEF Jump, Do
    <3> QED BY <1>2, <3>1, QuietEnds
  <2>2. CASE Jcxz(ofs)
    <3> DEFINE q == IF Get(cpu, "cx", D) = 0 THEN [cpu EXCEPT !.eip = Target(ofs)] ELSE cpu
    <3>1. Do("jcxz", "none", q) /\ stage = "exec"
      BY <2>2 DEF Jcxz, Do
    <3>2. Quiet(q)
      BY <1>2, <3>1
    <3> HIDE DEF q
    <3> QED BY <3>1, <3>2, QuietEnds
  <2> QED BY <1>4, <2>1, <2>2
<1>5. ASSUME NEW ofs \in Offset, NEW zf \in BOOLEAN, LoopCx(ofs, zf) PROVE PathInv' /\ EndInv'
  <2> DEFINE m == SetReg(cpu, "cx", Get(cpu, "cx", D) - 1, D)
             q == IF Get(m, "cx", D) # 0 /\ zf THEN [m EXCEPT !.eip = Target(ofs)] ELSE m
  <2>1. Do("loop", "cx", q) /\ stage = "exec"
    <3>1. Do("loop", "cx", q)
      BY <1>5 DEF LoopCx
    <3> QED BY <3>1 DEF Do
  <2>2. Quiet(cpu) /\ Quiet(m)
    BY <1>1, <1>2, <2>1, QuietParts
  <2>3. "cx" \in Gpr /\ Good(cpu)
    BY DEF Gpr, GoodState
  <2>4. Get(cpu, "cx", D) \in Int
    BY <2>3, GetLong, WidthsAre
  <2>5. Get(cpu, "cx", D) - 1 \in Int
    BY <2>4, SMT
  <2>6. m \in Machine
    BY <2>3, <2>5, SetRegGood, WidthsAre DEF Good
  <2> HIDE DEF m
  <2>7. Quiet(q)
    BY <2>2, <2>6, QuietParts
  <2> HIDE DEF q
  <2> QED BY <2>1, <2>7, QuietEnds
<1>6. ASSUME NoJump \/ (\E r \in RegArg : JumpReg(r)) PROVE PathInv' /\ EndInv'
  <2>1. CASE NoJump
    <3>1. Do("jcc", "none", cpu) /\ stage = "exec"
      BY <2>1 DEF NoJump, Do
    <3> QED BY <1>2, <3>1, QuietEnds
  <2>2. ASSUME NEW r \in RegArg, JumpReg(r) PROVE PathInv' /\ EndInv'
    <3>1. Do("jmp", "none", [cpu EXCEPT !.eip = Get(cpu, r, D)]) /\ stage = "exec"
      BY <2>2 DEF JumpReg, Do
    <3> QED BY <1>2, <3>1, QuietEnds
  <2> QED BY <1>6, <2>1, <2>2
<1>7. ASSUME NEW eip, Do("call", "none", [Push(cpu, N, cpu.eip % D, W) EXCEPT !.eip = eip])
      PROVE  PathInv' /\ EndInv'
  <2> DEFINE m == Push(cpu, N, cpu.eip % D, W)
             q == [m EXCEPT !.eip = eip]
  <2>1. Chain(cpu, {"sp"})
    BY <1>7, Begins DEF Do
  <2>2. Chain(m, {"sp"})
    BY <1>1, <2>1, ChainPush, WidthsAre
  <2>3. Do("call", "none", q)
    BY <1>7
  <2> HIDE DEF m
  <2>4. Leaves(q, {"sp"})
    BY <2>2, ChainLeaves, EipLeaves DEF Chain, Good
  <2> HIDE DEF q
  <2>5. {"sp"} \subseteq Free("call", "none")
    BY DEF Free, Spoils
  <2> QED BY <2>3, <2>4, <2>5, DoneLeaves
<1>8. ASSUME NEW ofs \in Offset, CallNear(ofs) PROVE PathInv' /\ EndInv'
  BY <1>7, <1>8 DEF CallNear
<1>9. ASSUME NEW v \in Value, CallValue(v) PROVE PathInv' /\ EndInv'
  BY <1>7, <1>9 DEF CallValue
<1>10. ASSUME NEW r \in RegArg, CallReg(r) PROVE PathInv' /\ EndInv'
  BY <1>7, <1>10 DEF CallReg
<1>11. ASSUME NEW imm \in Count, RetNear(imm) PROVE PathInv' /\ EndInv'
  <2> DEFINE m == Pop(cpu, N, W)
             p == [m EXCEPT !.eip = Top(cpu, N, W)]
             v == Get(m, "sp", D) + imm
             q == SetReg(p, "sp", v, D)
  <2>1. Do("ret", imm, q) /\ stage = "exec"
    <3>1. Do("ret", imm, q)
      BY <1>11 DEF RetNear
    <3> QED BY <3>1 DEF Do
  <2>2. Chain(cpu, {"sp"})
    BY <2>1, Begins
  <2>3. Chain(m, {"sp"}) /\ Top(cpu, N, W) \in Long
    BY <2>2, ChainPop
  <2>4. "sp" \in Gpr /\ imm \in Int
    BY OperandAssumption, WordsAndLongs DEF Gpr
  <2> HIDE DEF m
  <2>5. Chain(p, {"sp"})
    BY <2>3, ChainEip
  <2>6. Get(m, "sp", D) \in Int
    BY <2>3, <2>4, GetLong, WidthsAre DEF Chain
  <2>7. v \in Int
    BY <2>4, <2>6, SMT
  <2> HIDE DEF v, p
  <2>8. Chain(q, {"sp"})
    BY <2>4, <2>5, <2>7, ChainSetReg, WidthsAre
  <2> HIDE DEF q
  <2>9. Leaves(q, {"sp"})
    BY <2>8, ChainLeaves
  <2>10. {"sp"} \subseteq Free("ret", imm) /\ "ret" \notin {"pop", "les"}
    BY DEF Free, Spoils
  <2> QED BY <2>1, <2>9, <2>10, DoneLeaves
<1> QED
  BY <1>4, <1>5, <1>6, <1>8, <1>9, <1>10, <1>11 DEF Near

LEMMA FarLeaves ==
  ASSUME GoodState, PathInv, Far
  PROVE  PathInv' /\ EndInv'
<1>1. cpu.eip % D \in Int /\ cpu.seg["cs"].sel \in Int
  BY FieldTypes, WordsAndLongs DEF GoodState, Good, SegName
<1>2. /\ Selector \subseteq Word /\ \A v \in Value : v % D \in Long
      /\ \A imm \in Count : imm \in Int
  BY OperandAssumption, WordsAndLongs
<1>3. ASSUME NEW cs \in Selector, NEW v \in Value, JumpFar(cs, v) PROVE PathInv' /\ EndInv'
  <2> DEFINE q == Goto(cpu, cs, v % D)
  <2>1. Do("jmpf", Place(cs, v % D), q) /\ stage = "exec"
    BY <1>3 DEF JumpFar, Do
  <2>2. Chain(cpu, {}) /\ Quiet(cpu)
    BY <2>1, Begins
  <2>3. Leaves(q, {})
    BY <1>2, <2>2, GotoLeaves
  <2> HIDE DEF q
  <2> QED BY <2>1, <2>3, DoneLeaves
<1> DEFINE R == {"sp", "seg"}
           F == {"sp", "flags", "seg"}
<1>4. /\ "sp" \in R /\ "seg" \in R
      /\ \A dest : R \subseteq Free("callf", dest) /\ R \subseteq Free("retf", dest)
      /\ "sp" \in F /\ "flags" \in F /\ "seg" \in F /\ \A dest : F \subseteq Free("iret", dest)
  BY DEF Free, Spoils
<1> HIDE DEF R, F
<1>5. ASSUME NEW cs \in Selector, NEW v \in Value, CallFar(cs, v) PROVE PathInv' /\ EndInv'
  <2> DEFINE m1 == Push(cpu, N, cpu.seg["cs"].sel, W)
             m2 == Push(m1, N, cpu.eip % D, W)
             q  == Goto(m2, cs, v % D)
  <2>1. Do("callf", Place(cs, v % D), q) /\ stage = "exec"
    <3>1. Do("callf", Place(cs, v % D), q)
      BY <1>5 DEF CallFar
    <3> QED BY <3>1 DEF Do
  <2>2. Chain(cpu, R)
    BY <2>1, Begins
  <2>3. Chain(m1, R)
    BY <1>1, <1>4, <2>2, ChainPush, WidthsAre
  <2> HIDE DEF m1
  <2>4. Chain(m2, R)
    BY <1>1, <1>4, <2>3, ChainPush, WidthsAre
  <2> HIDE DEF m2
  <2>5. Leaves(q, R)
    BY <1>2, <1>4, <2>4, GotoLeaves
  <2> HIDE DEF q
  <2> QED BY <1>4, <2>1, <2>5, DoneLeaves
<1>6. ASSUME NEW imm \in Count, RetFar(imm) PROVE PathInv' /\ EndInv'
  <2> DEFINE m1 == Pop(cpu, N, W)
             m2 == Pop(m1, N, W)
             v  == Get(m2, "sp", D) + imm
             m3 == SetReg(m2, "sp", v, D)
             to == Top(m1, N, W) % Lo
             q  == Goto(m3, to, Top(cpu, N, W))
  <2>1. Do("retf", imm, q) /\ stage = "exec"
    <3>1. Do("retf", imm, q)
      BY <1>6 DEF RetFar
    <3> QED BY <3>1 DEF Do
  <2>2. Chain(cpu, R) /\ "sp" \in Gpr
    BY <2>1, Begins DEF Gpr
  <2>3. Chain(m1, R) /\ Top(cpu, N, W) \in Long
    BY <1>4, <2>2, ChainPop
  <2> HIDE DEF m1
  <2>4. Chain(m2, R) /\ to \in Word
    BY <1>4, <2>3, ChainPop
  <2> HIDE DEF m2, to
  <2>5. Get(m2, "sp", D) \in Int
    BY <2>2, <2>4, GetLong, WidthsAre DEF Chain
  <2>6. v \in Int
    BY <1>2, <2>5, SMT
  <2> HIDE DEF v
  <2>7. Chain(m3, R)
    BY <1>4, <2>2, <2>4, <2>6, ChainSetReg, WidthsAre
  <2> HIDE DEF m3
  <2>8. Leaves(q, R)
    BY <1>4, <2>3, <2>4, <2>7, GotoLeaves
  <2> HIDE DEF q
  <2> QED BY <1>4, <2>1, <2>8, DoneLeaves
<1>7. ASSUME NEW op, op \in {"int", "ud"}, NEW new, Do(op, "none", Raise(cpu, new))
      PROVE  PathInv' /\ EndInv'
  <2> DEFINE q == Raise(cpu, new)
  <2>1. Chain(cpu, {}) /\ cpu \in Machine
    BY <1>7, Begins DEF Do, Good
  <2>2. q.reg = cpu.reg /\ q.seg = cpu.seg /\ q.flags = cpu.flags
    BY <2>1 DEF Raise, Machine
  <2>3. Do(op, "none", q)
    BY <1>7
  <2> HIDE DEF q
  <2>4. Leaves(q, {})
    BY <2>1, <2>2 DEF Chain, Leaves
  <2> QED BY <1>7, <2>3, <2>4, DoneLeaves
<1>8. ASSUME Undefined \/ \E n \in {3, 4} : SoftInt(n) PROVE PathInv' /\ EndInv'
  BY <1>7, <1>8 DEF Undefined, SoftInt
<1>9. ASSUME Iret PROVE PathInv' /\ EndInv'
  <2> DEFINE m1 == Pop(cpu, N, W)
             m2 == Pop(m1, N, W)
             f  == AlwaysOn(Top(m2, N, W))
             m3 == [Pop(m2, N, W) EXCEPT !.flags = f]
             to == Top(m1, N, W) % Lo
             q  == Goto(m3, to, Top(cpu, N, W))
  <2>1. Do("iret", "none", q) /\ stage = "exec"
    <3>1. Do("iret", "none", q)
      BY <1>9 DEF Iret
    <3> QED BY <3>1 DEF Do
  <2>2. Chain(cpu, F)
    BY <2>1, Begins
  <2>3. Chain(m1, F) /\ Top(cpu, N, W) \in Long
    BY <1>4, <2>2, ChainPop
  <2> HIDE DEF m1
  <2>4. Chain(m2, F) /\ to \in Word
    BY <1>4, <2>3, ChainPop
  <2> HIDE DEF m2, to
  <2>5. Chain(Pop(m2, N, W), F) /\ f \in Long
    BY <1>4, <2>4, ChainPop, FlagWords
  <2> HIDE DEF f
  <2>6. Chain(m3, F)
    BY <1>4, <2>5, ChainFlags
  <2> HIDE DEF m3
  <2>7. Leaves(q, F)
    BY <1>4, <2>3, <2>4, <2>6, GotoLeaves
  <2> HIDE DEF q
  <2> QED BY <1>4, <2>1, <2>7, DoneLeaves
<1> QED
  BY <1>3, <1>5, <1>6, <1>8, <1>9 DEF Far

LEMMA LoadsLeave ==
  ASSUME GoodState, PathInv, Loads
  PROVE  PathInv' /\ EndInv'
<1>1. RegArg \subseteq Gpr /\ DataSeg \subseteq SegName /\ Selector \subseteq Word
      /\ \A v \in Value : v \in Int
  BY OperandAssumption, WordsAndLongs DEF DataSeg, SegName
<1>2. /\ cpu \in Machine
      /\ stage = "exec" => Quiet(cpu) /\ \A R : Chain(cpu, R)
  BY Begins DEF GoodState, Good
<1>4. ASSUME NEW s \in DataSeg, NEW r \in RegArg, NEW v \in Value, NEW val \in Selector,
             LoadFar(s, r, v, val)
      PROVE  PathInv' /\ EndInv'
  <2> DEFINE m == SetReg(cpu, r, v, D)
             q == LoadSeg(m, s, val)
  <2>1. Do("les", r, q) /\ stage = "exec"
    BY <1>4 DEF LoadFar, Do
  <2>2. {r} \subseteq Free("les", r) /\ r \notin {"flags", "seg"} /\ r \in Gpr
    BY <1>1 DEF Free, Gpr
  <2>3. Chain(m, {r}) /\ Quiet(m)
    BY <1>1, <1>2, <2>1, <2>2, ChainSetReg, QuietParts, WidthsAre
  <2> HIDE DEF m
  <2>4. Leaves(q, {r})
    BY <1>1, <2>3, LoadLeaves
  <2> HIDE DEF q
  <2> QED BY <2>1, <2>2, <2>4, DoneLeaves
<1>5. ASSUME NEW s \in SegName, NEW val \in Selector, MovSeg(s, val) PROVE PathInv' /\ EndInv'
  <2> DEFINE q == LoadSeg(cpu, s, val)
  <2>1. Do("movseg", s, q) /\ stage = "exec"
    BY <1>5 DEF MovSeg, Do
  <2>2. Leaves(q, {})
    BY <1>1, <1>2, <2>1, LoadLeaves
  <2> HIDE DEF q
  <2> QED BY <2>1, <2>2, DoneLeaves
<1>6. ASSUME NEW r \in RegArg, NEW v \in Value, MovReg(r, v) PROVE PathInv' /\ EndInv'
  <2>1. Do("mov", r, SetReg(cpu, r, v, D)) /\ stage = "exec"
    BY <1>6 DEF MovReg, Do
  <2>2. Quiet(SetReg(cpu, r, v, D))
    BY <1>2, <2>1, QuietParts
  <2> QED BY <2>1, <2>2, QuietEnds
<1>7. ASSUME \/ \E pe \in BOOLEAN : SetPe(pe)
             \/ \E t \in Tables : LoadGdt(t) \/ LoadIdt(t)
      PROVE  PathInv' /\ EndInv'
  <2>1. stage = "exec" => \A x : /\ Quiet([cpu EXCEPT !.pe = x])
                                 /\ Quiet([cpu EXCEPT !.gdt = x]) /\ Quiet([cpu EXCEPT !.idt = x])
    BY <1>2, QuietParts
  <2>2. ASSUME NEW pe \in BOOLEAN, SetPe(pe) PROVE PathInv' /\ EndInv'
    <3>1. Do("lmsw", "pe", [cpu EXCEPT !.pe = pe]) /\ stage = "exec"
      BY <2>2 DEF SetPe, Do
    <3> QED BY <2>1, <3>1, QuietEnds
  <2>3. ASSUME NEW t \in Tables, LoadGdt(t) PROVE PathInv' /\ EndInv'
    <3>1. Do("lgdt", "gdt", [cpu EXCEPT !.gdt = t]) /\ stage = "exec"
      BY <2>3 DEF LoadGdt, Do
    <3> QED BY <2>1, <3>1, QuietEnds
  <2>4. ASSUME NEW t \in Tables, LoadIdt(t) PROVE PathInv' /\ EndInv'
    <3>1. Do("lidt", "idt", [cpu EXCEPT !.idt = t]) /\ stage = "exec"
      BY <2>4 DEF LoadIdt, Do
    <3> QED BY <2>1, <3>1, QuietEnds
  <2> QED BY <1>7, <2>2, <2>3, <2>4
<1> QED
  BY <1>4, <1>5, <1>6, <1>7 DEF Loads

LEMMA PathFirst == Init => PathInv /\ EndInv
BY DEF Init, PathInv, EndInv, Quiet, Calm

LEMMA PathNext == GoodState /\ PathInv /\ EndInv /\ [Next]_vars => PathInv' /\ EndInv'
<1> SUFFICES ASSUME GoodState, PathInv, EndInv, [Next]_vars
             PROVE  PathInv' /\ EndInv'
  OBVIOUS
<1>1. cpu \in Machine /\ Good(cpu)
  BY DEF GoodState, Good
<1>2. ASSUME NEW prefix \in BOOLEAN, Fetch(prefix) PROVE PathInv' /\ EndInv'
  <2> DEFINE e == Written(cpu.eip, cpu.eip + 1, Width(cpu.seg["cs"].acc.big))
  <2>1. /\ stage = "top" /\ stage' = "exec" /\ was' = Saved(cpu)
        /\ cpu' = [cpu EXCEPT !.eip = e]
    BY <1>2 DEF Fetch
  <2> HIDE DEF e
  <2>2. Good(cpu')
    BY <1>2, FetchGood
  <2>3. /\ cpu'.reg = was'.reg /\ cpu'.seg = was'.seg /\ cpu'.pe = was'.pe
        /\ cpu'.flags = was'.flags /\ cpu'.intr = cpu.intr
    BY <1>1, <2>1 DEF Machine, Saved
  <2>4. Quiet(cpu)
    BY <2>1 DEF PathInv
  <2>5. Chain(cpu, {})' /\ Quiet(cpu)'
    <3>1. /\ (cpu.seg = was.seg)' /\ (cpu.pe = was.pe)'
          /\ (\A r \in Gpr \ {} : cpu.reg[r] = was.reg[r])'
          /\ (cpu.flags = was.flags)' /\ Quiet(cpu)'
      BY <2>3, <2>4 DEF Quiet
    <3> QED BY <2>2, <3>1 DEF Chain, Quiet
  <2> QED BY <2>1, <2>5 DEF PathInv, EndInv
<1>3. CASE Stack
  BY <1>3, StackLeaves
<1>4. CASE Near
  BY <1>4, NearLeaves
<1>5. CASE Far
  BY <1>5, FarLeaves
<1>6. CASE Loads
  BY <1>6, LoadsLeave
<1>7. CASE NoIntr
  BY <1>7 DEF NoIntr, PathInv, EndInv, Quiet
<1>8. CASE Handled
  <2>1. stage' = "top" /\ cpu' = [cpu EXCEPT !.intr = None]
    BY <1>8 DEF Handled
  <2>2. cpu'.intr = None
    BY <1>1, <2>1 DEF Machine
  <2> QED BY <2>1, <2>2 DEF PathInv, EndInv, Quiet
<1>9. CASE Deliver
  <2>1. stage' = "top" /\ \E m : cpu' = [m EXCEPT !.intr = None]
    BY <1>9 DEF Deliver
  <2>2. cpu' \in Machine
    BY <1>9, DeliverGood DEF Good
  <2>3. cpu'.intr = None
    BY <2>1, <2>2 DEF Machine
  <2> QED BY <2>1, <2>3 DEF PathInv, EndInv, Quiet
<1>10. CASE UNCHANGED vars
  <2>1. UNCHANGED <<stage, cpu, ins, was>>
    BY <1>10 DEF vars
  <2> QED BY <2>1 DEF PathInv, EndInv, Quiet, Chain, Leaves, StackFault, Good
<1> QED
  BY <1>2, <1>3, <1>4, <1>5, <1>6, <1>7, <1>8, <1>9, <1>10 DEF Next

(* Where a fault restarts an instruction, the registers, the flags and the *)
(* segments are those it found, but for what FaultLeaves names: provided   *)
(* no interrupt is pending when the host starts the program.               *)
THEOREM FaultsLeaveTheRest ==
  (\A m \in Machines : m.intr = None) => (Spec => []FaultLeaves)
<1> SUFFICES ASSUME \A m \in Machines : m.intr = None
             PROVE  Spec => []FaultLeaves
  OBVIOUS
<1>1. GoodState /\ EndInv => FaultLeaves
  <2> SUFFICES ASSUME EndInv, stage = "intr", cpu.intr # None, cpu.intr.restart
               PROVE  FaultLeaves
    BY DEF FaultLeaves
  <2>1. /\ Leaves(cpu, Free(ins.op, ins.dest)) /\ Calm
        /\ ins.dest \notin {"flags", "seg"} \/ ins.op \notin {"pop", "les"}
    BY DEF EndInv, Calm
  <2>2. /\ \A r \in Gpr : r \in Free(ins.op, ins.dest) =>
             r \in Spoils(ins.op) \/ (ins.op \in {"pop", "les"} /\ r = ins.dest)
        /\ "flags" \in Free(ins.op, ins.dest) => ins.op \in {"popf", "iret"}
        /\ "seg" \in Free(ins.op, ins.dest) => ins.op \in {"popseg", "callf", "retf", "iret"}
    BY <2>1 DEF Free, Spoils, Gpr
  <2> QED BY <2>1, <2>2 DEF Leaves, FaultLeaves
<1> QED
  BY <1>1, InitGood, NextGood, PathFirst, PathNext, PTL DEF Spec

-----------------------------------------------------------------------------
(* The stack.  A frame is undone by what pops it: the items are where they *)
(* were pushed, for all frames that are open, and no push reaches them.    *)

(* A remainder is the same after the number is cut to it. *)
LEMMA DivModIs ==
  ASSUME NEW q \in Int, NEW w \in Nat \ {0}, NEW z \in 0 .. (w - 1)
  PROVE  (w * q + z) % w = z
<1> DEFINE x == w * q + z
           p == x \div w
           y == x % w
<1>1. x \in Int /\ p \in Int /\ y \in 0 .. (w - 1) /\ x = w * p + y
  BY DivMod
<1>2. p = q
  BY DivUnique
<1> HIDE DEF p, y
<1> QED BY <1>1, <1>2, SMT DEF x, y

LEMMA ModPlus ==
  ASSUME NEW a \in Int, NEW b \in Int, NEW w \in Nat \ {0}
  PROVE  ((a % w) + b) % w = (a + b) % w
<1> DEFINE p == a \div w
           x == a % w
           r == (x + b) \div w
           y == (x + b) % w
<1>1. p \in Int /\ x \in 0 .. (w - 1) /\ a = w * p + x
  BY DivMod
<1>2. x + b \in Int
  BY <1>1, SMT
<1>3. r \in Int /\ y \in 0 .. (w - 1) /\ x + b = w * r + y
  BY <1>2, DivMod
<1> HIDE DEF p, r, y, x
<1>4. a + b = w * (p + r) + y /\ p + r \in Int
  BY <1>1, <1>3, SMT
<1>5. (w * (p + r) + y) % w = y
  BY <1>3, <1>4, DivModIs
<1> QED
  BY <1>4, <1>5 DEF x, y

LEMMA WidthsPositive == \A w \in Widths : w \in Nat \ {0} /\ w =< Full /\ w >= 16
BY Sizes, SMT DEF Widths

(* A register written in its lower part and seen again *)
LEMMA WrittenIs ==
  ASSUME NEW r \in Long, NEW w \in Widths
  PROVE  /\ \A v \in Int : Seen(Written(r, v, w), w) = v % w
         /\ \A u, v \in Int : Written(Written(r, u, w), v, w) = Written(r, v, w)
         /\ \A v \in Int : Written(r, v % w, w) = Written(r, v, w)
         /\ \A v \in Int : v % w = Seen(r, w) => Written(r, v, w) = r
<1>1. w \in Nat \ {0} /\ r \in Int
  BY WidthsPositive, Sizes, SMT DEF Long
<1> DEFINE q == r \div w
           x == r % w
<1>2. q \in Int /\ x \in 0 .. (w - 1) /\ r = w * q + x
  BY <1>1, DivMod
<1>3. \A v \in Int : v % w \in 0 .. (w - 1) /\ (v % w) % w = v % w
  <2> TAKE v \in Int
  <2>1. v % w \in 0 .. (w - 1)
    BY <1>1, DivMod
  <2>2. (w * 0 + (v % w)) % w = v % w
    BY <1>1, <2>1, DivModIs
  <2>3. \A y \in Int : w * 0 + y = y
    BY <1>1, SMT
  <2> QED BY <2>1, <2>2, <2>3
<1>4. \A v \in Int : Written(r, v, w) = w * q + (v % w)
  <2> TAKE v \in Int
  <2>1. Written(r, v, w) = (r - x) + (v % w)
    BY DEF Written
  <2> HIDE DEF q, x
  <2> QED BY <1>1, <1>2, <1>3, <2>1, SMT
<1> HIDE DEF q
<1>5. \A v \in Int : Written(r, v, w) \in Long
  BY WrittenLong
<1>6. \A v \in Int : Seen(Written(r, v, w), w) = v % w
  <2> TAKE v \in Int
  <2>1. (w * q + (v % w)) % w = v % w
    BY <1>1, <1>2, <1>3, DivModIs
  <2> QED BY <1>4, <2>1 DEF Seen
<1>7. \A u, v \in Int : Written(Written(r, u, w), v, w) = Written(r, v, w)
  <2> TAKE u, v \in Int
  <2>1. Written(Written(r, u, w), v, w) = (Written(r, u, w) - (u % w)) + (v % w)
    BY <1>6 DEF Written, Seen
  <2>2. u % w \in Int /\ v % w \in Int /\ w * q \in Int
    BY <1>1, <1>2, <1>3, SMT
  <2>3. Written(r, u, w) = w * q + (u % w) /\ Written(r, v, w) = w * q + (v % w)
    BY <1>4
  <2>4. \A a, b, c \in Int : ((a + b) - b) + c = a + c
    BY SMT
  <2> QED BY <2>1, <2>2, <2>3, <2>4
<1>8. \A v \in Int : Written(r, v % w, w) = Written(r, v, w)
  BY <1>3 DEF Written
<1>9. \A v \in Int : v % w = Seen(r, w) => Written(r, v, w) = r
  BY <1>2, <1>4 DEF Seen
<1> QED
  BY <1>6, <1>7, <1>8, <1>9

(* What a store changes *)
NewMem(m, s, ofs, n, v) ==
  [a \in Long |-> CASE a = Linear(m, s, ofs)              -> v % Lo
                    [] n = 2 /\ a = Linear(m, s, ofs + 1) -> (v \div Lo) % Hi
                    [] OTHER                              -> m.mem[a]]

LEMMA StoredIs ==
  ASSUME NEW m, Good(m), NEW s \in SegName, NEW ofs, NEW n, NEW v \in Int,
         NEW q, q = Stored(m, s, ofs, n, v)
  PROVE  /\ Good(q) /\ q.reg = m.reg /\ q.seg = m.seg /\ q.pe = m.pe /\ q.gdt = m.gdt
         /\ q.eip = m.eip /\ q.flags = m.flags
         /\ q.mem = NewMem(m, s, ofs, n, v)
<1> DEFINE c == Check(m, s, ofs, n)
           f == NewMem(m, s, ofs, n, v)
<1>1. Good(q) /\ q.reg = m.reg
  BY StoredGood
<1>2. c \in Machine /\ m \in Machine
  BY CheckGood DEF Good
<1>3. c.seg = m.seg /\ c.pe = m.pe /\ c.gdt = m.gdt /\ c.eip = m.eip /\ c.flags = m.flags
  BY <1>2 DEF Check, Raise, Machine
<1>4. q = [c EXCEPT !.mem = f]
  BY DEF Stored, NewMem
<1> HIDE DEF c, f
<1>5. q.seg = c.seg /\ q.pe = c.pe /\ q.gdt = c.gdt /\ q.eip = c.eip
      /\ q.flags = c.flags /\ q.mem = f
  BY <1>2, <1>4 DEF Machine
<1> QED
  BY <1>1, <1>3, <1>5 DEF f

(* Places less than a turn of the address apart *)
LEMMA NoMultiple ==
  ASSUME NEW w \in Nat \ {0}, NEW z \in Int, NEW d \in 1 .. (w - 1)
  PROVE  w * z # d
<1>1. CASE z =< 0
  <2>1. w * z =< 0
    BY <1>1, SMT
  <2> QED BY <2>1, SMT
<1>2. CASE z >= 1
  <2>1. w * z >= w
    BY <1>2, SMT
  <2> QED BY <2>1, SMT
<1> QED
  BY <1>1, <1>2, SMT

LEMMA CellsApart ==
  ASSUME NEW base \in Int, NEW x \in 0 .. Full, NEW y \in 0 .. Full,
         (base + x) % Full = (base + y) % Full
  PROVE  x = y \/ x = y + Full \/ y = x + Full
<1>1. Full \in Nat \ {0}
  BY Sizes
<1> DEFINE p == (base + x) \div Full
           r == (base + y) \div Full
           z == (base + x) % Full
<1>2. base + x \in Int /\ base + y \in Int
  BY <1>1, SMT
<1>3. p \in Int /\ r \in Int /\ z \in Int /\ base + x = Full * p + z /\ base + y = Full * r + z
  BY <1>1, <1>2, DivMod
<1> HIDE DEF p, r, z
<1>4. x - y = Full * (p - r) /\ y - x = Full * (r - p) /\ p - r \in Int /\ r - p \in Int
  BY <1>1, <1>3, SMT
<1>5. CASE p - r >= 2
  <2>1. Full * (p - r) >= Full * 2
    BY <1>1, <1>4, <1>5, SMT
  <2> QED BY <1>1, <1>4, <2>1, SMT
<1>6. CASE r - p >= 2
  <2>1. Full * (r - p) >= Full * 2
    BY <1>1, <1>4, <1>6, SMT
  <2> QED BY <1>1, <1>4, <2>1, SMT
<1>7. CASE p - r = 1
  BY <1>1, <1>4, <1>7, SMT
<1>8. CASE r - p = 1
  BY <1>1, <1>4, <1>8, SMT
<1>9. CASE p = r
  BY <1>1, <1>4, <1>9, SMT
<1> QED
  BY <1>3, <1>5, <1>6, <1>7, <1>8, <1>9, SMT

(* Cell i of what is b words below s is not cell j of what is p below s.    *)
Clear(base, s, b, p, w, i, j, k, n) ==
  (base + (((s - b) % w) + i)) % Full # (base + (((s - p) % w) + j)) % Full

(* Two items on the stack, b and p words below a place s: the lower one    *)
(* ends before the upper one, and both are within one turn of SP.          *)
LEMMA PlacesApart ==
  ASSUME NEW w \in Widths, NEW s \in Int, NEW b \in Int, NEW p \in Int,
         NEW k \in {1, 2}, NEW n \in {1, 2}, n =< p - b, (p - b) + k =< w,
         NEW base \in Int, NEW i \in 0 .. (k - 1), NEW j \in 0 .. (n - 1)
  PROVE  Clear(base, s, b, p, w, i, j, k, n)
<1>1. w \in Nat \ {0} /\ w =< Full /\ Full \in Nat
  BY WidthsPositive, Sizes
<1> DEFINE x == (s - b) % w
           y == (s - p) % w
           e == (s - b) \div w
           f == (s - p) \div w
<1>2. s - b \in Int /\ s - p \in Int
  BY SMT
<1>3. /\ x \in 0 .. (w - 1) /\ e \in Int /\ s - b = w * e + x
      /\ y \in 0 .. (w - 1) /\ f \in Int /\ s - p = w * f + y
  BY <1>1, <1>2, DivMod
<1> HIDE DEF x, y, e, f
<1>4. x + i \in 0 .. Full /\ y + j \in 0 .. Full
  BY <1>1, <1>3, SMT
<1> DEFINE d == ((p - b) + i) - j
<1>5. d \in 1 .. (w - 1)
  BY <1>1, SMT
<1>6. d = w * (e - f) + ((x + i) - (y + j)) /\ e - f \in Int
  <2>1. w * (e - f) = w * e - w * f /\ w * e \in Int /\ w * f \in Int
    BY <1>1, <1>3, SMT
  <2> QED BY <1>1, <1>3, <2>1, SMT
<1> HIDE DEF d
<1>7. SUFFICES ASSUME (base + (x + i)) % Full = (base + (y + j)) % Full PROVE FALSE
  BY DEF x, y, Clear
<1>8. \/ x + i = y + j \/ x + i = (y + j) + Full \/ y + j = (x + i) + Full
  BY <1>4, <1>7, CellsApart
<1>9. CASE x + i = y + j
  <2>1. d = w * (e - f)
    BY <1>1, <1>3, <1>6, <1>9, SMT
  <2> QED BY <1>1, <1>5, <1>6, <2>1, NoMultiple
<1>10. CASE x + i = (y + j) + Full
  <2>1. w = Full
    BY <1>1, <1>3, <1>10, Sizes, SMT DEF Widths
  <2>2. d = w * ((e - f) + 1) /\ (e - f) + 1 \in Int
    <3>1. w * ((e - f) + 1) = w * (e - f) + w
      BY <1>1, <1>3, SMT
    <3> QED BY <1>1, <1>3, <1>6, <1>10, <2>1, <3>1, SMT
  <2> QED BY <1>1, <1>5, <2>2, NoMultiple
<1>11. CASE y + j = (x + i) + Full
  <2>1. w = Full
    BY <1>1, <1>3, <1>11, Sizes, SMT DEF Widths
  <2>2. d = w * ((e - f) - 1) /\ (e - f) - 1 \in Int
    <3>1. w * ((e - f) - 1) = w * (e - f) - w
      BY <1>1, <1>3, SMT
    <3> QED BY <1>1, <1>3, <1>6, <1>11, <2>1, <3>1, SMT
  <2> QED BY <1>1, <1>5, <2>2, NoMultiple
<1> QED
  BY <1>8, <1>9, <1>10, <1>11

LEMMA NewMemAt ==
  ASSUME NEW m, NEW s, NEW ofs, NEW n, NEW v, NEW c \in Long
  PROVE  /\ c = Linear(m, s, ofs) /\ (n = 2 => c # Linear(m, s, ofs + 1)) =>
              NewMem(m, s, ofs, n, v)[c] = v % Lo
         /\ c # Linear(m, s, ofs) /\ n = 2 /\ c = Linear(m, s, ofs + 1) =>
              NewMem(m, s, ofs, n, v)[c] = (v \div Lo) % Hi
         /\ c # Linear(m, s, ofs) /\ (n = 2 => c # Linear(m, s, ofs + 1)) =>
              NewMem(m, s, ofs, n, v)[c] = m.mem[c]
BY DEF NewMem

(* What is stored is fetched again. *)
LEMMA StoredBack ==
  ASSUME NEW m, Good(m), NEW s \in SegName, NEW ofs \in Int, NEW n \in {1, 2},
         NEW v \in 0 .. (Width(n = 2) - 1)
  PROVE  Fetched(Stored(m, s, ofs, n, v), s, ofs, n) = v
<1> DEFINE q == Stored(m, s, ofs, n, v)
           a == Linear(m, s, ofs)
           b == Linear(m, s, ofs + 1)
<1>1. Lo \in Nat \ {0} /\ Hi \in Nat \ {0} /\ Full = Lo * Hi /\ Lo >= 16 /\ Full >= 16
  BY Sizes, SMT DEF Full
<1>2. v \in Int /\ v >= 0 /\ ofs + 1 \in Int
  <2>1. Width(n = 2) \in Int
    BY <1>1 DEF Width
  <2> QED BY <2>1, SMT
<1> HIDE DEF q
<1>3. q.seg = m.seg /\ q.mem = NewMem(m, s, ofs, n, v)
  BY <1>2, StoredIs DEF q
<1>4. a \in Long /\ b \in Long
  BY <1>2, LinearLong
<1>5. Linear(q, s, ofs) = a /\ Linear(q, s, ofs + 1) = b
  BY <1>3 DEF Linear
<1>9. a # b
  <2>1. m.seg[s].base \in Int
    <3>1. m.seg[s].base \in Long
      BY FieldTypes DEF Good
    <3> QED BY <3>1, Sizes, SMT DEF Long
  <2>2. (m.seg[s].base + ofs) + 0 \in Int /\ (m.seg[s].base + ofs) + 1 = m.seg[s].base + (ofs + 1)
        /\ (m.seg[s].base + ofs) + 0 = m.seg[s].base + ofs /\ m.seg[s].base + ofs \in Int
    BY <2>1, SMT
  <2>3. 0 \in 0 .. Full /\ 1 \in 0 .. Full /\ 0 # 1 /\ 0 # 1 + Full /\ 1 # 0 + Full
    BY <1>1, SMT
  <2> QED BY <2>2, <2>3, CellsApart DEF Linear
<1>6. q.mem[a] = v % Lo
  BY <1>3, <1>4, <1>9, NewMemAt
<1>7. CASE n = 1
  <2>1. v \in 0 .. (Lo - 1)
    BY <1>7 DEF Width
  <2>2. v % Lo = v
    BY <1>1, <2>1, SMT
  <2> QED BY <1>2, <1>5, <1>6, <1>7, <2>2, SMT DEF Fetched, q
<1>8. CASE n = 2
  <2>1. v \in 0 .. (Full - 1)
    BY <1>8 DEF Width
  <2>3. q.mem[b] = (v \div Lo) % Hi
    BY <1>3, <1>4, <1>8, <1>9, NewMemAt
  <2> DEFINE x == v % Lo
             y == v \div Lo
  <2>4. x \in 0 .. (Lo - 1) /\ y \in Int /\ v = Lo * y + x
    BY <1>1, <1>2, DivMod
  <2> HIDE DEF x, y
  <2>5. y \in 0 .. (Hi - 1)
    <3>1. CASE y < 0
      <4>1. Lo * y =< Lo * (-1) /\ Lo * (-1) = -Lo
        BY <1>1, <2>4, <3>1, SMT
      <4> QED BY <1>1, <1>2, <2>4, <4>1, SMT
    <3>2. CASE y >= Hi
      <4>1. Lo * y >= Lo * Hi
        BY <1>1, <2>4, <3>2, SMT
      <4> QED BY <1>1, <2>1, <2>4, <4>1, SMT
    <3> QED BY <2>4, <3>1, <3>2, <1>1, SMT
  <2>6. y % Hi = y
    BY <1>1, <2>5, SMT
  <2>7. (y % Hi) % Hi = y
    BY <2>6
  <2>8. Fetched(q, s, ofs, n) = x + Lo * ((y % Hi) % Hi)
    <3>1. Fetched(q, s, ofs, n) = q.mem[a] + Lo * (q.mem[b] % Hi)
      BY <1>5, <1>8 DEF Fetched
    <3> QED BY <1>6, <2>3, <3>1 DEF x, y
  <2>9. x + Lo * y = v
    BY <1>1, <2>4, <2>5, SMT
  <2> QED BY <2>7, <2>8, <2>9, Zenon DEF q
<1> QED
  BY <1>7, <1>8 DEF q

Apart(m, s, a, k, b, n) ==
  \A i \in 0 .. (k - 1), j \in 0 .. (n - 1) : Linear(m, s, a + i) # Linear(m, s, b + j)

(* ... and what is stored elsewhere does not change what is fetched. *)
LEMMA StoredApart ==
  ASSUME NEW m, Good(m), NEW s \in SegName, NEW a \in Int, NEW b \in Int, NEW n \in {1, 2},
         NEW k \in {1, 2}, NEW v \in Int, Apart(m, s, a, k, b, n)
  PROVE  Fetched(Stored(m, s, b, n, v), s, a, k) = Fetched(m, s, a, k)
<1> DEFINE q == Stored(m, s, b, n, v)
<1> HIDE DEF q
<1>1. q.seg = m.seg /\ q.mem = NewMem(m, s, b, n, v)
  BY StoredIs DEF q
<1>2. ASSUME NEW i \in 0 .. (k - 1)
      PROVE  q.mem[Linear(m, s, a + i)] = m.mem[Linear(m, s, a + i)]
  <2> DEFINE c == Linear(m, s, a + i)
  <2>1. a + i \in Int /\ b + 0 = b /\ 0 \in 0 .. (n - 1) /\ (n = 2 => 1 \in 0 .. (n - 1))
    BY SMT
  <2>2. c \in Long
    BY <2>1, LinearLong
  <2>3. c # Linear(m, s, b) /\ (n = 2 => c # Linear(m, s, b + 1))
    BY <2>1 DEF Apart
  <2> HIDE DEF c
  <2> QED BY <1>1, <2>2, <2>3, NewMemAt DEF c
<1>3. a + 0 = a /\ 0 \in 0 .. (k - 1) /\ (k = 2 => 1 \in 0 .. (k - 1))
  BY SMT
<1>4. q.mem[Linear(m, s, a)] = m.mem[Linear(m, s, a)]
  BY <1>2, <1>3
<1>5. k = 2 => q.mem[Linear(m, s, a + 1)] = m.mem[Linear(m, s, a + 1)]
  BY <1>2, <1>3
<1>6. Linear(q, s, a) = Linear(m, s, a) /\ Linear(q, s, a + 1) = Linear(m, s, a + 1)
  BY <1>1 DEF Linear
<1>7. CASE k = 1
  BY <1>4, <1>6, <1>7, Zenon DEF Fetched, q
<1>8. CASE k = 2
  BY <1>4, <1>5, <1>6, <1>8 DEF Fetched, q
<1> QED
  BY <1>7, <1>8

(* What is b words below the place s, in words of the stack of width w *)
Laid(m, s, b, k, w) == Fetched(m, "ss", (s - b) % w, k)

(* SP is p words below where it was in r. *)
Down(m, r, p, w) == m.reg["sp"] = Written(r, Seen(r, w) - p, w)

(* push_word(), push_long(): the value lies on top, and what lies above it *)
(* stays.                                                                  *)
LEMMA PushIs ==
  ASSUME NEW m, Good(m), NEW n \in {1, 2}, NEW v \in Int, NEW w \in Widths,
         NEW r \in Long, NEW p \in Int, Down(m, r, p, w),
         NEW q, q = Push(m, n, v, w)
  PROVE  /\ Good(q) /\ q.seg = m.seg /\ q.pe = m.pe /\ q.gdt = m.gdt
         /\ Down(q, r, p + n, w)
         /\ \A x \in Gpr \ {"sp"} : q.reg[x] = m.reg[x]
         /\ v \in 0 .. (Width(n = 2) - 1) => Laid(q, Seen(r, w), p + n, n, w) = v
         /\ \A b \in Int, k \in {1, 2} : b =< p /\ ((p + n) - b) + k =< w =>
              Laid(q, Seen(r, w), b, k, w) = Laid(m, Seen(r, w), b, k, w)
<1> DEFINE sp == m.reg["sp"]
           s  == Seen(r, w)
           d  == p + n
           m1 == SetReg(m, "sp", Get(m, "sp", w) - n, w)
           o  == Get(m1, "sp", w)
<1>0. s \in Int /\ w \in Nat \ {0} /\ d \in Int
  BY WidthsPositive, SeenLong, Sizes, SMT DEF Long
<1>14. sp = Written(r, s - p, w)
  BY DEF Down
<1>15. (p + n) = d /\ Seen(r, w) = s
  OBVIOUS
<1>1. w \in Nat \ {0} /\ "sp" \in Gpr /\ "ss" \in SegName /\ m \in Machine
      /\ s - p \in Int /\ s - d \in Int /\ (s - p) + (-n) = s - d /\ -n \in Int
  <2>1. s - p \in Int /\ s - d \in Int /\ (s - p) + (-n) = s - d /\ -n \in Int
    <3> HIDE DEF s
    <3> QED BY <1>0, SMT
  <2> QED BY <1>0, <2>1 DEF Gpr, SegName, Good
<1>2. sp \in Long /\ m.reg \in [Gpr -> Long]
  BY <1>1, FieldTypes
<1>3. Get(m, "sp", w) \in Int
  BY <1>1, GetLong
<1>4. Get(m, "sp", w) - n \in Int /\ Get(m, "sp", w) - n = Get(m, "sp", w) + (-n)
  BY <1>3, SMT
<1>5. (Get(m, "sp", w) - n) % w = (s - d) % w
  <2>1. (((s - p) % w) + (-n)) % w = ((s - p) + (-n)) % w
    BY <1>1, ModPlus
  <2>2. Seen(sp, w) = (s - p) % w
    <3> HIDE DEF s, sp
    <3> QED BY <1>1, <1>14, WrittenIs
  <2> HIDE DEF s, d
  <2> QED BY <1>1, <1>4, <2>1, <2>2 DEF Get
<1> HIDE DEF s, d
<1>6. Written(sp, Get(m, "sp", w) - n, w) = Written(sp, s - d, w)
  BY <1>5 DEF Written
<1>7. /\ Good(m1) /\ m1.seg = m.seg /\ m1.mem = m.mem /\ m1.pe = m.pe /\ m1.gdt = m.gdt
      /\ m1.reg = [m.reg EXCEPT !["sp"] = Written(sp, s - d, w)]
  <2>1. Good(m1)
    BY <1>1, <1>4, SetRegGood
  <2>2. m1 = [m EXCEPT !.reg["sp"] = Written(sp, s - d, w)]
    BY <1>6, ZenonT(60) DEF SetReg
  <2> HIDE DEF m1, sp
  <2> QED BY <1>1, <2>1, <2>2 DEF Machine
<1>8. o = (s - d) % w
  <2>1. m1.reg["sp"] = Written(sp, s - d, w)
    BY <1>1, <1>2, <1>7
  <2> HIDE DEF m1, sp
  <2>2. Seen(Written(sp, s - d, w), w) = (s - d) % w
    BY <1>1, <1>2, WrittenIs
  <2> QED BY <2>1, <2>2 DEF Get
<1>9. q = Stored(m1, "ss", o, n, v)
  BY ZenonT(60) DEF Push
<1> HIDE DEF m1, o
<1>10. o \in Int /\ (s - d) % w \in Int
  BY <1>1, <1>8, DivMod
<1>11. Good(q) /\ q.seg = m1.seg /\ q.pe = m1.pe /\ q.gdt = m1.gdt /\ q.reg = m1.reg
  BY <1>1, <1>7, <1>9, StoredIs
<1>12. v \in 0 .. (Width(n = 2) - 1) => Laid(q, s, d, n, w) = v
  BY <1>1, <1>7, <1>8, <1>9, <1>10, StoredBack DEF Laid
<1>13. ASSUME NEW b \in Int, NEW k \in {1, 2}, b =< p, (d - b) + k =< w
       PROVE  Laid(q, s, b, k, w) = Laid(m, s, b, k, w)
  <2> DEFINE a == (s - b) % w
  <2>1. a \in Int
    <3>1. s - b \in Int
      BY <1>0, SMT
    <3> QED BY <1>1, <3>1, DivMod
  <2>2. m1.seg["ss"].base \in Int
    <3>1. m1.seg["ss"].base \in Long
      BY <1>1, <1>7, FieldTypes DEF Good
    <3> QED BY <3>1, Sizes, SMT DEF Long
  <2>3. ASSUME NEW i \in 0 .. (k - 1), NEW j \in 0 .. (n - 1)
        PROVE  Linear(m1, "ss", a + i) # Linear(m1, "ss", o + j)
    <3>1. (m1.seg["ss"].base + (((s - b) % w) + i)) % Full
            # (m1.seg["ss"].base + (((s - d) % w) + j)) % Full
      <4>1. n =< d - b
        BY <1>0, <1>13, SMT DEF d
      <4>2. Clear(m1.seg["ss"].base, s, b, d, w, i, j, k, n)
        BY <1>0, <1>13, <2>2, <4>1, PlacesApart
      <4> QED BY <4>2 DEF Clear
    <3> QED BY <1>8, <3>1, Zenon DEF Linear
  <2> HIDE DEF a
  <2>4. Fetched(q, "ss", a, k) = Fetched(m1, "ss", a, k)
    <3>1. Fetched(Stored(m1, "ss", o, n, v), "ss", a, k) = Fetched(m1, "ss", a, k)
      <4>1. Apart(m1, "ss", a, k, o, n)
        BY <2>3 DEF Apart
      <4>2. Good(m1) /\ "ss" \in SegName /\ o \in Int
        BY <1>1, <1>7, <1>10
      <4> QED BY <2>1, <4>1, <4>2, StoredApart
    <3> QED BY <1>9, <3>1
  <2>5. Fetched(m1, "ss", a, k) = Fetched(m, "ss", a, k)
    BY <1>7 DEF Fetched, Linear
  <2> QED BY <2>4, <2>5 DEF Laid, a
<1>16. q.reg["sp"] = Written(r, s - d, w)
  <2>1. q.reg["sp"] = Written(sp, s - d, w)
    BY <1>1, <1>2, <1>7, <1>11
  <2> HIDE DEF sp
  <2> QED BY <1>1, <1>14, <2>1, WrittenIs, ZenonT(60)
<1>17. \A x \in Gpr \ {"sp"} : q.reg[x] = m.reg[x]
  BY <1>2, <1>7, <1>11
<1>18. Down(q, r, p + n, w)
  BY <1>16 DEF Down, s, d
<1> HIDE DEF sp
<1> QED
  BY <1>7, <1>11, <1>12, <1>13, <1>17, <1>18, Zenon DEF s, d

(* Frames, and the items of one in the order in which they were pushed *)
Kinds  == {"push", "all", "flags", "near", "far", "intr", "enter"}
Found  == [reg : [Gpr -> Long], seg : [SegName -> Reg], eip : Long, flags : Long, pe : BOOLEAN]
Frames == [kind : Kinds, n : {1, 2}, w : Widths, val : Long, before : Found, sp : Long,
           below : Nat, height : Nat]

AllRegs == <<"ax", "cx", "dx", "bx", "sp", "bp", "si", "di">>

Amount(f) ==
  CASE f.kind = "all" -> 8 [] f.kind = "far" -> 2 [] f.kind = "intr" -> 3 [] OTHER -> 1

Item(f, k) ==
  CASE f.kind \in {"push", "flags"} -> f.val
    [] f.kind = "all"   -> Seen(f.before.reg[AllRegs[k]], Width(f.n = 2))
    [] f.kind = "near"  -> f.before.eip % Width(f.n = 2)
    [] f.kind = "far"   -> IF k = 1 THEN f.before.seg["cs"].sel ELSE f.before.eip % Width(f.n = 2)
    [] f.kind = "intr"  -> IF k = 1 THEN f.before.flags % Width(f.n = 2)
                           ELSE IF k = 2 THEN f.before.seg["cs"].sel
                           ELSE f.before.eip % Width(f.n = 2)
    [] f.kind = "enter" -> Seen(f.before.reg["bp"], f.w)

SsWidth(m) == Width(m.seg["ss"].acc.big)
Sp(f)      == f.before.reg["sp"]
Extent(f)  == f.height - f.below

(* A flag word as a program sees it has the bit that is always on. *)
On(v) == (v \div 2) % 2 = 1

(* The frame is in the stack, which is deep words deep at sp; but for the  *)
(* locals of ENTER its items are all that is in it.                        *)
Shape(f) ==
  /\ f.val \in 0 .. (Width(f.n = 2) - 1)
  /\ f.kind = "flags" => On(f.val)
  /\ f.kind = "enter" => f.w = Width(f.n = 2)
  /\ f.kind # "enter" => Extent(f) = Amount(f) * f.n
  /\ Extent(f) >= Amount(f) * f.n
  /\ f.sp = Written(Sp(f), Seen(Sp(f), f.w) - Extent(f), f.w)

Items(f, m) ==
  \A k \in 1 .. Amount(f) : Laid(m, Seen(Sp(f), f.w), k * f.n, f.n, f.w) = Item(f, k)

Lies(f, m, sp, deep) ==
  /\ f.w = SsWidth(m) /\ f.before.seg["ss"] = m.seg["ss"]
  /\ Shape(f) /\ f.height =< deep
  /\ Seen(Sp(f), f.w) = (Seen(sp, f.w) + (deep - f.below)) % f.w
  /\ Items(f, m)

(* All frames are, one on top of the other. *)
Deep(fs) == IF fs = <<>> THEN 0 ELSE fs[Len(fs)].height

Joined(fs) ==
  /\ \A j \in 1 .. Len(fs) :
       IF j = 1 THEN fs[j].below = 0
       ELSE fs[j].below = fs[j - 1].height /\ Sp(fs[j]) = fs[j - 1].sp
  /\ \A i, j \in 1 .. Len(fs) : i < j => fs[i].height =< fs[j].below

Stacked(fs, m, sp) ==
  /\ fs \in Seq(Frames) /\ Deep(fs) < SsWidth(m)
  /\ fs # <<>> => sp = fs[Len(fs)].sp
  /\ \A j \in 1 .. Len(fs) : Lies(fs[j], m, sp, Deep(fs))
  /\ Joined(fs)

LEMMA FrameTypes ==
  ASSUME NEW f \in Frames
  PROVE  /\ f.n \in {1, 2} /\ f.w \in Widths /\ f.val \in Long /\ f.sp \in Long
         /\ f.below \in Nat /\ f.height \in Nat /\ Extent(f) \in Int
         /\ Sp(f) \in Long /\ Sp(f) \in Int
         /\ \A r \in Gpr : f.before.reg[r] \in Long /\ f.before.reg[r] \in Int
         /\ f.before.eip \in Long /\ f.before.flags \in Long
         /\ f.before.seg["cs"].sel \in Word
<1>1. f.before \in Found /\ f.n \in {1, 2} /\ f.w \in Widths /\ f.val \in Long /\ f.sp \in Long
      /\ f.below \in Nat /\ f.height \in Nat
  BY DEF Frames
<1>2. /\ f.before.reg \in [Gpr -> Long] /\ f.before.seg \in [SegName -> Reg]
      /\ f.before.eip \in Long /\ f.before.flags \in Long
  BY <1>1 DEF Found
<1>3. f.before.seg["cs"].sel \in Word
  BY <1>2 DEF SegName, Reg
<1>4. \A x \in Long : x \in Int
  BY Sizes, SMT DEF Long
<1>5. Sp(f) \in Long
  BY <1>2 DEF Sp, Gpr
<1>6. Extent(f) \in Int
  BY <1>1, SMT DEF Extent
<1> QED
  BY <1>1, <1>2, <1>3, <1>4, <1>5, <1>6

LEMMA SsWidthIs == \A m : SsWidth(m) \in Widths
BY DEF SsWidth, Width, Widths

LEMMA AmountIs == \A f : Amount(f) \in 1 .. 8
BY DEF Amount

(* The place of an item, from the top of the stack *)
LEMMA LaidFrom ==
  ASSUME NEW m, NEW s \in Int, NEW t \in Int, NEW b \in Int, NEW k, NEW w \in Nat \ {0}
  PROVE  Laid(m, (s + t) % w, b, k, w) = Laid(m, s, b - t, k, w)
<1>1. (((s + t) % w) + (-b)) % w = ((s + t) + (-b)) % w
  <2>1. s + t \in Int /\ -b \in Int
    BY SMT
  <2> QED BY <2>1, ModPlus
<1>2. (s + t) % w \in Int
  <2>1. s + t \in Int
    BY SMT
  <2> QED BY <2>1, DivMod
<1>3. ((s + t) % w) - b = ((s + t) % w) + (-b) /\ (s + t) + (-b) = s - (b - t)
  BY <1>2, SMT
<1> QED
  BY <1>1, <1>3 DEF Laid

(* A push reaches no frame: it is deeper by at most a turn of SP. *)
LEMMA LiesKept ==
  ASSUME NEW m, Good(m), NEW sp \in Long, NEW deep \in Nat, NEW f \in Frames, Lies(f, m, sp, deep),
         NEW n \in {1, 2}, NEW v \in Int, NEW w, w = SsWidth(m), NEW p \in Nat,
         (deep + p) + n =< w, Down(m, sp, p, w),
         NEW q, q = Push(m, n, v, w)
  PROVE  Lies(f, q, sp, deep)
<1> DEFINE s == Seen(sp, w)
           t == deep - f.below
<1>1. w \in Widths /\ w \in Nat \ {0} /\ f.w = w
  BY SsWidthIs, WidthsPositive DEF Lies
<1>2. s \in Int
  BY <1>1, SeenLong, Sizes, SMT DEF Long
<1>3. f.n \in {1, 2} /\ f.below \in Nat /\ f.height \in Nat /\ Extent(f) \in Int
  BY FrameTypes
<1>4. t \in Int
  BY <1>3, SMT
<1>5. Seen(Sp(f), w) = (s + t) % w
  BY <1>1 DEF Lies
<1>13. p \in Int
  BY SMT
<1>7. q.seg = m.seg
  BY <1>1, <1>13, PushIs
<1>8. \A b \in Int, k \in {1, 2} :
        b =< p /\ ((p + n) - b) + k =< w => Laid(q, s, b, k, w) = Laid(m, s, b, k, w)
  BY <1>1, <1>13, PushIs
<1> HIDE DEF s
<1>9. Amount(f) \in 1 .. 8 /\ Extent(f) >= Amount(f) * f.n /\ f.height =< deep
  BY AmountIs DEF Lies, Shape
<1>10. ASSUME NEW k \in 1 .. Amount(f)
       PROVE  Laid(q, Seen(Sp(f), w), k * f.n, f.n, w) = Laid(m, Seen(Sp(f), w), k * f.n, f.n, w)
  <2>1. k * f.n \in Int /\ k * f.n =< Amount(f) * f.n /\ k * f.n >= f.n
    BY <1>3, <1>9, SMT
  <2> DEFINE b == k * f.n - t
  <2>2. b \in Int /\ b =< p /\ ((p + n) - b) + f.n =< w
    BY <1>1, <1>3, <1>4, <1>9, <2>1, SMT DEF Extent
  <2>3. Laid(q, s, b, f.n, w) = Laid(m, s, b, f.n, w)
    BY <1>3, <1>8, <2>2
  <2> QED BY <1>1, <1>2, <1>4, <1>5, <2>1, <2>3, LaidFrom
<1>11. Items(f, m) => Items(f, q)
  BY <1>1, <1>10 DEF Items
<1>12. SsWidth(q) = SsWidth(m)
  BY <1>7 DEF SsWidth
<1> QED
  BY <1>7, <1>11, <1>12 DEF Lies

LEMMA DeepIs ==
  ASSUME NEW fs \in Seq(Frames)
  PROVE  Deep(fs) \in Nat /\ Len(fs) \in Nat /\ \A j \in 1 .. Len(fs) : fs[j] \in Frames
<1>1. Len(fs) \in Nat /\ \A j \in 1 .. Len(fs) : fs[j] \in Frames
  OBVIOUS
<1>2. fs # <<>> => Len(fs) \in 1 .. Len(fs)
  <2>1. fs # <<>> => Len(fs) # 0
    OBVIOUS
  <2> QED BY <1>1, <2>1, SMT
<1> QED
  BY <1>1, <1>2, FrameTypes DEF Deep

LEMMA StackedKept ==
  ASSUME NEW m, Good(m), NEW sp \in Long, NEW fs, Stacked(fs, m, sp),
         NEW n \in {1, 2}, NEW v \in Int, NEW w, w = SsWidth(m), NEW p \in Nat,
         (Deep(fs) + p) + n =< w, Down(m, sp, p, w),
         NEW q, q = Push(m, n, v, w)
  PROVE  Stacked(fs, q, sp)
<1>1. fs \in Seq(Frames)
  BY DEF Stacked
<1>2. Deep(fs) \in Nat /\ \A j \in 1 .. Len(fs) : fs[j] \in Frames
  BY <1>1, DeepIs
<1>3. \A j \in 1 .. Len(fs) : Lies(fs[j], q, sp, Deep(fs))
  BY <1>2, LiesKept DEF Stacked
<1>4. w \in Widths
  BY SsWidthIs
<1>5. p \in Int
  BY SMT
<1>6. q.seg = m.seg
  BY <1>4, <1>5, PushIs
<1>7. SsWidth(q) = SsWidth(m)
  BY <1>6 DEF SsWidth
<1> QED
  BY <1>3, <1>7 DEF Stacked

(* Frames stay where they are while no memory is written, *)
LEMMA StackedSame ==
  ASSUME NEW m, NEW q, NEW sp, NEW fs, Stacked(fs, m, sp),
         q.mem = m.mem, q.seg["ss"] = m.seg["ss"]
  PROVE  Stacked(fs, q, sp)
<1>1. \A s, b, k, w : Laid(q, s, b, k, w) = Laid(m, s, b, k, w)
  BY DEF Laid, Fetched, Linear
<1>2. SsWidth(q) = SsWidth(m)
  BY DEF SsWidth
<1>3. \A f : Items(f, m) => Items(f, q)
  BY <1>1 DEF Items
<1>4. \A f, deep : Lies(f, m, sp, deep) => Lies(f, q, sp, deep)
  BY <1>2, <1>3 DEF Lies
<1> QED
  BY <1>2, <1>4 DEF Stacked

LEMMA StackedNone == \A m, sp : Stacked(<<>>, m, sp)
<1> TAKE m, sp
<1>1. SsWidth(m) \in Nat /\ SsWidth(m) > 0
  BY SsWidthIs, WidthsPositive, SMT
<1>2. Len(<<>>) = 0 /\ <<>> \in Seq(Frames) /\ Deep(<<>>) = 0
  BY DEF Deep
<1>3. 1 .. 0 = {}
  BY SMT
<1> QED
  BY <1>1, <1>2, <1>3, SMT DEF Stacked, Joined

(* Down by e words, and up by t *)
LEMMA PlaceStep ==
  ASSUME NEW sp \in Long, NEW q, NEW w \in Widths, NEW e \in Int, NEW t \in Int,
         q = Written(sp, Seen(sp, w) - e, w)
  PROVE  (Seen(q, w) + t) % w = (Seen(sp, w) + (t - e)) % w
<1>1. w \in Nat \ {0} /\ Seen(sp, w) \in Int
  BY WidthsPositive, SeenLong, Sizes, SMT DEF Long
<1> DEFINE s == Seen(sp, w)
<1>2. Seen(q, w) = (s - e) % w
  <2>1. s - e \in Int
    BY <1>1, SMT
  <2> QED BY <2>1, WrittenIs
<1> HIDE DEF s
<1>3. s \in Int
  BY <1>1 DEF s
<1>4. s - e \in Int /\ (s - e) + t = s + (t - e)
  BY <1>3, SMT
<1>5. (((s - e) % w) + t) % w = ((s - e) + t) % w
  BY <1>1, <1>4, ModPlus
<1> QED
  BY <1>2, <1>4, <1>5 DEF s

(* What a frame in the stack says of the top *)
LEMMA LiesAlong ==
  ASSUME NEW m, NEW g \in Frames, NEW sp \in Long, NEW deep \in Nat, Lies(g, m, sp, deep),
         NEW q, NEW w, w = SsWidth(m), NEW e \in Int, NEW to \in Nat, to = deep + e,
         \/ q \in Long /\ q = Written(sp, Seen(sp, w) - e, w)
         \/ q \in Long /\ sp = Written(q, Seen(q, w) + e, w),
         g.height =< to
  PROVE  Lies(g, m, q, to)
<1>1. w \in Widths /\ w \in Nat \ {0} /\ g.w = w /\ g.below \in Nat
  BY SsWidthIs, WidthsPositive, FrameTypes DEF Lies
<1> DEFINE t == deep - g.below
           u == to - g.below
<1>2. t \in Int /\ u \in Int /\ t = u - e /\ u = t + e /\ -e \in Int /\ t - (-e) = u
  BY <1>1, SMT
<1> HIDE DEF t, u
<1>3. Seen(Sp(g), w) = (Seen(sp, w) + t) % w
  BY <1>1 DEF Lies, t
<1>4. (Seen(sp, w) + t) % w = (Seen(q, w) + u) % w
  <2>1. CASE q = Written(sp, Seen(sp, w) - e, w)
    <3>1. (Seen(q, w) + u) % w = (Seen(sp, w) + (u - e)) % w
      BY <1>1, <1>2, <2>1, PlaceStep
    <3> QED BY <1>2, <3>1
  <2>2. CASE q \in Long /\ sp = Written(q, Seen(q, w) + e, w)
    <3>1. Seen(q, w) + e = Seen(q, w) - (-e)
      <4>1. Seen(q, w) \in Int
        BY <1>1, <2>2, SeenLong, Sizes, SMT DEF Long
      <4> QED BY <4>1, SMT
    <3>2. (Seen(sp, w) + t) % w = (Seen(q, w) + (t - (-e))) % w
      BY <1>1, <1>2, <2>2, <3>1, PlaceStep
    <3> QED BY <1>2, <3>2
  <2> QED BY <2>1, <2>2
<1> QED
  BY <1>1, <1>3, <1>4 DEF Lies, u

LEMMA AppendIs ==
  ASSUME NEW S, NEW fs \in Seq(S), NEW f \in S
  PROVE  /\ Append(fs, f) \in Seq(S) /\ Append(fs, f) # <<>>
         /\ Len(Append(fs, f)) = Len(fs) + 1 /\ Append(fs, f)[Len(fs) + 1] = f
         /\ \A j \in 1 .. Len(fs) : Append(fs, f)[j] = fs[j]
OBVIOUS

LEMMA FrontIs ==
  ASSUME NEW S, NEW fs \in Seq(S), NEW k \in Nat, k =< Len(fs)
  PROVE  /\ SubSeq(fs, 1, k) \in Seq(S) /\ Len(SubSeq(fs, 1, k)) = k
         /\ \A j \in 1 .. k : SubSeq(fs, 1, k)[j] = fs[j]
         /\ SubSeq(fs, 1, k) = <<>> <=> k = 0
<1>1. SubSeq(fs, 1, k) \in Seq(S) /\ Len(SubSeq(fs, 1, k)) = k
  OBVIOUS
<1>2. \A j \in 1 .. k : SubSeq(fs, 1, k)[j] = fs[j]
  OBVIOUS
<1>3. SubSeq(fs, 1, k) = <<>> <=> k = 0
  BY <1>1
<1> QED BY <1>1, <1>2, <1>3

LEMMA StackedPush ==
  ASSUME NEW m, NEW fs, NEW sp \in Long, Stacked(fs, m, sp),
         NEW f \in Frames, f.below = Deep(fs), Sp(f) = sp, f.before.seg["ss"] = m.seg["ss"],
         f.w = SsWidth(m), f.height < f.w, Shape(f), Items(f, m)
  PROVE  Stacked(Append(fs, f), m, f.sp)
<1> DEFINE gs == Append(fs, f)
           L == Len(fs)
           w == SsWidth(m)
<1>1. /\ fs \in Seq(Frames) /\ L \in Nat /\ Deep(fs) \in Nat
      /\ \A j \in 1 .. L : fs[j] \in Frames
  BY DeepIs DEF Stacked
<1>2. /\ gs \in Seq(Frames) /\ gs # <<>> /\ Len(gs) = L + 1 /\ gs[L + 1] = f
      /\ \A j \in 1 .. L : gs[j] = fs[j]
  BY <1>1, AppendIs
<1>3. f.height \in Nat /\ f.below \in Nat /\ f.sp \in Long /\ f.n \in {1, 2} /\ f.w \in Widths
  BY FrameTypes
<1>4. f.below =< f.height /\ f.height = Deep(fs) + Extent(f) /\ Extent(f) \in Int
  <2>1. Extent(f) >= Amount(f) * f.n /\ Amount(f) \in 1 .. 8
    BY AmountIs DEF Shape
  <2>2. Amount(f) * f.n >= 0 /\ Amount(f) * f.n \in Int
    BY <1>3, <2>1, SMT
  <2> QED BY <1>1, <1>3, <2>1, <2>2, SMT DEF Extent
<1> HIDE DEF gs, L
<1>5. Deep(gs) = f.height
  BY <1>2 DEF Deep
<1>6. f.sp = Written(sp, Seen(sp, w) - Extent(f), w)
  BY DEF Shape
<1>7. ASSUME NEW j \in 1 .. L
      PROVE  Lies(fs[j], m, f.sp, f.height) /\ fs[j].height =< f.below
  <2>1. fs[j] \in Frames /\ Lies(fs[j], m, sp, Deep(fs))
    BY <1>1 DEF Stacked, L
  <2>2. fs[j].height \in Nat /\ fs[j].height =< Deep(fs)
    BY <2>1, FrameTypes DEF Lies
  <2>3. fs[j].height =< f.height
    BY <1>1, <1>3, <1>4, <2>2, SMT
  <2> QED BY <1>1, <1>3, <1>4, <1>6, <2>1, <2>2, <2>3, LiesAlong
<1>8. Lies(f, m, f.sp, f.height)
  <2>1. (Seen(f.sp, w) + Extent(f)) % w = (Seen(sp, w) + (Extent(f) - Extent(f))) % w
    BY <1>3, <1>4, <1>6, PlaceStep
  <2>2. (Seen(sp, w) + (Extent(f) - Extent(f))) % w = Seen(sp, w)
    <3>1. w \in Nat \ {0} /\ Seen(sp, w) \in 0 .. (w - 1)
      BY SsWidthIs, WidthsPositive, SeenLong, Sizes, SMT DEF Long
    <3> QED BY <1>4, <3>1, SMT
  <2>3. Seen(Sp(f), f.w) = (Seen(f.sp, f.w) + (f.height - f.below)) % f.w
    BY <2>1, <2>2 DEF Extent
  <2>4. f.height =< f.height
    BY <1>3, SMT
  <2> HIDE DEF w
  <2> QED BY <2>3, <2>4 DEF Lies
<1>9. 1 .. (L + 1) = (1 .. L) \cup {L + 1} /\ \A j \in 1 .. L : j # L + 1 /\ j < L + 1
  BY <1>1, SMT DEF L
<1>10. \A j \in 1 .. Len(gs) : Lies(gs[j], m, f.sp, Deep(gs))
  BY <1>2, <1>5, <1>7, <1>8, <1>9
<1>11. ASSUME NEW j \in 1 .. Len(gs)
       PROVE  IF j = 1 THEN gs[j].below = 0
              ELSE gs[j].below = gs[j - 1].height /\ Sp(gs[j]) = gs[j - 1].sp
  <2>1. CASE j \in 1 .. L
    <3>1. j # 1 => j - 1 \in 1 .. L
      BY <1>1, <2>1, SMT DEF L
    <3> QED BY <1>2, <2>1, <3>1 DEF Stacked, Joined, L
  <2>2. CASE j = L + 1 /\ L = 0
    <3>1. fs = <<>>
      BY <1>1, <2>2 DEF L
    <3> QED BY <1>2, <2>2, <3>1, SMT DEF Deep
  <2>3. CASE j = L + 1 /\ L # 0
    <3>1. j - 1 = L /\ L \in 1 .. L /\ j # 1
      BY <1>1, <2>3, SMT DEF L
    <3>2. fs # <<>>
      BY <2>3 DEF L
    <3>3. Deep(fs) = fs[L].height /\ sp = fs[L].sp
      BY <3>2 DEF Deep, Stacked, L
    <3> QED BY <1>2, <2>3, <3>1, <3>3
  <2> QED BY <1>2, <1>9, <2>1, <2>2, <2>3
<1>12. ASSUME NEW i \in 1 .. Len(gs), NEW j \in 1 .. Len(gs), i < j
       PROVE  gs[i].height =< gs[j].below
  <2>1. i \in 1 .. L
    BY <1>1, <1>2, <1>12, SMT DEF L
  <2>2. CASE j \in 1 .. L
    BY <1>2, <1>12, <2>1, <2>2 DEF Stacked, Joined, L
  <2>3. CASE j = L + 1
    BY <1>2, <1>7, <2>1, <2>3
  <2> QED BY <1>2, <1>9, <2>2, <2>3
<1>13. Joined(gs)
  BY <1>11, <1>12 DEF Joined
<1>14. gs[Len(gs)].sp = f.sp /\ Deep(gs) < SsWidth(m)
  BY <1>2, <1>5
<1> QED
  BY <1>2, <1>10, <1>13, <1>14 DEF Stacked, gs

LEMMA StackedPop ==
  ASSUME NEW m, NEW fs, NEW sp \in Long, Stacked(fs, m, sp), fs # <<>>
  PROVE  Stacked(SubSeq(fs, 1, Len(fs) - 1), m, Sp(fs[Len(fs)]))
<1> DEFINE L == Len(fs)
           K == L - 1
           f == fs[L]
           gs == SubSeq(fs, 1, K)
           w == SsWidth(m)
<1>1. /\ fs \in Seq(Frames) /\ L \in Nat /\ Deep(fs) \in Nat
      /\ \A j \in 1 .. L : fs[j] \in Frames
  BY DeepIs DEF Stacked
<1>2. L >= 1 /\ K \in Nat /\ L \in 1 .. L
  <2>1. L # 0
    BY <1>1
  <2> QED BY <1>1, <2>1, SMT
<1>3. /\ gs \in Seq(Frames) /\ Len(gs) = K /\ \A j \in 1 .. K : gs[j] = fs[j]
      /\ gs = <<>> <=> K = 0
  <2>1. K =< Len(fs)
    BY <1>2, SMT
  <2> HIDE DEF K
  <2> QED BY <1>1, <1>2, <2>1, FrontIs
<1>4. f \in Frames /\ Sp(f) \in Long /\ Extent(f) \in Int /\ f.height \in Nat /\ f.below \in Nat
      /\ f.n \in {1, 2}
  BY <1>1, <1>2, FrameTypes
<1>5. f.below =< f.height /\ f.below = Deep(fs) - Extent(f) /\ Deep(fs) = f.height
  <2>0. Lies(f, m, sp, Deep(fs))
    BY <1>2 DEF Stacked
  <2>1. Extent(f) >= Amount(f) * f.n /\ Amount(f) \in 1 .. 8
    BY <2>0, AmountIs DEF Lies, Shape
  <2>2. Amount(f) * f.n >= 0 /\ Amount(f) * f.n \in Int
    <3> HIDE DEF f
    <3> QED BY <1>4, <2>1, SMT
  <2>3. Deep(fs) = f.height
    BY DEF Deep
  <2> HIDE DEF f
  <2> QED BY <1>1, <1>4, <2>1, <2>2, <2>3, SMT DEF Extent
<1>6. /\ Lies(f, m, sp, Deep(fs)) /\ sp = f.sp
      /\ sp = Written(Sp(f), Seen(Sp(f), w) - Extent(f), w)
      /\ Sp(f) = Sp(f)
  <2>1. Lies(f, m, sp, Deep(fs)) /\ sp = f.sp
    BY <1>2 DEF Stacked
  <2> HIDE DEF f
  <2> QED BY <2>1 DEF Lies, Shape
<1>7. f.below < w
  <2>1. Deep(fs) < w /\ w \in Nat
    BY SsWidthIs, WidthsPositive DEF Stacked
  <2> HIDE DEF f, w
  <2> QED BY <1>1, <1>4, <1>5, <2>1, SMT
<1>8. Deep(gs) = f.below
  <2>1. CASE K = 0
    <3>1. L = 1
      BY <1>1, <1>2, <2>1, SMT
    <3>3. gs = <<>>
      BY <1>3, <2>1
    <3>4. f.below = 0
      BY <1>2, <3>1 DEF Stacked, Joined
    <3> HIDE DEF gs
    <3> QED BY <3>3, <3>4 DEF Deep
  <2>2. CASE K # 0
    <3>4. gs # <<>>
      <4> HIDE DEF gs, K
      <4> QED BY <1>3, <2>2
    <3>5. K \in 1 .. K /\ L # 1
      <4>1. L \in Nat /\ L >= 1
        BY <1>1, <1>2
      <4> HIDE DEF L
      <4> QED BY <2>2, <4>1, SMT
    <3>1. gs # <<>> /\ K \in 1 .. K /\ L # 1
      BY <3>4, <3>5
    <3>2. Deep(gs) = fs[K].height
      <4> HIDE DEF gs
      <4> QED BY <1>3, <3>1 DEF Deep
    <3>3. f.below = fs[L - 1].height
      BY <1>2, <3>1 DEF Stacked, Joined
    <3> QED BY <3>2, <3>3
  <2> QED BY <2>1, <2>2
<1>9. gs # <<>> => Sp(f) = gs[Len(gs)].sp
  <2>1. SUFFICES ASSUME gs # <<>> PROVE Sp(f) = gs[Len(gs)].sp
    OBVIOUS
  <2>2. K \in 1 .. K /\ L # 1
    <3>1. K # 0
      <4> HIDE DEF gs, K
      <4> QED BY <1>3, <2>1
    <3>2. L \in Nat /\ L >= 1
      BY <1>1, <1>2
    <3> HIDE DEF L
    <3> QED BY <3>1, <3>2, SMT
  <2>3. Sp(f) = fs[L - 1].sp
    BY <1>2, <2>2 DEF Stacked, Joined
  <2> QED BY <1>3, <2>2, <2>3
<1> DEFINE e == -Extent(f)
<1>10. e \in Int /\ f.below = Deep(fs) + e
       /\ Seen(Sp(f), w) - Extent(f) = Seen(Sp(f), w) + e
  <2>1. Seen(Sp(f), w) \in Int
    BY <1>4, SsWidthIs, SeenLong, Sizes, SMT DEF Long
  <2> HIDE DEF f, w
  <2> QED BY <1>1, <1>4, <1>5, <2>1, SMT
<1>11. \A j \in 1 .. K : j \in 1 .. L /\ j < L
  BY <1>2, SMT
<1> HIDE DEF f, gs, K, w, e, L
<1>12. ASSUME NEW j \in 1 .. K
       PROVE  Lies(gs[j], m, Sp(f), Deep(gs))
  <2>1. fs[j] \in Frames /\ Lies(fs[j], m, sp, Deep(fs))
    BY <1>1, <1>11 DEF Stacked, L
  <2>2. fs[j].height =< f.below
    BY <1>2, <1>11 DEF Stacked, Joined, L, f
  <2>3. Lies(fs[j], m, Sp(f), f.below)
    BY <1>1, <1>4, <1>6, <1>10, <2>1, <2>2, LiesAlong DEF w
  <2> QED BY <1>3, <1>8, <2>3
<1>13. ASSUME NEW j \in 1 .. Len(gs)
       PROVE  IF j = 1 THEN gs[j].below = 0
              ELSE gs[j].below = gs[j - 1].height /\ Sp(gs[j]) = gs[j - 1].sp
  <2>1. j \in 1 .. K /\ j \in 1 .. L /\ (j # 1 => j - 1 \in 1 .. K)
    BY <1>2, <1>3, <1>11, SMT
  <2> QED BY <1>3, <2>1 DEF Stacked, Joined, L
<1>14. \A i, j \in 1 .. Len(gs) : i < j => gs[i].height =< gs[j].below
  BY <1>3, <1>11 DEF Stacked, Joined, L
<1>15. Joined(gs)
  BY <1>13, <1>14 DEF Joined
<1>16. Deep(gs) < SsWidth(m)
  BY <1>7, <1>8 DEF w
<1>17. Stacked(gs, m, Sp(f))
  BY <1>3, <1>9, <1>12, <1>15, <1>16 DEF Stacked
<1> QED
  BY <1>17 DEF gs, K, f, L

LEMMA ItemRange ==
  ASSUME NEW f \in Frames, f.val \in 0 .. (Width(f.n = 2) - 1),
         f.kind = "enter" => f.w = Width(f.n = 2), NEW k \in 1 .. Amount(f)
  PROVE  Item(f, k) \in 0 .. (Width(f.n = 2) - 1) /\ Item(f, k) \in Int
<1> DEFINE d == Width(f.n = 2)
<1>1. d \in Widths
  BY DEF Width, Widths
<1>2. d \in Nat \ {0} /\ d >= Lo /\ Lo \in Nat
  BY <1>1, Sizes, SMT DEF Widths
<1>3. \A x \in Int : x % d \in 0 .. (d - 1)
  BY <1>2, DivMod
<1>4. \A x \in Word : x \in 0 .. (d - 1)
  BY <1>2, SMT DEF Word
<1>5. \A x \in Long : x \in Int
  BY Sizes, SMT DEF Long
<1>6. /\ f.before.eip \in Int /\ f.before.flags \in Int /\ f.before.seg["cs"].sel \in Word
      /\ \A r \in Gpr : f.before.reg[r] \in Int
  BY <1>5, FrameTypes
<1>7. f.kind \in Kinds
  BY DEF Frames
<1> HIDE DEF d
<1>8. f.before.eip % d \in 0 .. (d - 1) /\ f.before.flags % d \in 0 .. (d - 1)
      /\ f.before.seg["cs"].sel \in 0 .. (d - 1) /\ f.val \in 0 .. (d - 1)
  BY <1>3, <1>4, <1>6 DEF d
<1>9. Item(f, k) \in 0 .. (d - 1)
  <2>1. CASE f.kind \in {"push", "flags"}
    BY <1>8, <2>1 DEF Item
  <2>2. CASE f.kind = "all"
    <3>1. k \in 1 .. 8
      BY <2>2 DEF Amount
    <3>2. AllRegs[k] \in Gpr
      <4>1. k = 1 \/ k = 2 \/ k = 3 \/ k = 4 \/ k = 5 \/ k = 6 \/ k = 7 \/ k = 8
        BY <3>1, SMT
      <4> QED BY <4>1 DEF AllRegs, Gpr
    <3>3. Seen(f.before.reg[AllRegs[k]], d) \in 0 .. (d - 1)
      BY <1>3, <1>6, <3>2 DEF Seen
    <3>4. Item(f, k) = Seen(f.before.reg[AllRegs[k]], d)
      BY <2>2 DEF Item, d
    <3> QED BY <3>3, <3>4
  <2>3. CASE f.kind = "near"
    BY <1>8, <2>3 DEF Item, d
  <2>4. CASE f.kind = "far"
    BY <1>8, <2>4 DEF Item, d
  <2>5. CASE f.kind = "intr"
    BY <1>8, <2>5 DEF Item, d
  <2>6. CASE f.kind = "enter"
    <3>1. Item(f, k) = Seen(f.before.reg["bp"], d)
      BY <2>6 DEF Item, d
    <3> QED BY <1>3, <1>6, <3>1 DEF Seen, Gpr
  <2> QED BY <1>7, <2>1, <2>2, <2>3, <2>4, <2>5, <2>6 DEF Kinds
<1> QED
  <2>1. \A x \in 0 .. (d - 1) : x \in Int
    BY <1>2, SMT
  <2> QED BY <1>9, <2>1 DEF d

-----------------------------------------------------------------------------
(* A frame grows: c of its items are pushed. *)
Room(fs, f, m)   == f.height < f.w /\ f.w = SsWidth(m)
Held(f, m, c)    == \A k \in 1 .. c : Laid(m, Seen(Sp(f), f.w), k * f.n, f.n, f.w) = Item(f, k)

Grows(fs, f, m, c) ==
  /\ Good(m) /\ m.seg["ss"] = f.before.seg["ss"]
  /\ Down(m, Sp(f), c * f.n, f.w)
  /\ Room(fs, f, m) => Stacked(fs, m, Sp(f)) /\ Held(f, m, c)

(* What is to be pushed is a frame on top of the others. *)
Planned(fs, f) ==
  /\ f \in Frames /\ f.below = Deep(fs) /\ f.val \in 0 .. (Width(f.n = 2) - 1)
  /\ f.kind = "flags" => On(f.val)
  /\ f.kind = "enter" => f.w = Width(f.n = 2)
  /\ f.height >= f.below + Amount(f) * f.n

LEMMA GrowsStep ==
  ASSUME NEW fs, NEW f, Planned(fs, f), NEW m, NEW c \in Nat, Grows(fs, f, m, c),
         c + 1 =< Amount(f), NEW v, v = Item(f, c + 1), NEW q, q = Push(m, f.n, v, f.w)
  PROVE  Grows(fs, f, q, c + 1)
<1> DEFINE n == f.n
           w == f.w
           s == Seen(Sp(f), w)
           p == c * n
           a == Amount(f)
<1>1. f \in Frames /\ n \in {1, 2} /\ w \in Widths /\ Sp(f) \in Long /\ a \in 1 .. 8
      /\ f.below \in Nat /\ f.height \in Nat /\ w \in Nat \ {0}
  BY AmountIs, FrameTypes, WidthsPositive DEF Planned
<1>2. v \in 0 .. (Width(n = 2) - 1) /\ v \in Int
  <2>1. c + 1 \in 1 .. Amount(f)
    BY <1>1, SMT
  <2> QED BY <1>1, <2>1, ItemRange DEF Planned
<1>3. p \in Nat /\ p \in Int /\ p + n = (c + 1) * n /\ p + n =< a * n /\ a * n \in Int
  <2> HIDE DEF n, a
  <2>1. c \in Int /\ c + 1 =< a
    BY DEF a
  <2> QED BY <1>1, <2>1, SMT
<1>4. Good(m) /\ Down(m, Sp(f), p, w)
  BY DEF Grows
<1> HIDE DEF p, n, w
<1>5. q = Push(m, n, v, w)
  BY DEF n, w
<1>6. /\ Good(q) /\ q.seg = m.seg /\ Down(q, Sp(f), p + n, w)
      /\ Laid(q, s, p + n, n, w) = v
      /\ \A b \in Int, k \in {1, 2} : b =< p /\ ((p + n) - b) + k =< w =>
           Laid(q, s, b, k, w) = Laid(m, s, b, k, w)
  BY <1>1, <1>2, <1>3, <1>4, <1>5, PushIs
<1>7. Down(q, Sp(f), (c + 1) * f.n, f.w)
  BY <1>3, <1>6 DEF n, w
<1>8. ASSUME Room(fs, f, q)
      PROVE  Stacked(fs, q, Sp(f)) /\ Held(f, q, c + 1)
  <2>1. Room(fs, f, m)
    BY <1>6, <1>8 DEF Room, SsWidth
  <2>2. Stacked(fs, m, Sp(f)) /\ Held(f, m, c)
    BY <2>1 DEF Grows
  <2>3. (Deep(fs) + p) + n =< w /\ p + n =< w
    <3>1. f.height >= f.below + a * n /\ f.below = Deep(fs) /\ f.height < w
      BY <2>1 DEF Planned, Room, n, w
    <3> HIDE DEF a
    <3> QED BY <1>1, <1>3, <3>1, SMT
  <2>4. Stacked(fs, q, Sp(f))
    <3>1. w = SsWidth(m)
      BY <2>1 DEF Room, w
    <3> QED BY <1>1, <1>2, <1>3, <1>4, <1>5, <2>2, <2>3, <3>1, StackedKept
  <2>5. ASSUME NEW k \in 1 .. c
        PROVE  Laid(q, s, k * n, n, w) = Item(f, k)
    <3>1. k * n \in Int /\ k * n =< p /\ k * n >= n
      BY <1>1, SMT DEF p
    <3>2. ((p + n) - k * n) + n =< w
      BY <1>1, <1>3, <2>3, <3>1, SMT
    <3>3. Laid(q, s, k * n, n, w) = Laid(m, s, k * n, n, w)
      BY <1>1, <1>6, <3>1, <3>2
    <3>4. Laid(m, s, k * n, n, w) = Item(f, k)
      BY <2>2 DEF Held, n, w
    <3> QED BY <3>3, <3>4
  <2>6. Laid(q, s, (c + 1) * n, n, w) = Item(f, c + 1)
    BY <1>3, <1>6
  <2>7. \A k \in 1 .. (c + 1) : k \in 1 .. c \/ k = c + 1
    BY SMT
  <2>8. \A k \in 1 .. (c + 1) : Laid(q, s, k * n, n, w) = Item(f, k)
    BY <2>5, <2>6, <2>7
  <2> QED BY <2>4, <2>8 DEF Held, n, w
<1> QED
  BY <1>6, <1>7, <1>8 DEF Grows

LEMMA GrowsFirst ==
  ASSUME NEW fs, NEW f, Planned(fs, f), NEW m, Good(m), m.seg["ss"] = f.before.seg["ss"],
         Sp(f) = m.reg["sp"], Room(fs, f, m) => Stacked(fs, m, m.reg["sp"])
  PROVE  Grows(fs, f, m, 0)
<1>1. f.n \in {1, 2} /\ f.w \in Widths /\ Sp(f) \in Long
  BY FrameTypes DEF Planned
<1>2. 0 * f.n = 0 /\ 1 .. 0 = {}
  BY <1>1, SMT
<1>3. Down(m, Sp(f), 0, f.w)
  <2> DEFINE x == Seen(Sp(f), f.w)
  <2>1. f.w \in Nat \ {0} /\ x \in 0 .. (f.w - 1)
    BY <1>1, WidthsPositive, SeenLong, Sizes, SMT DEF Long
  <2> HIDE DEF x
  <2>2. x - 0 = x /\ x \in Int /\ x % f.w = x
    BY <2>1, SMT
  <2>3. Written(Sp(f), x, f.w) = Sp(f)
    BY <1>1, <2>2, WrittenIs DEF x
  <2> QED BY <2>2, <2>3 DEF Down, x
<1> QED
  BY <1>2, <1>3 DEF Grows, Held

LEMMA GrowsLast ==
  ASSUME NEW fs, NEW f, Planned(fs, f), NEW m, Grows(fs, f, m, Amount(f)),
         f.height = f.below + Amount(f) * f.n, f.kind # "enter",
         f.sp = m.reg["sp"],
         NEW q, q.mem = m.mem, q.seg["ss"] = m.seg["ss"], q.reg["sp"] = m.reg["sp"],
         Room(fs, f, m)
  PROVE  Stacked(Append(fs, f), q, q.reg["sp"])
<1>1. f \in Frames /\ f.n \in {1, 2} /\ f.w \in Widths /\ Sp(f) \in Long
      /\ f.below \in Nat /\ f.height \in Nat /\ Amount(f) \in 1 .. 8
  BY AmountIs, FrameTypes DEF Planned
<1>2. Stacked(fs, m, Sp(f)) /\ Held(f, m, Amount(f)) /\ Down(m, Sp(f), Amount(f) * f.n, f.w)
  BY DEF Grows
<1>3. Extent(f) = Amount(f) * f.n /\ Extent(f) >= Amount(f) * f.n
  <2> DEFINE z == Amount(f) * f.n
  <2>1. z \in Int
    BY <1>1, SMT
  <2> HIDE DEF z
  <2>2. f.height = f.below + z
    BY DEF z
  <2>3. f.height - f.below = z /\ f.height - f.below >= z
    BY <1>1, <2>1, <2>2, SMT
  <2> QED BY <2>3 DEF Extent, z
<1>4. Shape(f)
  <2>1. f.sp = Written(Sp(f), Seen(Sp(f), f.w) - Extent(f), f.w)
    BY <1>2, <1>3 DEF Down
  <2> QED BY <1>3, <2>1 DEF Shape, Planned
<1>5. Items(f, m)
  BY <1>2 DEF Held, Items
<1>6. Stacked(Append(fs, f), m, f.sp)
  BY <1>1, <1>2, <1>4, <1>5, StackedPush DEF Planned, Room, Grows
<1> QED
  BY <1>6, StackedSame

LEMMA HeightIs == Height = Deep(open)
BY DEF Height, Deep

ItemWide(val, n) == val \in 0 .. (Width(n = 2) - 1)

LEMMA FrameIs ==
  ASSUME NEW kind \in Kinds, NEW n \in {1, 2}, NEW val, ItemWide(val, n), NEW b \in Found,
         NEW sp \in Long, NEW below \in Nat, NEW words \in Nat,
         NEW f, f = Frame(kind, n, val, b, sp, below, words)
  PROVE  f \in Frames
<1>1. val \in Long
  <2>1. Width(n = 2) \in Widths
    BY DEF Width, Widths
  <2>2. Width(n = 2) \in Nat /\ Width(n = 2) =< Full
    BY <2>1, WidthsPositive
  <2>3. val \in 0 .. (Width(n = 2) - 1)
    BY DEF ItemWide
  <2> HIDE DEF Width
  <2> QED BY <2>2, <2>3, Sizes, SMT DEF Long
<1>2. below + words \in Nat
  BY SMT
<1> QED
  BY <1>1, <1>2, WidthsAre DEF Frame, Frames

LEMMA NowFound == ASSUME NEW m, Good(m) PROVE Saved(m) \in Found
BY FieldTypes DEF Saved, Found, Good

(* The frames are all in the stack. *)
StackHolds == Stacked(open, cpu, cpu.reg["sp"])

LEMMA FrameStarts ==
  ASSUME NEW fs, NEW m, Good(m), Stacked(fs, m, m.reg["sp"]), NEW b \in Found,
         b.reg["sp"] = m.reg["sp"], b.seg["ss"] = m.seg["ss"],
         NEW kind \in Kinds \ {"enter"}, NEW n \in {1, 2},
         NEW val \in 0 .. (Width(n = 2) - 1), NEW sp \in Long, NEW words \in Nat,
         NEW below, below = Deep(fs),
         NEW f, f = Frame(kind, n, val, b, sp, below, words), words = Amount(f) * n,
         kind = "flags" => On(val)
  PROVE  /\ Planned(fs, f) /\ Grows(fs, f, m, 0)
         /\ f.kind = kind /\ f.n = n /\ f.w = W /\ f.val = val /\ f.before = b /\ f.sp = sp
         /\ f.height = f.below + Amount(f) * f.n
<1>1. fs \in Seq(Frames) /\ below \in Nat
  BY DeepIs DEF Stacked
<1>2. f \in Frames
  <2>1. kind \in Kinds /\ ItemWide(val, n)
    BY DEF ItemWide
  <2> QED BY <1>1, <2>1, FrameIs
<1>3. /\ f.kind = kind /\ f.n = n /\ f.w = W /\ f.val = val /\ f.before = b /\ f.sp = sp
      /\ f.below = below /\ f.height = below + words
  BY DEF Frame
<1>4. f.height = f.below + Amount(f) * f.n
  BY <1>3
<1>5. f.height >= f.below + Amount(f) * f.n
  <2>1. f.height \in Nat
    BY <1>2, FrameTypes
  <2> DEFINE z == f.below + Amount(f) * f.n
  <2>2. f.height = z
    BY <1>4
  <2> HIDE DEF z
  <2>3. f.height >= z
    BY <2>1, <2>2, SMT
  <2> QED BY <2>3 DEF z
<1>6. Planned(fs, f)
  BY <1>2, <1>3, <1>5 DEF Planned
<1>7. Sp(f) = m.reg["sp"] /\ f.before.seg["ss"] = m.seg["ss"]
  BY <1>3 DEF Sp
<1>8. Grows(fs, f, m, 0)
  BY <1>6, <1>7, GrowsFirst
<1> QED
  BY <1>3, <1>4, <1>6, <1>8

LEMMA NowStarts ==
  ASSUME GoodState, StackHolds, NEW kind \in Kinds \ {"enter"}, NEW n \in {1, 2},
         NEW val \in 0 .. (Width(n = 2) - 1), NEW sp \in Long, NEW words \in Nat,
         NEW f, f = Frame(kind, n, val, Saved(cpu), sp, Height, words), words = Amount(f) * n,
         kind = "flags" => On(val)
  PROVE  /\ Planned(open, f) /\ Grows(open, f, cpu, 0)
         /\ f.kind = kind /\ f.n = n /\ f.w = W /\ f.val = val /\ f.before = Saved(cpu) /\ f.sp = sp
         /\ f.height = f.below + Amount(f) * f.n
<1>1. Saved(cpu) \in Found /\ Saved(cpu).reg["sp"] = cpu.reg["sp"]
      /\ Saved(cpu).seg["ss"] = cpu.seg["ss"]
  BY NowFound DEF GoodState, Saved
<1>2. Height = Deep(open)
  BY HeightIs
<1> QED
  BY <1>1, <1>2, FrameStarts DEF GoodState, StackHolds

(* What Opens opens lies on top. *)
LEMMA OpensHolds ==
  ASSUME GoodState, NEW f, Planned(open, f), f.w = W, f.kind # "enter",
         f.height = f.below + Amount(f) * f.n, f.sp = cpu'.reg["sp"],
         f.before.seg["ss"] = cpu.seg["ss"],
         NEW m, Grows(open, f, m, Amount(f)), f.sp = m.reg["sp"],
         cpu'.mem = m.mem, cpu'.seg["ss"] = m.seg["ss"],
         open' = IF Fits(f) THEN Append(open, f) ELSE <<>>
  PROVE  StackHolds'
<1>1. CASE Fits(f)
  <2>1. Room(open, f, m)
    BY <1>1 DEF Room, Fits, Grows, SsWidth
  <2>2. Stacked(Append(open, f), cpu', cpu'.reg["sp"])
    BY <2>1, GrowsLast
  <2> QED BY <1>1, <2>2 DEF StackHolds
<1>2. CASE ~Fits(f)
  BY <1>2, StackedNone DEF StackHolds
<1> QED
  BY <1>1, <1>2

LEMMA OneHolds ==
  ASSUME GoodState, StackHolds, NEW kind \in {"push", "flags", "near"}, NEW v \in 0 .. (D - 1),
         kind = "near" => v = cpu.eip % D,
         kind = "flags" => On(v), NEW m, m = Push(cpu, N, v, W), Good(m), Good(cpu'),
         cpu'.mem = m.mem, cpu'.seg["ss"] = m.seg["ss"], cpu'.reg["sp"] = m.reg["sp"],
         Opens(kind, N, v, Now, N)
  PROVE  StackHolds' /\ closed' = NoFrame
<1> DEFINE f == Frame(kind, N, v, Saved(cpu), cpu'.reg["sp"], Height, N)
<1>1. N \in {1, 2} /\ D = Width(N = 2) /\ N \in Nat
  BY DEF N, D, Size, Width
<1>2. open' = (IF Fits(f) THEN Append(open, f) ELSE <<>>) /\ closed' = NoFrame
  BY DEF Opens, Now
<1>3. f.kind = kind
  BY DEF Frame
<1>4. kind \in Kinds \ {"enter"} /\ cpu'.reg["sp"] \in Long
  BY FieldTypes DEF Kinds, Good, Gpr
<1> HIDE DEF f
<1>5. Amount(f) = 1 /\ N = 1 * N
  BY <1>1, <1>3, SMT DEF Amount
<1>6. /\ Planned(open, f) /\ Grows(open, f, cpu, 0)
      /\ f.kind = kind /\ f.n = N /\ f.w = W /\ f.val = v /\ f.before = Saved(cpu)
      /\ f.sp = cpu'.reg["sp"] /\ f.height = f.below + Amount(f) * f.n
  BY <1>1, <1>4, <1>5, NowStarts DEF f
<1>7. v = Item(f, 0 + 1)
  BY <1>1, <1>6 DEF Item, Saved
<1>8. Grows(open, f, m, 0 + 1)
  BY <1>5, <1>6, <1>7, GrowsStep
<1>9. Grows(open, f, m, Amount(f))
  BY <1>5, <1>8
<1>10. f.before.seg["ss"] = cpu.seg["ss"]
  BY <1>6 DEF Saved
<1>11. f.kind # "enter"
  BY <1>6
<1> QED
  BY <1>2, <1>6, <1>9, <1>10, <1>11, OpensHolds

LEMMA ItemsWide ==
  /\ D = Width(N = 2) /\ N \in {1, 2} /\ N \in Nat
  /\ \A v \in Int : v % D \in 0 .. (D - 1)
  /\ \A v \in Word : v \in 0 .. (D - 1)
  /\ \A m : Good(m) => \A r \in Gpr : Get(m, r, D) \in 0 .. (D - 1)
<1>1. D = Width(N = 2) /\ N \in {1, 2} /\ N \in Nat
  BY DEF N, D, Size, Width
<1>2. D \in Nat \ {0} /\ D >= Lo
  BY WidthsAre, Sizes, SMT DEF Widths
<1>3. \A v \in Int : v % D \in 0 .. (D - 1)
  BY <1>2, DivMod
<1>4. \A v \in Word : v \in 0 .. (D - 1)
  BY <1>2, Sizes, SMT DEF Word
<1>5. \A m : Good(m) => \A r \in Gpr : Get(m, r, D) \in 0 .. (D - 1)
  <2> TAKE m
  <2> HAVE Good(m)
  <2> TAKE r \in Gpr
  <2>1. m.reg[r] \in Int
    BY FieldTypes, WordsAndLongs DEF Good
  <2> QED BY <1>3, <2>1 DEF Get, Seen
<1> QED
  BY <1>1, <1>3, <1>4, <1>5

(* The bit that is always on is. *)
LEMMA BitKept ==
  ASSUME NEW z \in Int, NEW w \in Nat \ {0}, w % 16 = 0, On(z)
  PROVE  On(z % w)
<1> DEFINE k == w \div 16
           q == z \div w
           y == z % w
<1>1. k \in Int /\ w = 16 * k
  BY SMT
<1>2. q \in Int /\ y \in 0 .. (w - 1) /\ z = w * q + y
  BY DivMod
<1> DEFINE h == k * q
<1> HIDE DEF k, q, y
<1>3. h \in Int /\ w * q = 16 * h
  BY <1>1, <1>2, SMT
<1> HIDE DEF h
<1>4. z = 16 * h + y
  BY <1>2, <1>3
<1>5. On(z) <=> On(y)
  BY <1>2, <1>3, <1>4, SMT DEF On
<1> QED BY <1>5 DEF y

LEMMA AlwaysIsOn ==
  ASSUME NEW z \in Int
  PROVE  On(AlwaysOn(z)) /\ (On(z) => AlwaysOn(z) = z)
BY SMT DEF On, AlwaysOn

LEMMA ShownOn ==
  ASSUME NEW f \in Long
  PROVE  On(Shown(f) % D)
<1> DEFINE x == (f % 16) + (IF Cpuid THEN f - (f % Lo) ELSE 0)
<1>1. x \in Int
  <2>1. Lo \in Nat \ {0} /\ f \in Int
    BY Sizes, SMT DEF Long
  <2>2. f % 16 \in Int /\ f % Lo \in Int
    BY <2>1, SMT
  <2> DEFINE y == f % 16
             z == f % Lo
  <2> HIDE DEF y, z
  <2>3. y \in Int /\ z \in Int
    BY <2>2 DEF y, z
  <2>4. y + (f - z) \in Int /\ y + 0 \in Int
    BY <2>1, <2>3, SMT
  <2> QED BY <2>4 DEF y, z
<1> HIDE DEF x
<1>2. On(AlwaysOn(x)) /\ AlwaysOn(x) \in Int
  <2>1. AlwaysOn(x) \in Int
    BY <1>1, SMT DEF AlwaysOn
  <2> QED BY <1>1, <2>1, AlwaysIsOn
<1>3. Shown(f) = AlwaysOn(x)
  BY DEF Shown, x
<1>4. D \in Nat \ {0} /\ D % 16 = 0
  <2>1. D \in Nat \ {0} /\ D \in {Lo, Full}
    BY WidthsAre, WidthsPositive DEF Widths
  <2>2. Lo % 16 = 0 /\ Lo \in Nat /\ Hi \in Nat
    BY SizeAssumption
  <2>3. Full % 16 = 0
    <3> DEFINE k == Lo \div 16
    <3>1. k \in Int /\ Lo = 16 * k
      BY <2>2, SMT
    <3> HIDE DEF k
    <3>2. Lo * Hi = 16 * (k * Hi) /\ k * Hi \in Int
      BY <2>2, <3>1, SMT
    <3> DEFINE h == k * Hi
    <3> HIDE DEF h
    <3>3. h \in Int => (16 * h) % 16 = 0
      BY SMT
    <3> QED BY <3>2, <3>3 DEF Full, h
  <2> QED BY <2>1, <2>2, <2>3
<1> QED BY <1>2, <1>3, <1>4, BitKept

(* push, pushf, and calls within the segment *)
LEMMA OnePushHolds ==
  ASSUME GoodState, Good(cpu'), StackHolds,
         \/ \E v \in Value : PushValue(v)
         \/ \E r \in RegArg : PushReg(r)
         \/ \E s \in SegName : PushSeg(s)
         \/ PushFlags
         \/ \E ofs \in Offset : CallNear(ofs)
         \/ \E v \in Value : CallValue(v)
         \/ \E r \in RegArg : CallReg(r)
  PROVE  StackHolds' /\ closed' = NoFrame
<1>1. ASSUME NEW kind \in {"push", "flags"}, NEW v \in 0 .. (D - 1), NEW op,
             kind = "flags" => On(v),
             Do(op, "none", Push(cpu, N, v, W)), Opens(kind, N, v, Now, N)
      PROVE  StackHolds' /\ closed' = NoFrame
  <2>1. cpu' = Push(cpu, N, v, W)
    BY <1>1, DoneIs
  <2> QED BY <1>1, <2>1, OneHolds
<1>2. cpu.eip \in Int /\ cpu.flags \in Long /\ \A s \in SegName : cpu.seg[s].sel \in Word
  BY FieldTypes, WordsAndLongs DEF Good, GoodState
<1>3. ASSUME NEW m, m = Push(cpu, N, cpu.eip % D, W), NEW e,
             Do("call", "none", [m EXCEPT !.eip = e]), Opens("near", N, cpu.eip % D, Now, N)
      PROVE  StackHolds' /\ closed' = NoFrame
  <2>1. cpu' = [m EXCEPT !.eip = e]
    BY <1>3, DoneIs
  <2>2. cpu.eip % D \in 0 .. (D - 1) /\ cpu.eip % D \in Int
    BY <1>2, ItemsWide, WordsAndLongs
  <2>3. Good(m)
    BY <1>3, <2>2, PushGood, WidthsAre DEF GoodState
  <2>4. cpu'.mem = m.mem /\ cpu'.seg = m.seg /\ cpu'.reg = m.reg
    BY <2>1, <2>3 DEF Good, Machine
  <2> QED BY <1>3, <2>2, <2>3, <2>4, OneHolds
<1>4. ASSUME NEW v \in Value, PushValue(v) PROVE StackHolds' /\ closed' = NoFrame
  <2>1. v % D \in 0 .. (D - 1)
    BY OperandAssumption, WordsAndLongs, ItemsWide
  <2> QED BY <1>1, <1>4, <2>1 DEF PushValue
<1>5. ASSUME NEW r \in RegArg, PushReg(r) PROVE StackHolds' /\ closed' = NoFrame
  <2>1. Get(cpu, r, D) \in 0 .. (D - 1)
    BY OperandAssumption, ItemsWide DEF GoodState
  <2> QED BY <1>1, <1>5, <2>1 DEF PushReg
<1>6. ASSUME NEW s \in SegName, PushSeg(s) PROVE StackHolds' /\ closed' = NoFrame
  <2>1. cpu.seg[s].sel \in 0 .. (D - 1)
    BY <1>2, ItemsWide
  <2> QED BY <1>1, <1>6, <2>1 DEF PushSeg
<1>7. ASSUME PushFlags PROVE StackHolds' /\ closed' = NoFrame
  <2>1. Shown(cpu.flags) % D \in 0 .. (D - 1)
    BY <1>2, FlagWords, ItemsWide
  <2>2. On(Shown(cpu.flags) % D)
    BY <1>2, ShownOn
  <2> QED BY <1>1, <1>7, <2>1, <2>2 DEF PushFlags
<1>8. ASSUME NEW ofs \in Offset, CallNear(ofs) PROVE StackHolds' /\ closed' = NoFrame
  BY <1>3, <1>8 DEF CallNear
<1>9. ASSUME NEW v \in Value, CallValue(v) PROVE StackHolds' /\ closed' = NoFrame
  BY <1>3, <1>9 DEF CallValue
<1>10. ASSUME NEW r \in RegArg, CallReg(r) PROVE StackHolds' /\ closed' = NoFrame
  BY <1>3, <1>10 DEF CallReg
<1> QED
  BY <1>4, <1>5, <1>6, <1>7, <1>8, <1>9, <1>10

LEMMA PushAllHolds ==
  ASSUME GoodState, Good(cpu'), StackHolds, PushAll
  PROVE  StackHolds' /\ closed' = NoFrame
<1> DEFINE P(m, r) == Push(m, N, Get(cpu, r, D), W)
           f == Frame("all", N, 0, Saved(cpu), cpu'.reg["sp"], Height, 8 * N)
           q == P(P(P(P(P(P(P(P(cpu, "ax"), "cx"), "dx"), "bx"), "sp"), "bp"), "si"), "di")
<1>1. cpu' = q
  BY DoneIs DEF PushAll
<1>2. open' = (IF Fits(f) THEN Append(open, f) ELSE <<>>) /\ closed' = NoFrame
  BY DEF PushAll, Opens, Now
<1>3. Amount(f) = 8
  BY DEF Frame, Amount
<1> HIDE DEF f, q
<1>4. 8 * N \in Nat /\ 8 * N = Amount(f) * N
  BY <1>3, ItemsWide, SMT
<1>5. /\ Planned(open, f) /\ Grows(open, f, cpu, 0)
      /\ f.kind = "all" /\ f.n = N /\ f.w = W /\ f.before = Saved(cpu)
      /\ f.sp = cpu'.reg["sp"] /\ f.height = f.below + Amount(f) * f.n
  <2>1. "all" \in Kinds \ {"enter"} /\ cpu'.reg["sp"] \in Long
    BY FieldTypes DEF Kinds, Good, Gpr
  <2>2. 0 \in 0 .. (Width(N = 2) - 1)
    BY ItemsWide, WordsAndLongs, Sizes
  <2> QED BY <1>4, <2>1, <2>2, ItemsWide, NowStarts DEF f
<1>6. \A k : Item(f, k) = Get(cpu, AllRegs[k], D)
  BY <1>5, ItemsWide DEF Item, Saved, Get
<1>7. ASSUME NEW m, NEW c \in 0 .. 7, Grows(open, f, m, c), NEW r, r = AllRegs[c + 1]
      PROVE  Grows(open, f, P(m, r), c + 1)
  <2>1. c \in Nat /\ c + 1 =< Amount(f)
    BY <1>3, SMT
  <2>2. P(m, r) = Push(m, f.n, Item(f, c + 1), f.w)
    BY <1>5, <1>6, <1>7
  <2> HIDE DEF P
  <2> QED BY <1>5, <1>7, <2>1, <2>2, GrowsStep
<1> DEFINE q1 == P(cpu, "ax")  q2 == P(q1, "cx")  q3 == P(q2, "dx")  q4 == P(q3, "bx")
           q5 == P(q4, "sp")   q6 == P(q5, "bp")  q7 == P(q6, "si")
<1>8. q = P(q7, "di")
  BY DEF q
<1> HIDE DEF P, q1, q2, q3, q4, q5, q6, q7
<1>9. Grows(open, f, q1, 1)
  BY <1>5, <1>7 DEF AllRegs, q1
<1>10. Grows(open, f, q2, 2)
  BY <1>7, <1>9 DEF AllRegs, q2
<1>11. Grows(open, f, q3, 3)
  BY <1>7, <1>10 DEF AllRegs, q3
<1>12. Grows(open, f, q4, 4)
  BY <1>7, <1>11 DEF AllRegs, q4
<1>13. Grows(open, f, q5, 5)
  BY <1>7, <1>12 DEF AllRegs, q5
<1>14. Grows(open, f, q6, 6)
  BY <1>7, <1>13 DEF AllRegs, q6
<1>15. Grows(open, f, q7, 7)
  BY <1>7, <1>14 DEF AllRegs, q7
<1>16. Grows(open, f, q, 8)
  BY <1>7, <1>8, <1>15 DEF AllRegs
<1>17. Grows(open, f, cpu', Amount(f))
  BY <1>1, <1>3, <1>16
<1>18. f.before.seg["ss"] = cpu.seg["ss"] /\ f.kind # "enter"
  BY <1>5 DEF Saved
<1> QED
  BY <1>2, <1>5, <1>17, <1>18, OpensHolds

LEMMA LoadSegParts ==
  ASSUME NEW m, Good(m), NEW s \in SegName, NEW val
  PROVE  /\ LoadSeg(m, s, val).mem = m.mem /\ LoadSeg(m, s, val).reg = m.reg
         /\ LoadSeg(m, s, val).pe = m.pe /\ LoadSeg(m, s, val).gdt = m.gdt
         /\ LoadSeg(m, s, val).flags = m.flags
         /\ \A t \in SegName \ {s} : LoadSeg(m, s, val).seg[t] = m.seg[t]
<1> DEFINE l == Load(m.pe, m.gdt, m.seg["ldt"], m.seg[s], val)
<1> HIDE DEF l
<1>1. LoadSeg(m, s, val) = IF l.ok THEN [m EXCEPT !.seg[s] = l.reg] ELSE Raise(m, FaultGP(val))
  BY DEF LoadSeg, l
<1>2. m \in Machine /\ m.seg \in [SegName -> Reg]
  BY FieldTypes DEF Good
<1> QED
  BY <1>1, <1>2 DEF Raise, Machine

LEMMA GotoParts ==
  ASSUME NEW m, Good(m), NEW cs, NEW eip
  PROVE  /\ Goto(m, cs, eip).mem = m.mem /\ Goto(m, cs, eip).reg = m.reg
         /\ Goto(m, cs, eip).pe = m.pe /\ Goto(m, cs, eip).gdt = m.gdt
         /\ Goto(m, cs, eip).flags = m.flags
         /\ \A t \in SegName \ {"cs"} : Goto(m, cs, eip).seg[t] = m.seg[t]
         /\ Goto(m, cs, eip).seg["ss"] = m.seg["ss"]
<1> DEFINE q == LoadSeg(m, "cs", cs)
<1>1. "cs" \in SegName /\ "ss" \in SegName \ {"cs"}
  BY DEF SegName
<1>2. /\ q.mem = m.mem /\ q.reg = m.reg /\ q.pe = m.pe /\ q.gdt = m.gdt /\ q.flags = m.flags
      /\ \A t \in SegName \ {"cs"} : q.seg[t] = m.seg[t]
  BY <1>1, LoadSegParts
<1>3. Goto(m, cs, eip) = [q EXCEPT !.eip = eip]
  BY DEF Goto
<1> HIDE DEF q
<1> QED
  BY <1>1, <1>2, <1>3

LEMMA CallFarHolds ==
  ASSUME GoodState, Good(cpu'), StackHolds, NEW cs \in Selector, NEW v \in Value, CallFar(cs, v)
  PROVE  StackHolds' /\ closed' = NoFrame
<1> DEFINE f  == Frame("far", N, 0, Saved(cpu), cpu'.reg["sp"], Height, 2 * N)
           q1 == Push(cpu, N, cpu.seg["cs"].sel, W)
           q  == Push(q1, N, cpu.eip % D, W)
<1>1. cpu' = Goto(q, cs, v % D)
  BY DoneIs DEF CallFar
<1>2. open' = (IF Fits(f) THEN Append(open, f) ELSE <<>>) /\ closed' = NoFrame
  BY DEF CallFar, Opens, Now
<1>3. Amount(f) = 2
  BY DEF Frame, Amount
<1> HIDE DEF f, q, q1
<1>4. 2 * N \in Nat /\ 2 * N = Amount(f) * N
  BY <1>3, ItemsWide, SMT
<1>5. /\ Planned(open, f) /\ Grows(open, f, cpu, 0)
      /\ f.kind = "far" /\ f.n = N /\ f.w = W /\ f.before = Saved(cpu)
      /\ f.sp = cpu'.reg["sp"] /\ f.height = f.below + Amount(f) * f.n
  <2>1. "far" \in Kinds \ {"enter"} /\ cpu'.reg["sp"] \in Long
    BY FieldTypes DEF Kinds, Good, Gpr
  <2>2. 0 \in 0 .. (Width(N = 2) - 1)
    BY ItemsWide, WordsAndLongs, Sizes
  <2> QED BY <1>4, <2>1, <2>2, ItemsWide, NowStarts DEF f
<1>6. Item(f, 1) = cpu.seg["cs"].sel /\ Item(f, 2) = cpu.eip % D
  BY <1>5, ItemsWide DEF Item, Saved
<1>7. Grows(open, f, q1, 0 + 1)
  <2>1. 0 + 1 = 1 /\ 0 + 1 =< Amount(f)
    BY <1>3, SMT
  <2>2. q1 = Push(cpu, f.n, Item(f, 0 + 1), f.w)
    BY <1>5, <1>6, <2>1 DEF q1
  <2> QED BY <1>5, <2>1, <2>2, GrowsStep
<1>8. Grows(open, f, q, 1 + 1)
  <2>1. 0 + 1 = 1 /\ 1 + 1 = 2 /\ 1 + 1 =< Amount(f)
    BY <1>3, SMT
  <2>2. q = Push(q1, f.n, Item(f, 1 + 1), f.w)
    BY <1>5, <1>6, <2>1 DEF q
  <2> QED BY <1>5, <1>7, <2>1, <2>2, GrowsStep
<1>9. Grows(open, f, q, Amount(f))
  BY <1>3, <1>8
<1>10. cpu'.mem = q.mem /\ cpu'.seg["ss"] = q.seg["ss"] /\ cpu'.reg["sp"] = q.reg["sp"]
  <2>1. Good(q)
    BY <1>9 DEF Grows
  <2> QED BY <1>1, <2>1, GotoParts
<1>11. f.before.seg["ss"] = cpu.seg["ss"] /\ f.kind # "enter" /\ f.sp = q.reg["sp"]
  BY <1>5, <1>10 DEF Saved
<1> QED
  BY <1>2, <1>5, <1>9, <1>10, <1>11, OpensHolds

LEMMA SetRegIs ==
  ASSUME NEW m, Good(m), NEW r \in Gpr, NEW v \in Int, NEW w \in Widths,
         NEW q, q = SetReg(m, r, v, w)
  PROVE  /\ Good(q) /\ q.mem = m.mem /\ q.seg = m.seg /\ q.pe = m.pe /\ q.gdt = m.gdt
         /\ q.eip = m.eip /\ q.flags = m.flags
         /\ q.reg[r] = Written(m.reg[r], v, w)
         /\ \A x \in Gpr \ {r} : q.reg[x] = m.reg[x]
<1>1. Good(q)
  BY SetRegGood
<1>2. q = [m EXCEPT !.reg[r] = Written(m.reg[r], v, w)]
  BY DEF SetReg
<1>3. m \in Machine /\ m.reg \in [Gpr -> Long]
  BY FieldTypes DEF Good
<1> QED
  BY <1>1, <1>2, <1>3 DEF Machine

LEMMA SetRegDoes ==
  ASSUME NEW m, Good(m), NEW r \in Gpr, NEW v \in Int
  PROVE  /\ Good(SetReg(m, r, v, D)) /\ SetReg(m, r, v, D).mem = m.mem
         /\ SetReg(m, r, v, D).seg = m.seg /\ SetReg(m, r, v, D).pe = m.pe
         /\ SetReg(m, r, v, D).gdt = m.gdt /\ SetReg(m, r, v, D).eip = m.eip
         /\ SetReg(m, r, v, D).reg[r] = Written(m.reg[r], v, D)
         /\ \A x \in Gpr \ {r} : SetReg(m, r, v, D).reg[x] = m.reg[x]
<1> DEFINE q == SetReg(m, r, v, D)
<1>1. D \in Widths /\ q = SetReg(m, r, v, D)
  BY WidthsAre
<1> HIDE DEF q
<1>2. /\ Good(q) /\ q.mem = m.mem /\ q.seg = m.seg /\ q.pe = m.pe /\ q.gdt = m.gdt
      /\ q.eip = m.eip /\ q.reg[r] = Written(m.reg[r], v, D)
      /\ \A x \in Gpr \ {r} : q.reg[x] = m.reg[x]
  BY <1>1, SetRegIs, SMTT(30)
<1> QED BY <1>2 DEF q

LEMMA CheckParts ==
  ASSUME NEW m, Good(m), NEW s \in SegName, NEW ofs, NEW n, NEW q, q = Check(m, s, ofs, n)
  PROVE  /\ q.mem = m.mem /\ q.seg = m.seg /\ q.pe = m.pe /\ q.gdt = m.gdt
         /\ q.eip = m.eip /\ q.flags = m.flags /\ q.reg = m.reg
BY DEF Check, Raise, Good, Machine

(* While ENTER copies frame pointers, p words are on top of the frames. *)
Taken == ins.dest - copies.local - copies.left * N

EnterFits == Height + ins.dest < W /\ W = SsWidth(cpu)

EnterHolds ==
  /\ ins.dest \in Nat /\ Taken \in Nat /\ Taken >= Size(mode.stack32)
  /\ was.seg["ss"] = cpu.seg["ss"]
  /\ Down(cpu, was.reg["sp"], Taken, W)
  /\ EnterFits => /\ Stacked(open, cpu, was.reg["sp"])
                  /\ Laid(cpu, Seen(was.reg["sp"], W), Size(mode.stack32), Size(mode.stack32), W)
                       = Seen(was.reg["bp"], W)

LEMMA StackSize == W = Width(Size(mode.stack32) = 2) /\ Size(mode.stack32) \in {1, 2}
BY DEF W, Size, Width

LEMMA Untouched ==
  ASSUME PathInv, stage = "exec"
  PROVE  /\ \A r \in Gpr : cpu.reg[r] = was.reg[r]
         /\ cpu.seg = was.seg /\ cpu.pe = was.pe /\ cpu.flags = was.flags
BY DEF Chain, PathInv

LEMMA PushSegs ==
  ASSUME NEW m, Good(m), NEW n \in {1, 2}, NEW v \in Int, NEW w \in Widths
  PROVE  Push(m, n, v, w).seg = m.seg
<1> DEFINE m1 == SetReg(m, "sp", Get(m, "sp", w) - n, w)
<1>1. "sp" \in Gpr /\ "ss" \in SegName /\ Get(m, "sp", w) - n \in Int
  <2>1. "sp" \in Gpr /\ Get(m, "sp", w) \in Int
    BY GetLong DEF Gpr
  <2> QED BY <2>1, SMT DEF SegName
<1>2. Good(m1) /\ m1.seg = m.seg
  BY <1>1, SetRegIs
<1> HIDE DEF m1
<1>3. Push(m, n, v, w) = Stored(m1, "ss", Get(m1, "sp", w), n, v)
  BY ZenonT(60) DEF Push, m1
<1> QED
  BY <1>1, <1>2, <1>3, StoredIs

LEMMA EnterWords ==
  ASSUME TypeOK
  PROVE  /\ copies.left \in 0 .. 31 /\ copies.left * N \in Nat
         /\ copies.local \in Nat /\ copies.fp \in Long /\ copies.fp \in Int
         /\ was \in Found
<1>1. copies.left \in 0 .. 31 /\ copies.local \in Word /\ copies.fp \in Long /\ was \in Found
  BY DEF TypeOK, Found
<1>2. copies.left * N \in Nat
  <2>1. N \in {1, 2}
    BY WidthsAre
  <2> HIDE DEF N
  <2> QED BY <1>1, <2>1, SMT
<1>3. copies.local \in Nat
  BY <1>1, SMT DEF Word
<1> QED
  BY <1>1, <1>2, <1>3, WordsAndLongs

LEMMA EnterBegins ==
  ASSUME GoodState, PathInv, StackHolds, NEW local \in Count, NEW level \in Depth,
         Enter(local, level)
  PROVE  EnterHolds'
<1> DEFINE k == Size(mode.stack32)
           dest == k + level * N + local
           f == Frame("enter", k, 0, was, cpu'.reg["sp"], Height, dest)
           v == Get(cpu, "bp", W)
<1>1. /\ stage = "exec" /\ cpu' = Push(cpu, k, v, W) /\ ins'.dest = dest
      /\ copies'.left = level /\ copies'.local = local
      /\ UNCHANGED <<mode, was, open>>
  BY DEF Enter
<1>2. k \in {1, 2} /\ W = Width(k = 2) /\ N \in {1, 2}
  BY StackSize, WidthsAre
<1> HIDE DEF k
<1>3. level * N \in Nat /\ local \in Nat /\ dest \in Nat /\ dest >= k
      /\ (dest - local) - level * N = k
  <2>1. level \in 0 .. 31 /\ local \in Word
    BY OperandAssumption
  <2>2. local \in Nat
    BY <2>1, SMT DEF Word
  <2>3. level * N \in Nat
    <3> HIDE DEF N
    <3> QED BY <1>2, <2>1, SMT
  <2> DEFINE z == level * N
  <2> HIDE DEF z
  <2>4. z \in Nat
    BY <2>3 DEF z
  <2>5. k + z + local \in Nat /\ k + z + local >= k /\ ((k + z + local) - local) - z = k
    BY <1>2, <2>2, <2>4, SMT
  <2> QED BY <2>2, <2>3, <2>5 DEF z
<1> HIDE DEF dest
<1>4. was \in Found /\ was.reg["sp"] = cpu.reg["sp"] /\ was.reg["bp"] = cpu.reg["bp"]
      /\ was.seg["ss"] = cpu.seg["ss"]
  BY <1>1, Untouched, EnterWords DEF GoodState, Gpr
<1>5. v \in Int
  BY GetLong, WidthsAre DEF GoodState, Gpr
<1>6. Good(cpu') /\ cpu'.seg = cpu.seg
  <2>1. Good(Push(cpu, k, v, W))
    BY <1>2, <1>5, PushGood, WidthsAre DEF GoodState
  <2> QED BY <1>1, <1>2, <1>5, <2>1, PushSegs, WidthsAre DEF GoodState
<1>7. open \in Seq(Frames) /\ Height = Deep(open) /\ Height \in Nat
  BY HeightIs, DeepIs DEF StackHolds, Stacked
<1>8. /\ f.kind = "enter" /\ f.n = k /\ f.w = W /\ f.val = 0 /\ f.before = was
      /\ f.below = Height /\ f.height = Height + dest
  BY DEF Frame
<1>9. f \in Frames
  <2>1. "enter" \in Kinds /\ cpu'.reg["sp"] \in Long
    BY <1>6, FieldTypes DEF Kinds, Good, Gpr
  <2>2. ItemWide(0, k)
    <3>1. Width(k = 2) \in Nat \ {0}
      BY <1>2, WidthsAre, WidthsPositive
    <3> HIDE DEF Width
    <3> QED BY <3>1, SMT DEF ItemWide
  <2> QED BY <1>2, <1>3, <1>4, <1>7, <2>1, <2>2, FrameIs
<1> HIDE DEF f
<1>10. Amount(f) = 1 /\ 0 + 1 =< Amount(f) /\ (0 + 1) * k = k /\ 1 * k = k
  BY <1>2, <1>8, SMT DEF Amount
<1>11. Planned(open, f)
  <2>1. f.val \in 0 .. (Width(f.n = 2) - 1)
    <3>1. Width(k = 2) \in Nat \ {0}
      BY <1>2, WidthsAre, WidthsPositive
    <3> HIDE DEF Width
    <3> QED BY <1>8, <3>1, SMT
  <2>2. f.height >= f.below + Amount(f) * f.n
    <3>1. Amount(f) * f.n = k
      BY <1>8, <1>10
    <3>2. Height + dest >= Height + k
      BY <1>2, <1>3, <1>7, SMT
    <3> QED BY <1>8, <3>1, <3>2
  <2> QED BY <1>2, <1>7, <1>8, <1>9, <2>1, <2>2 DEF Planned
<1>12. Grows(open, f, cpu, 0)
  BY <1>4, <1>8, <1>11, GrowsFirst DEF GoodState, StackHolds, Sp
<1>13. v = Item(f, 0 + 1)
  BY <1>4, <1>8 DEF Item, Get
<1>14. Grows(open, f, cpu', 0 + 1)
  BY <1>1, <1>8, <1>10, <1>11, <1>12, <1>13, GrowsStep
<1>15. W' = W /\ N' = N /\ Size(mode.stack32)' = k /\ Height' = Height /\ Taken' = k
  BY <1>1, <1>3 DEF W, N, Height, Taken, k
<1>16. Down(cpu', was.reg["sp"], k, W)
  BY <1>8, <1>10, <1>14 DEF Grows, Sp
<1>17. EnterFits' => Room(open, f, cpu')
  BY <1>1, <1>8, <1>15 DEF EnterFits, Room
<1>18. Room(open, f, cpu') => Stacked(open, cpu', was.reg["sp"])
                             /\ Laid(cpu', Seen(was.reg["sp"], W), k, k, W) = Seen(was.reg["bp"], W)
  <2>1. Held(f, cpu', 1) => Laid(cpu', Seen(Sp(f), f.w), 1 * f.n, f.n, f.w) = Item(f, 1)
    <3>1. 1 \in 1 .. 1
      BY SMT
    <3> QED BY <3>1 DEF Held
  <2>2. 0 + 1 = 1
    BY SMT
  <2>3. Item(f, 1) = Seen(was.reg["bp"], W)
    BY <1>8 DEF Item
  <2> QED BY <1>8, <1>10, <1>14, <2>1, <2>2, <2>3 DEF Grows, Sp
<1>19. ins'.dest \in Nat /\ k \in Nat /\ k >= k
  BY <1>1, <1>2, <1>3
<1>20. was'.seg["ss"] = cpu'.seg["ss"] /\ was' = was /\ open' = open
  BY <1>1, <1>4, <1>6
<1> QED
  BY <1>15, <1>16, <1>17, <1>18, <1>19, <1>20 DEF EnterHolds

LEMMA TimesSize ==
  ASSUME NEW l \in 0 .. 31, NEW n \in {1, 2}
  PROVE  /\ l * n \in Nat /\ (l - 1) * n = l * n - n
         /\ l > 1 => l * n >= n
         /\ l = 0 => l * n = 0
         /\ l # 0 /\ l =< 1 => l * n = n
BY SMT

LEMMA EnterGoes ==
  ASSUME GoodState, open \in Seq(Frames), EnterHolds, EnterCopy
  PROVE  EnterHolds'
<1> DEFINE k == Size(mode.stack32)
           r == was.reg["sp"]
           m1 == SetReg(cpu, "bp", Get(cpu, "bp", W) - N, W)
           ofs == Get(m1, "bp", W)
           m2 == Check(m1, "ss", ofs, N)
           v == Fetched(m1, "ss", ofs, N)
           p == Taken
<1>1. /\ copies.left > 1 /\ cpu' = Push(m2, N, v, W)
      /\ copies' = [copies EXCEPT !.left = copies.left - 1]
      /\ UNCHANGED <<mode, ins, was, open>>
  BY DEF EnterCopy
<1>2. k \in {1, 2} /\ W \in Widths /\ N \in {1, 2} /\ W \in Nat
  BY StackSize, WidthsAre, WidthsPositive
<1>3. "bp" \in Gpr /\ "sp" \in Gpr \ {"bp"} /\ "ss" \in SegName
  BY DEF Gpr, SegName
<1>4. Get(cpu, "bp", W) - N \in Int
  <2>1. Get(cpu, "bp", W) \in Int
    BY <1>3, GetLong, WidthsAre DEF GoodState
  <2> QED BY <1>2, <2>1, SMT
<1>5. Good(m1) /\ m1.mem = cpu.mem /\ m1.seg = cpu.seg /\ m1.reg["sp"] = cpu.reg["sp"]
  BY <1>2, <1>3, <1>4, SetRegIs DEF GoodState
<1> HIDE DEF m1
<1>6. ofs \in Int
  BY <1>2, <1>3, <1>5, GetLong
<1> HIDE DEF ofs
<1>7. Good(m2) /\ v \in Long /\ v \in Int
  BY <1>2, <1>3, <1>5, <1>6, CheckGood, TopLong, WordsAndLongs
<1>8. m2.mem = cpu.mem /\ m2.seg = cpu.seg /\ m2.reg["sp"] = cpu.reg["sp"]
  BY <1>3, <1>5, CheckParts
<1> HIDE DEF m2, v
<1>9. r \in Long /\ copies.left * N \in Nat /\ copies.local \in Nat /\ was \in Found
      /\ copies.left \in 0 .. 31
  <2>1. was \in Found
    BY EnterWords DEF GoodState
  <2> QED BY <1>3, <2>1, EnterWords DEF Found, GoodState
<1>10. ins.dest \in Nat /\ p \in Nat /\ p >= k /\ Down(m2, r, p, W) /\ p \in Int
  <2>1. ins.dest \in Nat /\ p \in Nat /\ p >= k /\ Down(cpu, r, p, W)
    BY DEF EnterHolds
  <2>2. Down(m2, r, p, W)
    BY <1>8, <2>1 DEF Down
  <2> HIDE DEF p
  <2>3. p \in Int
    BY <2>1, SMT
  <2> QED BY <2>1, <2>2, <2>3
<1>11. p + N =< ins.dest /\ p + N \in Nat
       /\ (ins.dest - copies.local) - (copies.left - 1) * N = p + N
  <2> DEFINE z == copies.left * N
             x == (copies.left - 1) * N
             a == copies.local
             d == ins.dest
  <2>1. x = z - N /\ z >= N /\ z \in Nat
    BY <1>1, <1>2, <1>9, TimesSize
  <2>2. p = (d - a) - z /\ d \in Nat /\ a \in Nat /\ p \in Nat /\ p \in Int
    BY <1>9, <1>10 DEF Taken
  <2> HIDE DEF z, x, a, d, p
  <2>3. p + N =< d /\ p + N \in Nat /\ (d - a) - x = p + N
    BY <1>2, <2>1, <2>2, SMT
  <2> QED BY <2>3 DEF x, a, d
<1> HIDE DEF p
<1>12. Good(cpu') /\ cpu'.seg = cpu.seg /\ Down(cpu', r, p + N, W)
       /\ \A b \in Int, j \in {1, 2} : b =< p /\ ((p + N) - b) + j =< W =>
            Laid(cpu', Seen(r, W), b, j, W) = Laid(m2, Seen(r, W), b, j, W)
  BY <1>1, <1>2, <1>7, <1>8, <1>9, <1>10, PushIs, SMTT(30)
<1>13. copies'.left = copies.left - 1 /\ copies'.local = copies.local
  BY <1>1 DEF GoodState, TypeOK
<1>14. W' = W /\ N' = N /\ Size(mode.stack32)' = k /\ Height' = Height /\ Taken' = p + N
       /\ ins'.dest = ins.dest
  <2>1. W' = W /\ N' = N /\ Size(mode.stack32)' = k /\ Height' = Height /\ ins' = ins
    BY <1>1 DEF W, N, Height
  <2>2. Taken' = (ins.dest - copies'.local) - copies'.left * N
    BY <2>1 DEF Taken
  <2> QED BY <1>11, <1>13, <2>1, <2>2
<1>15. ASSUME EnterFits
       PROVE  Stacked(open, cpu', r) /\ Laid(cpu', Seen(r, W), k, k, W) = Seen(was.reg["bp"], W)
  <2>1. Stacked(open, cpu, r) /\ Laid(cpu, Seen(r, W), k, k, W) = Seen(was.reg["bp"], W)
    BY <1>15 DEF EnterHolds
  <2>2. Stacked(open, m2, r)
    BY <1>8, <2>1, StackedSame
  <2>3. Height = Deep(open) /\ Height \in Nat
    BY HeightIs, DeepIs
  <2>4. Height + ins.dest < W /\ W = SsWidth(cpu) /\ W = SsWidth(m2)
    BY <1>8, <1>15 DEF EnterFits, SsWidth
  <2>5. (Height + p) + N =< W /\ ((p + N) - k) + k =< W /\ k \in Int /\ k =< p
    BY <1>2, <1>10, <1>11, <2>3, <2>4, SMT
  <2>6. Stacked(open, cpu', r)
    BY <1>1, <1>2, <1>7, <1>9, <1>10, <2>2, <2>3, <2>4, <2>5, StackedKept
  <2>7. Laid(cpu', Seen(r, W), k, k, W) = Laid(m2, Seen(r, W), k, k, W)
    BY <1>2, <1>12, <2>5
  <2>8. Laid(m2, Seen(r, W), k, k, W) = Laid(cpu, Seen(r, W), k, k, W)
    BY <1>8 DEF Laid, Fetched, Linear
  <2> QED BY <2>1, <2>6, <2>7, <2>8
<1>16. EnterFits' <=> EnterFits
  BY <1>12, <1>14 DEF EnterFits, SsWidth
<1>17. was' = was /\ open' = open /\ was.seg["ss"] = cpu'.seg["ss"]
  BY <1>1, <1>12 DEF EnterHolds
<1>18. p + N >= k
  BY <1>2, <1>10, SMT
<1> QED
  BY <1>10, <1>11, <1>12, <1>14, <1>15, <1>16, <1>17, <1>18 DEF EnterHolds

LEMMA EnterEnds ==
  ASSUME GoodState, open \in Seq(Frames), EnterHolds, EnterEnd
  PROVE  StackHolds' /\ closed' = NoFrame
<1> DEFINE k == Size(mode.stack32)
           r == was.reg["sp"]
           s == Seen(r, W)
           p == Taken
           e == ins.dest - copies.local
           m1 == IF copies.left = 0 THEN cpu ELSE Push(cpu, N, copies.fp % D, W)
           m2 == SetReg(m1, "bp", copies.fp, W)
           f  == Frame("enter", k, 0, was, cpu'.reg["sp"], Height, ins.dest)
<1>1. /\ copies.left =< 1 /\ cpu' = SetReg(m2, "sp", Get(m2, "sp", W) - copies.local, W)
      /\ open' = (IF Fits(f) THEN Append(open, f) ELSE <<>>) /\ closed' = NoFrame
  BY DEF EnterEnd, Opens
<1>2. k \in {1, 2} /\ W \in Widths /\ N \in {1, 2} /\ W \in Nat /\ W = Width(k = 2)
  BY StackSize, WidthsAre, WidthsPositive
<1>3. "bp" \in Gpr /\ "sp" \in Gpr \ {"bp"} /\ "ss" \in SegName /\ "sp" \in Gpr
  BY DEF Gpr, SegName
<1>4. r \in Long /\ copies.left * N \in Nat /\ copies.local \in Nat /\ was \in Found
      /\ copies.left \in 0 .. 31 /\ copies.fp \in Int /\ copies.fp % D \in Int
  <2>1. was \in Found
    BY EnterWords DEF GoodState
  <2> QED BY <1>3, <2>1, EnterWords, WordsAndLongs DEF Found, GoodState
<1>5. ins.dest \in Nat /\ p \in Nat /\ p >= k /\ Down(cpu, r, p, W) /\ p \in Int
      /\ was.seg["ss"] = cpu.seg["ss"]
  <2>1. ins.dest \in Nat /\ p \in Nat /\ p >= k /\ Down(cpu, r, p, W)
        /\ was.seg["ss"] = cpu.seg["ss"]
    BY DEF EnterHolds
  <2> HIDE DEF p
  <2>3. p \in Int
    BY <2>1, SMT
  <2> QED BY <2>1, <2>3
<1>6. s \in Int /\ s \in 0 .. (W - 1)
  BY <1>2, <1>4, SeenLong, WordsAndLongs
<1>7. /\ e \in Int /\ e =< ins.dest /\ e >= p
      /\ copies.left = 0 => e = p
      /\ copies.left # 0 => e = p + N
  <2> DEFINE z == copies.left * N
  <2>1. (copies.left = 0 => z = 0) /\ (copies.left # 0 => z = N) /\ z \in Nat
    BY <1>1, <1>2, <1>4, TimesSize
  <2>2. p = (ins.dest - copies.local) - z
    BY DEF Taken
  <2> DEFINE a == copies.local
             d == ins.dest
  <2>3. a \in Nat /\ d \in Nat /\ p \in Int /\ p = (d - a) - z /\ e = d - a
    BY <1>4, <1>5, <2>2
  <2> HIDE DEF z, p, e, a, d
  <2>4. e \in Int /\ e =< d /\ e >= p /\ e = p + z /\ p + 0 = p
    BY <2>1, <2>3, SMT
  <2>5. copies.left = 0 => e = p
    BY <2>1, <2>4
  <2>6. copies.left # 0 => e = p + N
    BY <2>1, <2>4
  <2> QED BY <2>4, <2>5, <2>6 DEF d
<1> HIDE DEF p, e, s, r, k, f
<1>8. Height = Deep(open) /\ Height \in Nat
  BY HeightIs, DeepIs
<1>9. /\ Good(m1) /\ m1.seg = cpu.seg /\ Down(m1, r, e, W)
      /\ EnterFits => Stacked(open, m1, r) /\ Laid(m1, s, k, k, W) = Seen(was.reg["bp"], W)
  <2>1. EnterFits => Stacked(open, cpu, r) /\ Laid(cpu, s, k, k, W) = Seen(was.reg["bp"], W)
    BY DEF EnterHolds, r, s, k
  <2>2. CASE copies.left = 0
    <3>1. m1 = cpu
      BY <2>2
    <3>2. e = p
      BY <1>7, <2>2
    <3> HIDE DEF m1
    <3> QED BY <1>5, <2>1, <3>1, <3>2 DEF GoodState
  <2>3. CASE copies.left # 0
    <3>1. m1 = Push(cpu, N, copies.fp % D, W)
      BY <2>3
    <3> HIDE DEF m1
    <3>2. /\ Good(m1) /\ m1.seg = cpu.seg /\ Down(m1, r, p + N, W)
          /\ \A b \in Int, j \in {1, 2} : b =< p /\ ((p + N) - b) + j =< W =>
               Laid(m1, s, b, j, W) = Laid(cpu, s, b, j, W)
      BY <1>2, <1>4, <1>5, <3>1, PushIs DEF GoodState, s
    <3>4. e = p + N
      BY <1>7, <2>3
    <3>3. ASSUME EnterFits
          PROVE  Stacked(open, m1, r) /\ Laid(m1, s, k, k, W) = Seen(was.reg["bp"], W)
      <4>1. Height + ins.dest < W /\ W = SsWidth(cpu)
        BY <3>3 DEF EnterFits
      <4>2. (Height + p) + N =< W /\ ((p + N) - k) + k =< W /\ k \in Int /\ k =< p
        BY <1>2, <1>5, <1>7, <1>8, <3>4, <4>1, SMT
      <4>3. Stacked(open, m1, r)
        BY <1>2, <1>4, <1>5, <1>8, <2>1, <3>1, <3>3, <4>1, <4>2, StackedKept DEF GoodState
      <4>4. Laid(m1, s, k, k, W) = Laid(cpu, s, k, k, W)
        BY <1>2, <3>2, <4>2
      <4> QED BY <2>1, <3>3, <4>3, <4>4
    <3> QED BY <3>2, <3>3, <3>4
  <2> QED BY <2>2, <2>3
<1> HIDE DEF m1
<1>10. Good(m2) /\ m2.mem = m1.mem /\ m2.seg = m1.seg /\ m2.reg["sp"] = m1.reg["sp"]
  BY <1>2, <1>3, <1>4, <1>9, SetRegIs
<1> HIDE DEF m2
<1>11. Get(m2, "sp", W) - copies.local \in Int
  <2>1. Get(m2, "sp", W) \in Int
    BY <1>2, <1>3, <1>10, GetLong
  <2> QED BY <1>4, <2>1, SMT
<1>12. Good(cpu') /\ cpu'.mem = m1.mem /\ cpu'.seg = cpu.seg
       /\ cpu'.reg["sp"] = Written(m1.reg["sp"], Get(m2, "sp", W) - copies.local, W)
  BY <1>1, <1>2, <1>3, <1>9, <1>10, <1>11, SetRegIs
<1>13. cpu'.reg["sp"] = Written(r, s - ins.dest, W)
  <2> DEFINE a == copies.local
             d == ins.dest
             g == Get(m2, "sp", W)
  <2>1. m1.reg["sp"] = Written(r, s - e, W) /\ g = Seen(m1.reg["sp"], W)
    BY <1>9, <1>10 DEF Down, s, Get
  <2>2. s - e \in Int /\ s - ins.dest \in Int /\ (s - e) + (-a) = s - ins.dest /\ -a \in Int
    <3>1. e = d - a /\ a \in Nat /\ d \in Nat /\ s \in Int
      BY <1>4, <1>5, <1>6 DEF e
    <3> HIDE DEF a, d, e, s
    <3>2. s - e \in Int /\ s - d \in Int /\ (s - e) + (-a) = s - d /\ -a \in Int
      BY <3>1, SMT
    <3> QED BY <3>2 DEF d
  <2>3. g = (s - e) % W
    BY <1>2, <1>4, <2>1, <2>2, WrittenIs
  <2>4. g - a = g + (-a) /\ g - a \in Int
    <3>1. g \in Int
      BY <1>2, <1>3, <1>10, GetLong
    <3> HIDE DEF g
    <3> QED BY <1>4, <3>1, SMT
  <2>5. (((s - e) % W) + (-a)) % W = ((s - e) + (-a)) % W
    BY <1>2, <2>2, ModPlus, WidthsPositive
  <2>6. (g - a) % W = (s - ins.dest) % W
    BY <2>2, <2>3, <2>4, <2>5
  <2>7. cpu'.reg["sp"] = Written(r, g - a, W)
    <3> HIDE DEF g, a
    <3>1. cpu'.reg["sp"] = Written(Written(r, s - e, W), g - a, W)
      BY <1>12, <2>1 DEF g, a
    <3> QED BY <1>2, <1>4, <2>2, <2>4, <3>1, WrittenIs
  <2> HIDE DEF g, a
  <2> QED BY <2>6, <2>7 DEF Written
<1>14. /\ f.kind = "enter" /\ f.n = k /\ f.w = W /\ f.val = 0 /\ f.before = was
       /\ f.sp = cpu'.reg["sp"] /\ f.below = Height /\ f.height = Height + ins.dest
  BY DEF Frame, f
<1>15. f \in Frames
  <2>1. "enter" \in Kinds /\ cpu'.reg["sp"] \in Long
    BY <1>12, FieldTypes DEF Kinds, Good, Gpr
  <2>2. ItemWide(0, k)
    <3>1. Width(k = 2) \in Nat \ {0}
      BY <1>2, WidthsPositive
    <3> HIDE DEF Width
    <3> QED BY <3>1, SMT DEF ItemWide
  <2> QED BY <1>2, <1>4, <1>5, <1>8, <2>1, <2>2, FrameIs DEF f
<1>16. CASE Fits(f)
  <2>1. EnterFits
    BY <1>14, <1>16 DEF Fits, EnterFits, SsWidth
  <2>2. Stacked(open, m1, r) /\ Laid(m1, s, k, k, W) = Seen(was.reg["bp"], W)
    BY <1>9, <2>1
  <2>3. Stacked(open, cpu', r)
    BY <1>9, <1>12, <2>2, StackedSame
  <2>4. Laid(cpu', s, k, k, W) = Seen(was.reg["bp"], W)
    <3>1. Laid(cpu', s, k, k, W) = Laid(m1, s, k, k, W)
      BY <1>9, <1>12 DEF Laid, Fetched, Linear
    <3> QED BY <2>2, <3>1
  <2>5. Amount(f) = 1 /\ 1 * k = k /\ Extent(f) = ins.dest /\ ins.dest >= k
    <3>1. (Height + ins.dest) - Height = ins.dest
      BY <1>5, <1>8, SMT
    <3>2. ins.dest >= k
      <4>1. e =< ins.dest /\ e >= p /\ e \in Int
        BY <1>7
      <4> QED BY <1>2, <1>5, <4>1, SMT
    <3> QED BY <1>2, <1>14, <3>1, <3>2, SMT DEF Amount, Extent
  <2>6. Sp(f) = r /\ f.before.seg["ss"] = cpu'.seg["ss"] /\ f.w = SsWidth(cpu') /\ f.height < f.w
    BY <1>5, <1>12, <1>14, <1>16 DEF Sp, r, Fits, SsWidth
  <2>7. Shape(f)
    <3>1. f.val \in 0 .. (Width(f.n = 2) - 1)
      <4>1. Width(k = 2) \in Nat \ {0}
        BY <1>2, WidthsPositive
      <4> HIDE DEF Width
      <4> QED BY <1>14, <4>1, SMT
    <3>2. Extent(f) >= Amount(f) * f.n
      BY <1>14, <2>5
    <3>3. f.sp = Written(Sp(f), Seen(Sp(f), f.w) - Extent(f), f.w)
      BY <1>13, <1>14, <2>5, <2>6 DEF s
    <3> QED BY <1>2, <1>14, <3>1, <3>2, <3>3 DEF Shape
  <2>8. Items(f, cpu')
    <3>1. \A j \in 1 .. 1 : j = 1
      BY SMT
    <3>2. Item(f, 1) = Seen(was.reg["bp"], W)
      BY <1>14 DEF Item
    <3> QED BY <1>14, <2>4, <2>5, <2>6, <3>1, <3>2 DEF Items, s
  <2>9. Stacked(Append(open, f), cpu', f.sp)
    BY <1>4, <1>8, <1>14, <1>15, <2>3, <2>6, <2>7, <2>8, StackedPush
  <2> QED BY <1>1, <1>14, <1>16, <2>9 DEF StackHolds
<1>17. CASE ~Fits(f)
  BY <1>1, <1>17, StackedNone DEF StackHolds
<1> QED
  BY <1>1, <1>16, <1>17

(* One push more, and the frame is complete. *)
LEMMA DeliverHolds ==
  ASSUME GoodState, StackHolds, saved.cs = was.seg["cs"].sel, Deliver
  PROVE  StackHolds' /\ closed' = NoFrame
<1> DEFINE i   == cpu.intr
           n   == Size(cpu.pe /\ mode.code32)
           d   == Width(n = 2)
           cs  == IF i.restart THEN saved.cs ELSE cpu.seg["cs"].sel
           eip == IF i.restart THEN saved.eip ELSE cpu.eip
           to  == Handler(cpu.pe, cpu.idt, i.nr, cs, eip)
           b   == IF i.restart THEN [Saved(cpu) EXCEPT !.eip = eip, !.seg["cs"] = was.seg["cs"]]
                  ELSE Saved(cpu)
           p1  == Push(cpu, n, cpu.flags % d, W)
           p2  == Push(p1, n, cs, W)
           m1  == Push(p2, n, eip % d, W)
           m2  == IF i.err = -1 THEN m1 ELSE Push(m1, 2, i.err, W)
           fl  == [m2 EXCEPT !.flags = ClearIfTf(cpu.flags)]
           m3  == Goto(fl, to.cs, to.eip)
           f1  == Frame("intr", n, 0, b, m1.reg["sp"], Height, 3 * n)
           f2  == Frame("push", 2, i.err, Saved(m1), m2.reg["sp"], f1.height, 2)
<1>1. /\ cpu' = [m3 EXCEPT !.intr = None] /\ i # None /\ closed' = NoFrame
      /\ open' = IF i.err = -1
                 THEN IF Fits(f1) THEN Append(open, f1) ELSE <<>>
                 ELSE IF Fits(f1) /\ Fits(f2) THEN Append(Append(open, f1), f2) ELSE <<>>
  BY DEF Deliver, Now
<1>22. /\ ~Fits(f1) => open' = <<>>
       /\ Fits(f1) /\ i.err = -1 => open' = Append(open, f1)
       /\ Fits(f1) /\ i.err # -1 /\ ~Fits(f2) => open' = <<>>
       /\ Fits(f1) /\ i.err # -1 /\ Fits(f2) => open' = Append(Append(open, f1), f2)
  <2> HIDE DEF i, f1, f2
  <2> QED BY <1>1
<1>23. closed' = NoFrame
  BY <1>1
<1>2. n \in {1, 2} /\ d \in Widths
  BY DEF Size, Width, Widths
<1>3. i.err = -1 \/ i.err \in Word
  <2>1. i \in Intr
    BY <1>1, FieldTypes DEF GoodState, Good
  <2> QED BY <2>1 DEF Intr
<1>4. cs \in Word /\ eip \in Long /\ was \in Found /\ was.seg["cs"].sel \in Word
  <2>1. was \in Found /\ saved \in [cs : Word, eip : Long]
    BY EnterWords DEF GoodState, TypeOK
  <2>2. was.seg["cs"].sel \in Word
    BY <2>1 DEF Found, SegName, Reg
  <2> QED BY <2>1, <2>2, FieldTypes DEF GoodState, Good, SegName
<1>5. /\ b \in Found /\ b.reg = cpu.reg /\ b.seg["ss"] = cpu.seg["ss"]
      /\ b.flags = cpu.flags /\ b.eip = eip /\ b.seg["cs"].sel = cs
  <2>1. Saved(cpu) \in Found
    BY NowFound DEF GoodState
  <2>2. /\ Saved(cpu).reg = cpu.reg /\ Saved(cpu).seg = cpu.seg
        /\ Saved(cpu).flags = cpu.flags /\ Saved(cpu).eip = cpu.eip
    BY DEF Saved
  <2>3. cpu.seg \in [SegName -> Reg] /\ "cs" \in SegName /\ "ss" \in SegName \ {"cs"}
        /\ was.seg["cs"] \in Reg
    BY <1>4, FieldTypes DEF GoodState, Good, SegName, Found
  <2> DEFINE g == Saved(cpu)
             z == was.seg["cs"]
  <2>4. g \in Found /\ g.seg = cpu.seg /\ g.reg = cpu.reg /\ g.flags = cpu.flags
    BY <2>1, <2>2
  <2> HIDE DEF g, z, eip
  <2>5. /\ [g EXCEPT !.eip = eip, !.seg["cs"] = z] \in Found
        /\ [g EXCEPT !.eip = eip, !.seg["cs"] = z].reg = g.reg
        /\ [g EXCEPT !.eip = eip, !.seg["cs"] = z].eip = eip
        /\ [g EXCEPT !.eip = eip, !.seg["cs"] = z].flags = g.flags
        /\ [g EXCEPT !.eip = eip, !.seg["cs"] = z].seg["cs"] = z
        /\ [g EXCEPT !.eip = eip, !.seg["cs"] = z].seg["ss"] = g.seg["ss"]
    BY <1>4, <2>3, <2>4 DEF Found, z
  <2>6. CASE i.restart
    <3>1. b = [g EXCEPT !.eip = eip, !.seg["cs"] = z] /\ cs = saved.cs
      BY <2>6 DEF g, z
    <3> QED BY <2>3, <2>4, <2>5, <3>1 DEF z
  <2>7. CASE ~i.restart
    <3>1. b = g /\ cs = cpu.seg["cs"].sel /\ eip = cpu.eip
      BY <2>7 DEF g, eip
    <3> QED BY <2>2, <2>4, <3>1 DEF g
  <2> QED BY <2>6, <2>7
<1> HIDE DEF i, n, d, cs, eip, to, b, p1, p2, m1, m2, fl, m3, f1, f2
<1>6. cpu.flags % d \in Int /\ eip % d \in Int /\ cs \in Int /\ 3 * n \in Nat
      /\ ClearIfTf(cpu.flags) \in Long
  <2>1. d \in Nat \ {0} /\ cpu.flags \in Long /\ cpu.flags \in Int /\ eip \in Int /\ cs \in Int
    BY <1>2, <1>4, WidthsPositive, FieldTypes, WordsAndLongs DEF GoodState, Good
  <2>4. \A x \in Int : x % d \in Int
    BY <2>1, SMT
  <2>2. cpu.flags % d \in Int /\ eip % d \in Int
    BY <2>1, <2>4
  <2>3. 3 * n \in Nat
    BY <1>2, SMT
  <2> QED BY <2>1, <2>2, <2>3, FlagWords
<1>7. Good(p1) /\ Good(p2) /\ Good(m1)
  BY <1>2, <1>6, PushGood, WidthsAre DEF GoodState, p1, p2, m1
<1>8. Good(m2)
  <2>1. i.err # -1 => i.err \in Int
    BY <1>3, WordsAndLongs
  <2> QED BY <1>7, <2>1, PushGood, WidthsAre DEF m2
<1>9. /\ m1.reg["sp"] \in Long /\ m2.reg["sp"] \in Long
  BY <1>7, <1>8, FieldTypes DEF Good, Gpr
<1>10. Height = Deep(open)
  BY HeightIs
<1>11. Amount(f1) = 3 /\ Amount(f2) = 1 /\ f1.sp = m1.reg["sp"] /\ f2.sp = m2.reg["sp"]
       /\ f1.height = Height + 3 * n
  BY DEF Amount, Frame, f1, f2
<1>12. /\ Planned(open, f1) /\ Grows(open, f1, cpu, 0)
       /\ f1.kind = "intr" /\ f1.n = n /\ f1.w = W /\ f1.before = b
       /\ f1.height = f1.below + Amount(f1) * f1.n
  <2>1. "intr" \in Kinds \ {"enter"}
    BY DEF Kinds
  <2>2. 0 \in 0 .. (Width(n = 2) - 1)
    <3>1. Width(n = 2) \in Nat \ {0}
      BY <1>2, WidthsPositive DEF d
    <3> HIDE DEF Width
    <3> QED BY <3>1, SMT
  <2>3. b.reg["sp"] = cpu.reg["sp"]
    BY <1>5
  <2> QED BY <1>2, <1>5, <1>6, <1>9, <1>10, <1>11, <2>1, <2>2, <2>3, FrameStarts
             DEF f1, GoodState, StackHolds
<1>13. Item(f1, 1) = cpu.flags % d /\ Item(f1, 2) = cs /\ Item(f1, 3) = eip % d
  BY <1>5, <1>12 DEF Item, d
<1>14. Grows(open, f1, m1, Amount(f1))
  <2>1. /\ 0 + 1 = 1 /\ 0 + 1 =< Amount(f1) /\ 1 + 1 = 2 /\ 1 + 1 =< Amount(f1)
        /\ 2 + 1 = 3 /\ 2 + 1 =< Amount(f1)
    BY <1>11, SMT
  <2>2. p1 = Push(cpu, f1.n, Item(f1, 0 + 1), f1.w)
    BY <1>12, <1>13, <2>1 DEF p1
  <2>3. Grows(open, f1, p1, 0 + 1)
    BY <1>12, <2>1, <2>2, GrowsStep
  <2>4. p2 = Push(p1, f1.n, Item(f1, 1 + 1), f1.w)
    BY <1>12, <1>13, <2>1 DEF p2
  <2>5. Grows(open, f1, p2, 1 + 1)
    BY <1>12, <2>1, <2>3, <2>4, GrowsStep
  <2>6. m1 = Push(p2, f1.n, Item(f1, 2 + 1), f1.w)
    BY <1>12, <1>13, <2>1 DEF m1
  <2>7. Grows(open, f1, m1, 2 + 1)
    BY <1>12, <2>1, <2>5, <2>6, GrowsStep
  <2> QED BY <1>11, <2>1, <2>7
<1>15. m1.seg["ss"] = cpu.seg["ss"] /\ m2.seg = m1.seg
  <2>1. m1.seg["ss"] = cpu.seg["ss"]
    BY <1>5, <1>12, <1>14 DEF Grows
  <2>2. CASE i.err = -1
    BY <2>1, <2>2 DEF m2
  <2>3. CASE i.err \in Word
    <3>1. i.err \in Int
      BY <2>3, WordsAndLongs
    <3>2. Push(m1, 2, i.err, W).seg = m1.seg
      BY <1>7, <3>1, PushSegs, WidthsAre
    <3> QED BY <2>1, <3>2 DEF m2
  <2> QED BY <1>3, <2>2, <2>3
<1>16. cpu'.mem = m2.mem /\ cpu'.seg["ss"] = m2.seg["ss"] /\ cpu'.reg["sp"] = m2.reg["sp"]
  <2>1. Good(fl) /\ fl.mem = m2.mem /\ fl.seg = m2.seg /\ fl.reg = m2.reg
    BY <1>6, <1>8, PartsGood DEF fl, Good, Machine
  <2>2. m3.mem = m2.mem /\ m3.seg["ss"] = m2.seg["ss"] /\ m3.reg = m2.reg
    BY <2>1, GotoParts DEF m3
  <2>3. cpu'.mem = m3.mem /\ cpu'.seg = m3.seg /\ cpu'.reg = m3.reg
    BY <1>1
  <2> QED BY <2>2, <2>3
<1>17. ASSUME Fits(f1)
       PROVE  Stacked(Append(open, f1), m1, m1.reg["sp"])
  <2>1. Room(open, f1, m1)
    BY <1>12, <1>15, <1>17 DEF Room, Fits, SsWidth
  <2> QED BY <1>11, <1>12, <1>14, <2>1, GrowsLast
<1>18. CASE ~Fits(f1)
  <2>1. open' = <<>>
    BY <1>18, <1>22
  <2> QED BY <1>23, <2>1, StackedNone DEF StackHolds
<1>19. CASE Fits(f1) /\ i.err = -1
  <2>1. m2 = m1
    BY <1>19 DEF m2
  <2>2. open' = Append(open, f1)
    BY <1>19, <1>22
  <2>3. Stacked(Append(open, f1), cpu', m1.reg["sp"])
    BY <1>16, <1>17, <1>19, <2>1, StackedSame
  <2> QED BY <1>16, <1>23, <2>1, <2>2, <2>3 DEF StackHolds
<1>20. CASE Fits(f1) /\ i.err # -1 /\ ~Fits(f2)
  <2>1. open' = <<>>
    BY <1>20, <1>22
  <2> QED BY <1>23, <2>1, StackedNone DEF StackHolds
<1>21. CASE Fits(f1) /\ i.err # -1 /\ Fits(f2)
  <2> DEFINE gs == Append(open, f1)
  <2>1. open' = Append(gs, f2)
    BY <1>21, <1>22
  <2>2. f1.height = Deep(gs)
    <3>1. open \in Seq(Frames) /\ f1 \in Frames
      BY <1>12 DEF StackHolds, Stacked, Planned
    <3>2. gs # <<>> /\ Len(gs) = Len(open) + 1 /\ gs[Len(open) + 1] = f1
      BY <3>1, AppendIs
    <3> HIDE DEF gs
    <3> QED BY <3>2 DEF Deep
  <2>3. Stacked(gs, m1, m1.reg["sp"])
    BY <1>17, <1>21
  <2>4. i.err \in Word /\ i.err \in Int /\ m2 = Push(m1, 2, i.err, W)
    BY <1>3, <1>21, WordsAndLongs DEF m2
  <2>5. i.err \in 0 .. (Width(2 = 2) - 1)
    <3>1. Width(2 = 2) = Full
      BY DEF Width
    <3>2. i.err \in 0 .. (Full - 1)
      BY <2>4, Sizes, SMT DEF Word, Long
    <3> QED BY <3>1, <3>2
  <2>6. Saved(m1) \in Found /\ Saved(m1).reg["sp"] = m1.reg["sp"]
      /\ Saved(m1).seg["ss"] = m1.seg["ss"]
    BY <1>7, NowFound DEF Saved
  <2>7. "push" \in Kinds \ {"enter"} /\ 2 \in Nat /\ 2 = Amount(f2) * 2 /\ 2 \in {1, 2}
    BY <1>11 DEF Kinds
  <2> HIDE DEF gs
  <2>8. /\ Planned(gs, f2) /\ Grows(gs, f2, m1, 0)
        /\ f2.kind = "push" /\ f2.n = 2 /\ f2.w = W /\ f2.val = i.err /\ f2.before = Saved(m1)
        /\ f2.height = f2.below + Amount(f2) * f2.n
    BY <1>7, <1>9, <2>2, <2>3, <2>5, <2>6, <2>7, FrameStarts DEF f2
  <2>9. 0 + 1 = 1 /\ 0 + 1 =< Amount(f2)
    BY <1>11, SMT
  <2>10. m2 = Push(m1, f2.n, Item(f2, 0 + 1), f2.w)
    BY <2>4, <2>8 DEF Item
  <2>11. Grows(gs, f2, m2, Amount(f2))
    <3>1. Grows(gs, f2, m2, 0 + 1)
      BY <2>8, <2>9, <2>10, GrowsStep
    <3> QED BY <1>11, <2>9, <3>1
  <2>12. Room(gs, f2, m2)
    BY <1>15, <1>21, <2>8 DEF Room, Fits, SsWidth
  <2>13. Stacked(Append(gs, f2), cpu', cpu'.reg["sp"])
    BY <1>11, <1>16, <2>8, <2>11, <2>12, GrowsLast
  <2> QED BY <1>23, <2>1, <2>13 DEF StackHolds
<1> QED
  BY <1>18, <1>19, <1>20, <1>21

-----------------------------------------------------------------------------
(* The frame on top, as it lies in the stack *)
OnTop(f) ==
  /\ f \in Frames /\ Shape(f) /\ Items(f, cpu)
  /\ f.w = SsWidth(cpu) /\ Extent(f) < f.w /\ f.before.seg["ss"] = cpu.seg["ss"]

LEMMA TopIs ==
  ASSUME StackHolds, open # <<>>
  PROVE  OnTop(open[Len(open)]) /\ open[Len(open)].sp = cpu.reg["sp"]
<1> DEFINE L == Len(open)
           f == open[L]
<1>1. /\ open \in Seq(Frames) /\ L \in Nat
      /\ \A j \in 1 .. L : open[j] \in Frames
  BY DeepIs DEF StackHolds, Stacked
<1>2. L \in 1 .. L
  <2>1. L # 0
    BY <1>1
  <2> QED BY <1>1, <2>1, SMT
<1>3. f \in Frames /\ Lies(f, cpu, cpu.reg["sp"], Deep(open))
      /\ f.sp = cpu.reg["sp"] /\ Deep(open) < SsWidth(cpu)
  BY <1>1, <1>2 DEF StackHolds, Stacked
<1>4. Deep(open) = f.height
  BY DEF Deep
<1> HIDE DEF f, L
<1>5. Extent(f) < SsWidth(cpu)
  <2>1. f.height \in Nat /\ f.below \in Nat /\ SsWidth(cpu) \in Nat
    BY <1>3, FrameTypes, SsWidthIs, WidthsPositive
  <2>2. f.height < SsWidth(cpu)
    BY <1>3, <1>4
  <2> HIDE DEF SsWidth
  <2> QED BY <2>1, <2>2, SMT DEF Extent
<1>6. OnTop(f)
  BY <1>3, <1>5 DEF OnTop, Lies
<1> QED BY <1>3, <1>6 DEF f, L

LEMMA ClosesIs ==
  ASSUME GoodState, StackHolds, NEW mt, CloseTop(mt), cpu'.mem = cpu.mem
  PROVE  /\ StackHolds'
         /\ closed' # NoFrame => /\ mt /\ closed' = open[Len(open)]
                                 /\ OnTop(closed') /\ closed'.sp = cpu.reg["sp"]
<1> DEFINE f == open[Len(open)]
           gs == SubSeq(open, 1, Len(open) - 1)
           back == /\ open # <<>> /\ mt
                   /\ cpu'.reg["sp"] = f.before.reg["sp"] /\ cpu'.seg["ss"] = cpu.seg["ss"]
<1>1. closed' = (IF open # <<>> /\ mt THEN f ELSE NoFrame)
      /\ open' = (IF back THEN gs ELSE <<>>)
  BY DEF CloseTop
<1>2. CASE back
  <2>1. cpu.reg["sp"] \in Long
    BY FieldTypes DEF GoodState, Good, Gpr
  <2>2. Stacked(gs, cpu, Sp(f))
    BY <1>2, <2>1, StackedPop DEF StackHolds
  <2>3. Stacked(gs, cpu', cpu'.reg["sp"])
    BY <1>2, <2>2, StackedSame DEF Sp
  <2>4. open' = gs
    BY <1>1, <1>2
  <2>5. StackHolds'
    BY <2>3, <2>4 DEF StackHolds
  <2> QED BY <1>1, <2>5, TopIs
<1>3. CASE ~back
  <2>1. open' = <<>>
    BY <1>1, <1>3
  <2>2. StackHolds'
    BY <2>1, StackedNone DEF StackHolds
  <2> QED BY <1>1, <2>2, TopIs
<1> QED BY <1>2, <1>3

(* Frames stay where they are, or are forgotten. *)
LEMMA NeitherHolds ==
  ASSUME StackHolds, Neither, cpu'.mem = cpu.mem
  PROVE  StackHolds' /\ closed' = NoFrame
<1>1. closed' = NoFrame
  BY DEF Neither
<1>2. CASE cpu'.reg["sp"] = cpu.reg["sp"] /\ cpu'.seg["ss"] = cpu.seg["ss"]
  <2>1. open' = open
    BY <1>2 DEF Neither
  <2>2. Stacked(open, cpu', cpu'.reg["sp"])
    BY <1>2, StackedSame DEF StackHolds
  <2> QED BY <1>1, <2>1, <2>2 DEF StackHolds
<1>3. CASE ~(cpu'.reg["sp"] = cpu.reg["sp"] /\ cpu'.seg["ss"] = cpu.seg["ss"])
  <2>1. open' = <<>>
    BY <1>3 DEF Neither
  <2> QED BY <1>1, <2>1, StackedNone DEF StackHolds
<1> QED BY <1>2, <1>3

-----------------------------------------------------------------------------
(* A frame shrinks: c of its items are still to be popped. *)
Shrinks(f, m, c) ==
  /\ Good(m) /\ m.mem = cpu.mem /\ m.seg = cpu.seg /\ m.pe = cpu.pe /\ m.gdt = cpu.gdt
  /\ Down(m, Sp(f), c * f.n, f.w)

(* pop_word(), pop_long(): nothing but SP changes. *)
LEMMA PopIs ==
  ASSUME NEW m, Good(m), NEW n \in {1, 2}, NEW w \in Widths, NEW q, q = Pop(m, n, w)
  PROVE  /\ Good(q) /\ q.mem = m.mem /\ q.seg = m.seg /\ q.pe = m.pe /\ q.gdt = m.gdt
         /\ q.eip = m.eip /\ q.flags = m.flags
         /\ q.reg["sp"] = Written(m.reg["sp"], Get(m, "sp", w) + n, w)
         /\ \A x \in Gpr \ {"sp"} : q.reg[x] = m.reg[x]
         /\ Top(m, n, w) \in Long /\ Top(m, n, w) \in Int /\ Top(m, n, w) % Lo \in Word
<1> DEFINE c == Check(m, "ss", Get(m, "sp", w), n)
<1>1. "sp" \in Gpr /\ "ss" \in SegName
  BY DEF Gpr, SegName
<1>2. Good(c) /\ c.mem = m.mem /\ c.seg = m.seg /\ c.pe = m.pe /\ c.gdt = m.gdt
      /\ c.eip = m.eip /\ c.flags = m.flags /\ c.reg = m.reg
  BY <1>1, CheckGood, CheckParts
<1>3. q = SetReg(c, "sp", Get(m, "sp", w) + n, w)
  BY DEF Pop
<1>4. Get(m, "sp", w) + n \in Int
  <2>1. Get(m, "sp", w) \in Int
    BY <1>1, GetLong
  <2> QED BY <2>1, SMT
<1> HIDE DEF c
<1>5. Top(m, n, w) \in Long /\ Top(m, n, w) \in Int /\ Top(m, n, w) % Lo \in Word
  BY PopGood
<1>6. /\ Good(q) /\ q.mem = c.mem /\ q.seg = c.seg /\ q.pe = c.pe /\ q.gdt = c.gdt
      /\ q.eip = c.eip /\ q.flags = c.flags
      /\ q.reg["sp"] = Written(c.reg["sp"], Get(m, "sp", w) + n, w)
      /\ \A x \in Gpr \ {"sp"} : q.reg[x] = c.reg[x]
  BY <1>1, <1>2, <1>3, <1>4, SetRegIs
<1> QED BY <1>2, <1>5, <1>6

LEMMA ShrinksFirst ==
  ASSUME GoodState, NEW f, OnTop(f), f.sp = cpu.reg["sp"], f.kind # "enter"
  PROVE  Shrinks(f, cpu, Amount(f))
<1>1. Down(cpu, Sp(f), Amount(f) * f.n, f.w)
  BY DEF OnTop, Shape, Down
<1> QED BY <1>1 DEF Shrinks, GoodState

LEMMA PopKeeps ==
  ASSUME NEW m, Good(m)
  PROVE  /\ Good(Pop(m, N, W)) /\ Pop(m, N, W).mem = m.mem
         /\ Top(m, N, W) \in Long /\ Top(m, N, W) \in Int /\ Top(m, N, W) % Lo \in Word
<1> DEFINE q == Pop(m, N, W)
<1>1. N \in {1, 2} /\ W \in Widths /\ q = Pop(m, N, W)
  BY WidthsAre
<1> HIDE DEF q
<1>2. Good(q) /\ q.mem = m.mem
      /\ Top(m, N, W) \in Long /\ Top(m, N, W) \in Int /\ Top(m, N, W) % Lo \in Word
  BY <1>1, PopIs, SMTT(30)
<1> QED BY <1>2 DEF q

LEMMA ShrinksStep ==
  ASSUME NEW f, OnTop(f), NEW m, NEW c \in Nat, NEW k, k = c + 1, Shrinks(f, m, k), k =< Amount(f),
         NEW n, n = f.n, NEW w, w = f.w, NEW q, q = Pop(m, n, w)
  PROVE  /\ Shrinks(f, q, c) /\ Top(m, n, w) = Item(f, k)
         /\ q.eip = m.eip /\ q.flags = m.flags
         /\ \A x \in Gpr \ {"sp"} : q.reg[x] = m.reg[x]
<1> DEFINE s == Seen(Sp(f), w)
           u == s - k * n
<1>1. f \in Frames /\ n \in {1, 2} /\ w \in Widths /\ Sp(f) \in Long /\ Sp(f) \in Int
      /\ w \in Nat \ {0}
  BY FrameTypes, WidthsPositive DEF OnTop
<1>2. s \in Int
  BY <1>1, SeenLong, Sizes, SMT DEF Long
<1>3. k * n \in Int /\ c * n = k * n - n /\ k \in 1 .. Amount(f)
  <2>1. Amount(f) \in 1 .. 8
    BY AmountIs
  <2>2. k \in 1 .. Amount(f) /\ k \in Int
    BY <2>1, SMT
  <2> QED BY <1>1, <2>2, SMT
<1>4. u \in Int /\ u + n = s - c * n
  <2> DEFINE z == k * n
             y == c * n
  <2>1. z \in Int /\ y = z - n
    BY <1>3
  <2> HIDE DEF z, y, s
  <2>2. s - z \in Int /\ (s - z) + n = s - y
    BY <1>1, <1>2, <2>1, SMT
  <2> QED BY <2>2 DEF z, y
<1>5. Good(m) /\ m.mem = cpu.mem /\ m.seg = cpu.seg /\ m.pe = cpu.pe /\ m.gdt = cpu.gdt
      /\ m.reg["sp"] = Written(Sp(f), u, w)
  BY DEF Shrinks, Down
<1>6. Laid(cpu, s, k * n, n, w) = Item(f, k)
  BY <1>3 DEF OnTop, Items
<1> HIDE DEF s
<1>7. Get(m, "sp", w) = u % w
  <2> HIDE DEF u
  <2> QED BY <1>1, <1>4, <1>5, WrittenIs DEF Get
<1>8. Top(m, n, w) = Item(f, k)
  <2>1. Get(m, "sp", w) = (s - k * n) % w
    BY <1>7 DEF u
  <2>2. Top(m, n, w) = Laid(cpu, s, k * n, n, w)
    <3>1. \A x, b, i, y : Laid(m, x, b, i, y) = Laid(cpu, x, b, i, y)
      BY <1>5 DEF Laid, Fetched, Linear
    <3>2. Top(m, n, w) = Laid(m, s, k * n, n, w)
      BY <2>1 DEF Top, Laid
    <3> QED BY <3>1, <3>2
  <2> QED BY <1>6, <2>2
<1>9. Written(m.reg["sp"], Get(m, "sp", w) + n, w) = Written(Sp(f), s - c * n, w)
  <2> HIDE DEF u
  <2>1. (u % w) + n \in Int /\ u + n \in Int /\ n \in Int
    <3> DEFINE z == u % w
    <3>0. \A x \in Int : x % w \in Int
      BY <1>1, SMT
    <3>1. z \in Int
      BY <1>4, <3>0
    <3> HIDE DEF z
    <3>2. z + n \in Int /\ u + n \in Int /\ n \in Int
      BY <1>1, <1>4, <3>1, SMT
    <3> QED BY <3>2 DEF z
  <2>2. ((u % w) + n) % w = (u + n) % w
    BY <1>1, <1>4, <2>1, ModPlus
  <2>3. Written(Written(Sp(f), u, w), (u % w) + n, w) = Written(Sp(f), (u % w) + n, w)
    BY <1>1, <1>4, <2>1, WrittenIs
  <2>4. Written(Sp(f), (u % w) + n, w) = Written(Sp(f), ((u % w) + n) % w, w)
        /\ Written(Sp(f), u + n, w) = Written(Sp(f), (u + n) % w, w)
    BY <1>1, <2>1, WrittenIs
  <2> QED BY <1>4, <1>5, <1>7, <2>2, <2>3, <2>4
<1>10. /\ Good(q) /\ q.mem = m.mem /\ q.seg = m.seg /\ q.pe = m.pe /\ q.gdt = m.gdt
       /\ q.eip = m.eip /\ q.flags = m.flags
       /\ q.reg["sp"] = Written(m.reg["sp"], Get(m, "sp", w) + n, w)
       /\ \A x \in Gpr \ {"sp"} : q.reg[x] = m.reg[x]
  BY <1>1, <1>5, PopIs
<1>11. Down(q, Sp(f), c * f.n, f.w)
  BY <1>9, <1>10 DEF Down, s
<1> QED BY <1>5, <1>8, <1>10, <1>11 DEF Shrinks

LEMMA ShrinksLast ==
  ASSUME NEW f, OnTop(f), NEW m, Shrinks(f, m, 0)
  PROVE  m.reg["sp"] = Sp(f)
<1>1. f \in Frames /\ f.n \in {1, 2} /\ f.w \in Widths /\ Sp(f) \in Long /\ Sp(f) \in Int
      /\ f.w \in Nat \ {0}
  BY FrameTypes, WidthsPositive DEF OnTop
<1> DEFINE x == Seen(Sp(f), f.w)
<1>2. x \in 0 .. (f.w - 1)
  BY <1>1, SeenLong
<1>3. 0 * f.n = 0
  BY <1>1, SMT
<1> HIDE DEF x
<1>4. x - 0 = x /\ x \in Int /\ x % f.w = x
  BY <1>1, <1>2, SMT
<1>5. Written(Sp(f), x, f.w) = Sp(f)
  BY <1>1, <1>4, WrittenIs DEF x
<1> QED BY <1>3, <1>4, <1>5 DEF Shrinks, Down, x

(* What closes a frame of its kind *)
Matched(f, kind) ==
  /\ OnTop(f) /\ f.kind = kind /\ f.n = N /\ f.w = W
  /\ f.sp = cpu.reg["sp"] /\ f.before.pe = cpu.pe

LEMMA ClosesKind ==
  ASSUME GoodState, StackHolds, NEW kind, Closes(kind), cpu'.mem = cpu.mem
  PROVE  StackHolds' /\ (closed' # NoFrame => Matched(closed', kind))
<1> DEFINE mt == Matches(open[Len(open)], kind)
<1>1. CloseTop(mt)
  BY DEF Closes
<1> HIDE DEF mt
<1>2. /\ StackHolds'
      /\ closed' # NoFrame => /\ mt /\ closed' = open[Len(open)]
                              /\ OnTop(closed') /\ closed'.sp = cpu.reg["sp"]
  BY <1>1, ClosesIs
<1>3. closed' # NoFrame => Matches(closed', kind) /\ OnTop(closed')
  BY <1>2 DEF mt
<1> QED BY <1>2, <1>3 DEF Matched, Matches

LEMMA UndoneBy ==
  ASSUME NEW f, closed' = f, mode' = mode
  PROVE  /\ f = NoFrame => Undone'
         /\ /\ f.kind = "push" /\ ins'.op = "pop"
            /\ ins'.dest \in Gpr => Get(cpu', ins'.dest, D) = f.val
            /\ ins'.dest # "sp" => SpBack'
            => Undone'
         /\ /\ f.kind = "push" /\ ins'.op # "pop" /\ SpBack'
            /\ cpu'.intr = None => cpu'.seg[ins'.dest].sel \in {f.val % Lo, 0}
            => Undone'
         /\ /\ f.kind = "all" /\ SpBack'
            /\ Carries' \/ \A r \in Gpr \ {"sp"} : Get(cpu', r, D) = Seen(f.before.reg[r], D)
            => Undone'
         /\ f.kind = "flags" /\ cpu'.flags = f.val /\ SpBack' => Undone'
         /\ f.kind = "near" /\ cpu'.eip = f.before.eip % Width(f.n = 2) /\ SpBack' => Undone'
         /\ /\ f.kind = "far" /\ cpu'.eip = f.before.eip % Width(f.n = 2)
            /\ SpBack' /\ CsBack'
            => Undone'
         /\ /\ f.kind = "intr" /\ cpu'.eip = f.before.eip % Width(f.n = 2)
            /\ SpBack' /\ CsBack'
            /\ cpu'.flags = AlwaysOn(Seen(f.before.flags, Width(f.n = 2)))
            => Undone'
         /\ /\ f.kind = "enter" /\ SpBack'
            /\ Get(cpu', "bp", W) = Seen(f.before.reg["bp"], W)
            => Undone'
<1>1. D' = D /\ W' = W
  BY DEF D, W
<1> HIDE DEF Carries, SpBack, CsBack
<1>2. f = NoFrame => Undone'
  BY DEF Undone
<1>3. ASSUME f.kind = "push", ins'.op = "pop",
             ins'.dest \in Gpr => Get(cpu', ins'.dest, D) = f.val, ins'.dest # "sp" => SpBack'
      PROVE  Undone'
  BY <1>1, <1>3 DEF Undone
<1>4. ASSUME f.kind = "push", ins'.op # "pop", SpBack',
             cpu'.intr = None => cpu'.seg[ins'.dest].sel \in {f.val % Lo, 0}
      PROVE  Undone'
  BY <1>1, <1>4 DEF Undone
<1>5. ASSUME f.kind = "all", SpBack',
             Carries' \/ \A r \in Gpr \ {"sp"} : Get(cpu', r, D) = Seen(f.before.reg[r], D)
      PROVE  Undone'
  BY <1>1, <1>5 DEF Undone
<1>6. ASSUME f.kind = "flags", cpu'.flags = f.val, SpBack' PROVE Undone'
  BY <1>1, <1>6 DEF Undone
<1>7. ASSUME f.kind = "near", cpu'.eip = f.before.eip % Width(f.n = 2), SpBack' PROVE Undone'
  BY <1>1, <1>7 DEF Undone
<1>8. ASSUME f.kind = "far", cpu'.eip = f.before.eip % Width(f.n = 2), SpBack', CsBack'
      PROVE  Undone'
  BY <1>1, <1>8 DEF Undone
<1>9. ASSUME f.kind = "intr", cpu'.eip = f.before.eip % Width(f.n = 2), SpBack', CsBack',
             cpu'.flags = AlwaysOn(Seen(f.before.flags, Width(f.n = 2)))
      PROVE  Undone'
  BY <1>1, <1>9 DEF Undone
<1>10. ASSUME f.kind = "enter", SpBack', Get(cpu', "bp", W) = Seen(f.before.reg["bp"], W)
       PROVE  Undone'
  BY <1>1, <1>10 DEF Undone
<1> QED BY <1>2, <1>3, <1>4, <1>5, <1>6, <1>7, <1>8, <1>9, <1>10

(* SP is back where it was. *)
LEMMA SpBackBy ==
  ASSUME NEW f, OnTop(f), closed' = f, mode' = mode, NEW e \in Int, Released' = e,
         \/ e = 0 /\ cpu'.reg["sp"] = Sp(f)
         \/ cpu'.reg["sp"] = Written(Sp(f), Seen(Sp(f), W) + e, W)
  PROVE  SpBack'
<1>1. D' = D /\ W' = W
  BY DEF D, W
<1>2. f \in Frames /\ W \in Widths /\ Sp(f) \in Long /\ Sp(f) \in Int /\ W \in Nat \ {0}
  BY FrameTypes, WidthsAre, WidthsPositive DEF OnTop
<1> DEFINE x == Seen(Sp(f), W)
<1>3. x \in 0 .. (W - 1)
  BY <1>2, SeenLong
<1> HIDE DEF x
<1>4. x + 0 = x /\ x \in Int /\ x % W = x
  <2> HIDE DEF W
  <2> QED BY <1>2, <1>3, SMT
<1>5. Written(Sp(f), x, W) = Sp(f)
  BY <1>2, <1>4, WrittenIs DEF x
<1>6. cpu'.reg["sp"] = Written(Sp(f), x + e, W)
  BY <1>4, <1>5 DEF x
<1> QED BY <1>1, <1>6 DEF SpBack, Sp, x

LEMMA OnePop ==
  ASSUME GoodState, NEW f, NEW kind \in {"push", "flags", "near"}, Matched(f, kind),
         NEW q, q = Pop(cpu, N, W)
  PROVE  /\ q.reg["sp"] = Sp(f) /\ Top(cpu, N, W) = Item(f, 1) /\ f \in Frames /\ OnTop(f)
         /\ f.kind = kind /\ f.n = N /\ f.w = W
<1>1. Amount(f) = 1 /\ f.kind # "enter" /\ OnTop(f) /\ f.n = N /\ f.w = W
  BY DEF Matched, Amount
<1>2. Shrinks(f, cpu, 1)
  BY <1>1, ShrinksFirst DEF Matched
<1>3. 0 \in Nat /\ 1 = 0 + 1 /\ 1 =< Amount(f)
  BY <1>1, SMT
<1>4. Shrinks(f, q, 0) /\ Top(cpu, N, W) = Item(f, 1)
  BY <1>1, <1>2, <1>3, ShrinksStep
<1>5. q.reg["sp"] = Sp(f)
  BY <1>1, <1>4, ShrinksLast
<1> QED BY <1>1, <1>4, <1>5 DEF Matched, OnTop

LEMMA PopMemUndoes ==
  ASSUME GoodState, StackHolds, PopMem
  PROVE  StackHolds' /\ Undone'
<1> DEFINE q == Pop(cpu, N, W)
<1>1. cpu' = q /\ ins'.op = "pop" /\ ins'.dest = "memory" /\ mode' = mode /\ Closes("push")
  BY DEF PopMem, Do
<1> HIDE DEF q
<1>2. q.mem = cpu.mem
  BY PopKeeps DEF GoodState, q
<1>3. StackHolds' /\ (closed' # NoFrame => Matched(closed', "push"))
  BY <1>1, <1>2, ClosesKind
<1>4. CASE closed' # NoFrame
  <2>1. Matched(closed', "push")
    BY <1>3, <1>4
  <2>2. q.reg["sp"] = Sp(closed') /\ OnTop(closed') /\ closed'.kind = "push"
    BY <2>1, OnePop DEF q
  <2>3. Released' = 0 /\ 0 \in Int
    BY <1>1 DEF Released
  <2>4. SpBack'
    BY <1>1, <2>2, <2>3, SpBackBy
  <2>5. ins'.dest \notin Gpr
    BY <1>1 DEF Gpr
  <2> QED BY <1>1, <1>3, <2>2, <2>4, <2>5, UndoneBy
<1> QED BY <1>1, <1>3, <1>4, UndoneBy

LEMMA PopRegUndoes ==
  ASSUME GoodState, StackHolds, NEW r \in RegArg, PopReg(r)
  PROVE  StackHolds' /\ Undone'
<1> DEFINE q == Pop(cpu, N, W)
           v == Top(cpu, N, W)
           z == SetReg(q, r, v, D)
<1>1. cpu' = z /\ ins'.op = "pop" /\ ins'.dest = r /\ mode' = mode /\ Closes("push")
  BY DEF PopReg, Do
<1> HIDE DEF q, v, z
<1>2. q.mem = cpu.mem /\ Good(q) /\ v \in Int
  BY PopKeeps DEF GoodState, q, v
<1>3. r \in Gpr
  BY OperandAssumption
<1>4. /\ z.mem = q.mem /\ z.reg[r] = Written(q.reg[r], v, D)
      /\ \A x \in Gpr \ {r} : z.reg[x] = q.reg[x]
  BY <1>2, <1>3, SetRegDoes DEF z
<1>5. StackHolds' /\ (closed' # NoFrame => Matched(closed', "push"))
  BY <1>1, <1>2, <1>4, ClosesKind
<1>6. CASE closed' # NoFrame
  <2>1. Matched(closed', "push")
    BY <1>5, <1>6
  <2>2. /\ q.reg["sp"] = Sp(closed') /\ OnTop(closed') /\ closed'.kind = "push"
        /\ v = Item(closed', 1) /\ closed' \in Frames /\ closed'.n = N
    BY <2>1, OnePop DEF q, v
  <2>3. v = closed'.val
    BY <2>2 DEF Item
  <2>4. Get(z, r, D) = closed'.val
    <3>1. q.reg[r] \in Long
      BY <1>2, <1>3, FieldTypes DEF Good
    <3>2. Get(z, r, D) = v % D
      BY <1>2, <1>4, <3>1, WidthsAre, WrittenIs DEF Get
    <3>3. v \in 0 .. (D - 1) /\ D \in Nat \ {0}
      BY <2>2, <2>3, ItemsWide, WidthsAre, WidthsPositive DEF OnTop, Shape
    <3> HIDE DEF D
    <3>4. v % D = v
      BY <3>3, SMT
    <3> QED BY <2>3, <3>2, <3>4
  <2>5. ins'.dest # "sp" => SpBack'
    <3>1. Released' = 0 /\ 0 \in Int
      BY <1>1 DEF Released
    <3>2. r # "sp" => z.reg["sp"] = Sp(closed')
      BY <1>4, <2>2 DEF Gpr
    <3> QED BY <1>1, <2>2, <3>1, <3>2, SpBackBy
  <2> QED BY <1>1, <1>5, <2>2, <2>4, <2>5, UndoneBy
<1> QED BY <1>1, <1>5, <1>6, UndoneBy

(* Within 64K a step of SP is the same in both widths. *)
LEMMA FlatIs ==
  ASSUME NEW sp \in Long, NEW w \in Widths, NEW e \in Int,
         0 =< (sp % Lo) + e, (sp % Lo) + e < Lo
  PROVE  Written(sp, Seen(sp, w) + e, w) = sp + e
<1>1. sp \in Int /\ sp >= 0 /\ sp < Full /\ Lo \in Nat \ {0} /\ Full \in Nat \ {0} /\ Hi \in Nat
  BY Sizes, SMT DEF Long
<1> DEFINE q == sp \div Lo
           y == sp % Lo
           z == y + e
<1>2. q \in Int /\ y \in 0 .. (Lo - 1) /\ sp = Lo * q + y
  BY <1>1, DivMod
<1> HIDE DEF q, y
<1>3. z \in 0 .. (Lo - 1)
  BY <1>1, <1>2, SMT DEF y
<1>4. CASE w = Lo
  <2>1. z % Lo = z
    BY <1>1, <1>3, SMT
  <2> QED BY <1>1, <1>2, <1>3, <1>4, <2>1, SMT DEF Written, Seen, y
<1>5. CASE w = Full
  <2>1. sp % Full = sp
    BY <1>1, SMT
  <2>2. sp + e \in 0 .. (Full - 1)
    <3> DEFINE g == Lo * q
               h == Lo * Hi
    <3>1. g \in Int /\ Full = h /\ sp = g + y
      BY <1>1, <1>2, SMT DEF Full
    <3>2. q >= 0 /\ q + 1 =< Hi
      <4>1. Lo * q =< sp /\ sp < Lo * q + Lo
        BY <1>1, <1>2, SMT
      <4>2. q < 0 => Lo * q =< -Lo
        BY <1>1, <1>2, SMT
      <4>3. q + 1 > Hi => Lo * q >= Lo * Hi
        BY <1>1, <1>2, SMT
      <4> DEFINE a == Lo * q
      <4>4. a \in Int /\ a =< sp /\ sp < a + Lo /\ (q < 0 => a =< -Lo) /\ (q + 1 > Hi => a >= h)
        BY <3>1, <4>1, <4>2, <4>3
      <4> HIDE DEF a, h, g
      <4> QED BY <1>1, <1>2, <3>1, <4>4, SMT
    <3>3. g >= 0 /\ g + Lo =< h
      <4>1. Lo * (q + 1) =< Lo * Hi /\ Lo * (q + 1) = Lo * q + Lo /\ Lo * q >= 0
        BY <1>1, <1>2, <3>2, SMT
      <4> QED BY <4>1
    <3> HIDE DEF g, h
    <3> QED BY <1>1, <1>2, <1>3, <3>1, <3>3, SMT
  <2>3. (sp + e) % Full = sp + e
    <3> DEFINE x == sp + e
    <3>1. x \in 0 .. (Full - 1)
      BY <2>2
    <3> HIDE DEF x
    <3>2. x % Full = x
      BY <1>1, <3>1, SMT
    <3> QED BY <3>2 DEF x
  <2>4. sp - sp = 0 /\ 0 + (sp + e) = sp + e
    BY <1>1, SMT
  <2> QED BY <1>5, <2>1, <2>3, <2>4 DEF Written, Seen
<1> QED BY <1>4, <1>5 DEF Widths

(* RET n releases what it should, within 64K. *)
LEMMA SpBackRet ==
  ASSUME NEW f, NEW kind, Matched(f, kind), closed' = f, mode' = mode,
         ins'.op \in {"ret", "retf"}, NEW imm \in Int, ins'.dest = imm, imm >= 0,
         cpu'.reg["sp"] = Written(Sp(f), Seen(Sp(f), D) + imm, D)
  PROVE  SpBack'
<1>1. D' = D /\ W' = W
  BY DEF D, W
<1>2. f \in Frames /\ OnTop(f)
  BY DEF Matched, OnTop
<1>3. Sp(f) \in Long /\ Sp(f) \in Int /\ D \in Widths /\ W \in Widths
  BY <1>2, FrameTypes, WidthsAre
<1>4. Released' = imm
  BY DEF Released
<1>5. CASE D = W
  BY <1>2, <1>4, <1>5, SpBackBy
<1>6. CASE (Sp(f) % Lo) + imm < Lo
  <2>1. 0 =< (Sp(f) % Lo) + imm
    <3>1. Sp(f) % Lo \in 0 .. (Lo - 1) /\ Lo \in Nat
      BY <1>3, Sizes, DivMod
    <3> DEFINE y == Sp(f) % Lo
    <3>2. y \in 0 .. (Lo - 1)
      BY <3>1
    <3> HIDE DEF y
    <3>3. 0 =< y + imm
      BY <3>1, <3>2, SMT
    <3> QED BY <3>3 DEF y
  <2>2. Written(Sp(f), Seen(Sp(f), D) + imm, D) = Sp(f) + imm
        /\ Written(Sp(f), Seen(Sp(f), W) + imm, W) = Sp(f) + imm
    BY <1>3, <1>6, <2>1, FlatIs
  <2> QED BY <1>2, <1>4, <2>2, SpBackBy
<1>7. CASE imm = 0
  <2>1. Sp(f) % Lo < Lo /\ (Sp(f) % Lo) + 0 = Sp(f) % Lo
    <3>1. Sp(f) % Lo \in 0 .. (Lo - 1) /\ Lo \in Nat
      BY <1>3, Sizes, DivMod
    <3> DEFINE y == Sp(f) % Lo
    <3>2. y \in 0 .. (Lo - 1)
      BY <3>1
    <3> HIDE DEF y
    <3>3. y < Lo /\ y + 0 = y
      BY <3>1, <3>2, SMT
    <3> QED BY <3>3 DEF y
  <2> QED BY <1>6, <1>7, <2>1
<1>8. CASE D # W /\ imm # 0 /\ ~((Sp(f) % Lo) + imm < Lo)
  <2>1. Carries'
    BY <1>1, <1>4, <1>8 DEF Carries, Sp
  <2> QED BY <1>4, <1>8, <2>1 DEF SpBack
<1> QED BY <1>5, <1>6, <1>7, <1>8

LEMMA LoadSel ==
  ASSUME NEW m, Good(m), NEW s \in SegName, NEW val \in Word, LoadSeg(m, s, val).intr = None
  PROVE  /\ LoadSeg(m, s, val).seg[s].sel \in {val, 0}
         /\ Load(m.pe, m.gdt, m.seg["ldt"], m.seg[s], val).ok
         /\ LoadSeg(m, s, val).seg[s] = Load(m.pe, m.gdt, m.seg["ldt"], m.seg[s], val).reg
<1> DEFINE l == Load(m.pe, m.gdt, m.seg["ldt"], m.seg[s], val)
<1>1. LoadSeg(m, s, val) = IF l.ok THEN [m EXCEPT !.seg[s] = l.reg] ELSE Raise(m, FaultGP(val))
  BY DEF LoadSeg
<1>2. m \in Machine /\ m.seg \in [SegName -> Reg] /\ m.seg[s] \in Reg
  BY FieldTypes DEF Good
<1>3. l.ok => l.reg.sel \in {val, 0}
  <2>1. [m.seg[s] EXCEPT !.sel = val, !.base = val * Para].sel = val
    BY <1>2 DEF Reg
  <2> QED BY <2>1 DEF Load, Null, LoadedFrom
<1>4. l.ok
  <2>1. SUFFICES ASSUME ~l.ok PROVE FALSE
    OBVIOUS
  <2>2. Raise(m, FaultGP(val)).intr = None
    BY <1>1, <2>1
  <2>3. FaultGP(val).type = "fault" /\ None.type = "none"
    BY DEF FaultGP, None
  <2>4. FaultGP(val) # None
    BY <2>3
  <2> QED BY <1>2, <2>2, <2>4 DEF Raise, Machine
<1> HIDE DEF l
<1>5. LoadSeg(m, s, val).seg[s] = l.reg
  BY <1>1, <1>2, <1>4 DEF Machine
<1> QED BY <1>3, <1>4, <1>5 DEF l

LEMMA PopSegUndoes ==
  ASSUME GoodState, StackHolds, NEW s \in DataSeg, PopSeg(s)
  PROVE  StackHolds' /\ Undone'
<1> DEFINE q == Pop(cpu, N, W)
           v == Top(cpu, N, W)
           z == LoadSeg(q, s, v % Lo)
<1>1. cpu' = z /\ ins'.op = "popseg" /\ ins'.dest = s /\ mode' = mode /\ Closes("push")
  BY DEF PopSeg, Do
<1> HIDE DEF q, v, z
<1>2. q.mem = cpu.mem /\ Good(q) /\ v % Lo \in Word
  BY PopKeeps DEF GoodState, q, v
<1>3. s \in SegName
  BY DEF DataSeg, SegName
<1>4. z.mem = q.mem /\ z.reg = q.reg
  BY <1>2, <1>3, LoadSegParts DEF z
<1>5. StackHolds' /\ (closed' # NoFrame => Matched(closed', "push"))
  BY <1>1, <1>2, <1>4, ClosesKind
<1>6. CASE closed' # NoFrame
  <2>1. Matched(closed', "push")
    BY <1>5, <1>6
  <2>2. /\ q.reg["sp"] = Sp(closed') /\ OnTop(closed') /\ closed'.kind = "push"
        /\ v = Item(closed', 1)
    BY <2>1, OnePop DEF q, v
  <2>3. v = closed'.val
    BY <2>2 DEF Item
  <2>4. cpu'.intr = None => cpu'.seg[ins'.dest].sel \in {closed'.val % Lo, 0}
    BY <1>1, <1>2, <1>3, <2>3, LoadSel DEF z
  <2>5. SpBack'
    <3>1. Released' = 0 /\ 0 \in Int
      BY <1>1 DEF Released
    <3> QED BY <1>1, <1>4, <2>2, <3>1, SpBackBy
  <2> QED BY <1>1, <1>5, <2>2, <2>4, <2>5, UndoneBy
<1> QED BY <1>1, <1>5, <1>6, UndoneBy

LEMMA PopFlagsUndoes ==
  ASSUME GoodState, StackHolds, PopFlags
  PROVE  StackHolds' /\ Undone'
<1> DEFINE q == Pop(cpu, N, W)
           v == Top(cpu, N, W)
           z == [q EXCEPT !.flags = AlwaysOn(v)]
<1>1. cpu' = z /\ ins'.op = "popf" /\ mode' = mode /\ Closes("flags")
  BY DEF PopFlags, Do
<1> HIDE DEF q, v
<1>2. q.mem = cpu.mem /\ Good(q) /\ v \in Int
  BY PopKeeps DEF GoodState, q, v
<1>3. z.mem = q.mem /\ z.reg = q.reg /\ z.flags = AlwaysOn(v)
  BY <1>2 DEF Good, Machine
<1> HIDE DEF z
<1>4. StackHolds' /\ (closed' # NoFrame => Matched(closed', "flags"))
  BY <1>1, <1>2, <1>3, ClosesKind
<1>5. CASE closed' # NoFrame
  <2>1. Matched(closed', "flags")
    BY <1>4, <1>5
  <2>2. /\ q.reg["sp"] = Sp(closed') /\ OnTop(closed') /\ closed'.kind = "flags"
        /\ v = Item(closed', 1)
    BY <2>1, OnePop DEF q, v
  <2>3. v = closed'.val /\ On(v)
    BY <2>2 DEF Item, OnTop, Shape
  <2>4. cpu'.flags = closed'.val
    BY <1>1, <1>2, <1>3, <2>3, AlwaysIsOn
  <2>5. SpBack'
    <3>1. Released' = 0 /\ 0 \in Int
      BY <1>1 DEF Released
    <3> QED BY <1>1, <1>3, <2>2, <3>1, SpBackBy
  <2> QED BY <1>1, <1>4, <2>2, <2>4, <2>5, UndoneBy
<1> QED BY <1>1, <1>4, <1>5, UndoneBy

LEMMA RetNearUndoes ==
  ASSUME GoodState, StackHolds, NEW imm \in Count, RetNear(imm)
  PROVE  StackHolds' /\ Undone'
<1> DEFINE q == Pop(cpu, N, W)
           v == Top(cpu, N, W)
           e == [q EXCEPT !.eip = v]
           g == Get(q, "sp", D) + imm
           z == SetReg(e, "sp", g, D)
<1>1. cpu' = z /\ ins'.op = "ret" /\ ins'.dest = imm /\ mode' = mode /\ Closes("near")
  BY DEF RetNear, Do
<1> HIDE DEF q, v
<1>2. q.mem = cpu.mem /\ Good(q) /\ v \in Int /\ v \in Long
  BY PopKeeps DEF GoodState, q, v
<1>3. e.mem = q.mem /\ e.reg = q.reg /\ e.eip = v /\ Good(e)
  BY <1>2, PartsGood, ZenonT(60) DEF Good, Machine
<1> HIDE DEF e
<1>4. imm \in Int /\ imm >= 0 /\ g \in Int /\ "sp" \in Gpr
  <2>1. imm \in Word /\ "sp" \in Gpr
    BY OperandAssumption DEF Gpr
  <2>2. Get(q, "sp", D) \in Int
    BY <1>2, <2>1, GetLong, WidthsAre
  <2> QED BY <2>1, <2>2, Sizes, SMT DEF Word
<1> HIDE DEF g
<1>5. z.mem = e.mem /\ z.eip = e.eip /\ z.reg["sp"] = Written(e.reg["sp"], g, D)
  BY <1>3, <1>4, SetRegDoes
<1> HIDE DEF z
<1>6. StackHolds' /\ (closed' # NoFrame => Matched(closed', "near"))
  BY <1>1, <1>2, <1>3, <1>5, ClosesKind
<1>7. CASE closed' # NoFrame
  <2>1. Matched(closed', "near")
    BY <1>6, <1>7
  <2>2. /\ q.reg["sp"] = Sp(closed') /\ OnTop(closed') /\ closed'.kind = "near"
        /\ v = Item(closed', 1)
    BY <2>1, OnePop DEF q, v
  <2>3. cpu'.eip = closed'.before.eip % Width(closed'.n = 2)
    BY <1>1, <1>3, <1>5, <2>2 DEF Item
  <2>4. cpu'.reg["sp"] = Written(Sp(closed'), Seen(Sp(closed'), D) + imm, D)
    BY <1>1, <1>3, <1>5, <2>2 DEF g, Get
  <2>5. SpBack'
    BY <1>1, <1>4, <2>1, <2>4, SpBackRet
  <2> QED BY <1>1, <1>6, <2>2, <2>3, <2>5, UndoneBy
<1> QED BY <1>1, <1>6, <1>7, UndoneBy

LEMMA GotoBack ==
  ASSUME GoodState, PathInv, stage = "exec", NEW m, Good(m), m.seg = cpu.seg, m.pe = cpu.pe,
         m.gdt = cpu.gdt, NEW cs \in Word, NEW eip, cpu' = Goto(m, cs, eip), was' = was,
         cs = closed'.before.seg["cs"].sel
  PROVE  CsBack'
<1> DEFINE l == Load(m.pe, m.gdt, m.seg["ldt"], m.seg["cs"], cs)
           q == LoadSeg(m, "cs", cs)
<1>1. "cs" \in SegName /\ "ldt" \in SegName \ {"cs"}
  BY DEF SegName
<1>2. cpu' = [q EXCEPT !.eip = eip]
  BY DEF Goto
<1>3. Good(q) /\ q.pe = m.pe /\ q.gdt = m.gdt /\ q.seg["ldt"] = m.seg["ldt"]
  BY <1>1, LoadSegGood, LoadSegParts
<1>4. q.intr = None => q.seg["cs"] = l.reg
  BY <1>1, LoadSel
<1> HIDE DEF q
<1>5. cpu'.intr = q.intr /\ cpu'.seg = q.seg /\ cpu'.pe = q.pe /\ cpu'.gdt = q.gdt
  BY <1>2, <1>3 DEF Good, Machine
<1>6. cpu.seg = was.seg
  BY Untouched
<1>7. ASSUME cpu'.intr = None, Reloads(closed.before)'
      PROVE  cpu'.seg["cs"] = closed'.before.seg["cs"]
  <2>1. l = [ok |-> TRUE, reg |-> closed'.before.seg["cs"]]
    BY <1>3, <1>5, <1>6, <1>7 DEF Reloads
  <2>2. l.reg = closed'.before.seg["cs"]
    BY <2>1
  <2> QED BY <1>4, <1>5, <1>7, <2>2
<1> QED BY <1>7 DEF CsBack

LEMMA SelIs ==
  ASSUME NEW f, OnTop(f)
  PROVE  f.before.seg["cs"].sel \in Word /\ f.before.seg["cs"].sel % Lo = f.before.seg["cs"].sel
<1>1. f.before.seg["cs"].sel \in Word
  BY FrameTypes DEF OnTop
<1>2. \A x \in Word : x % Lo = x
  BY Sizes, SMT DEF Word
<1> QED BY <1>1, <1>2

LEMMA PopsAre ==
  ASSUME NEW m, Good(m), NEW q, q = Pop(m, N, W), NEW v, v = Top(m, N, W)
  PROVE  /\ Good(q) /\ q.mem = m.mem /\ q.seg = m.seg /\ q.pe = m.pe /\ q.gdt = m.gdt
         /\ v \in Long /\ v \in Int /\ v % Lo \in Word
<1>1. N \in {1, 2} /\ W \in Widths
  BY WidthsAre
<1>2. Good(q) /\ q.mem = m.mem /\ q.seg = m.seg /\ q.pe = m.pe /\ q.gdt = m.gdt
  BY <1>1, PopIs
<1>3. v \in Long /\ v \in Int /\ v % Lo \in Word
  BY <1>1, PopGood
<1> QED BY <1>2, <1>3

LEMMA RetFarUndoes ==
  ASSUME GoodState, PathInv, StackHolds, NEW imm \in Count, RetFar(imm)
  PROVE  StackHolds' /\ Undone'
<1> DEFINE q1 == Pop(cpu, N, W)
           q2 == Pop(q1, N, W)
           v1 == Top(cpu, N, W)
           v2 == Top(q1, N, W)
           g  == Get(q2, "sp", D) + imm
           q3 == SetReg(q2, "sp", g, D)
           z  == Goto(q3, v2 % Lo, v1)
<1>1. cpu' = z /\ ins'.op = "retf" /\ ins'.dest = imm /\ mode' = mode /\ Closes("far")
      /\ stage = "exec" /\ was' = was
  BY DEF RetFar, Do
<1> HIDE DEF q1, q2, v1, v2, g, q3, z
<1>2. q1.mem = cpu.mem /\ Good(q1) /\ v1 \in Int /\ v1 \in Long
      /\ q1.seg = cpu.seg /\ q1.pe = cpu.pe /\ q1.gdt = cpu.gdt
  BY PopsAre DEF GoodState, q1, v1
<1>3. q2.mem = q1.mem /\ Good(q2) /\ v2 % Lo \in Word
      /\ q2.seg = q1.seg /\ q2.pe = q1.pe /\ q2.gdt = q1.gdt
  BY <1>2, PopsAre DEF q2, v2
<1>4. imm \in Int /\ imm >= 0 /\ g \in Int /\ "sp" \in Gpr
  <2>1. imm \in Word /\ "sp" \in Gpr
    BY OperandAssumption DEF Gpr
  <2>2. Get(q2, "sp", D) \in Int
    BY <1>3, <2>1, GetLong, WidthsAre
  <2>3. Get(q2, "sp", D) + imm \in Int
    BY <2>1, <2>2, Sizes, SMT DEF Word
  <2> QED BY <2>1, <2>3, Sizes, SMT DEF Word, g
<1>5. /\ q3.mem = q2.mem /\ q3.reg["sp"] = Written(q2.reg["sp"], g, D) /\ Good(q3)
      /\ q3.seg = q2.seg /\ q3.pe = q2.pe /\ q3.gdt = q2.gdt
  BY <1>3, <1>4, SetRegDoes DEF q3
<1>6. z.mem = q3.mem /\ z.reg = q3.reg /\ z.eip = v1
  <2>1. z.mem = q3.mem /\ z.reg = q3.reg
    BY <1>5, GotoParts DEF z
  <2>2. Good(LoadSeg(q3, "cs", v2 % Lo))
    BY <1>3, <1>5, LoadSegGood DEF SegName
  <2>3. z.eip = v1
    BY <2>2 DEF Goto, Good, Machine, z
  <2> QED BY <2>1, <2>3
<1>7. StackHolds' /\ (closed' # NoFrame => Matched(closed', "far"))
  BY <1>1, <1>2, <1>3, <1>5, <1>6, ClosesKind
<1>8. CASE closed' # NoFrame
  <2> DEFINE f == closed'
  <2>1. Matched(f, "far")
    BY <1>7, <1>8
  <2> HIDE DEF f
  <2>2. OnTop(f) /\ f.kind = "far" /\ f.n = N /\ f.w = W /\ f.sp = cpu.reg["sp"] /\ Amount(f) = 2
    BY <2>1 DEF Matched, Amount
  <2>3. Shrinks(f, cpu, 2)
    BY <2>2, ShrinksFirst
  <2>4. 0 \in Nat /\ 1 = 0 + 1 /\ 1 =< Amount(f) /\ 1 \in Nat /\ 2 = 1 + 1 /\ 2 =< Amount(f)
    BY <2>2, SMT
  <2>5. Shrinks(f, q1, 1) /\ v1 = Item(f, 2)
    BY <2>2, <2>3, <2>4, ShrinksStep DEF q1, v1
  <2>6. Shrinks(f, q2, 0) /\ v2 = Item(f, 1)
    BY <2>2, <2>4, <2>5, ShrinksStep DEF q2, v2
  <2>7. q2.reg["sp"] = Sp(f)
    BY <2>2, <2>6, ShrinksLast
  <2>8. v2 = f.before.seg["cs"].sel /\ v1 = f.before.eip % Width(f.n = 2)
    BY <2>2, <2>5, <2>6 DEF Item
  <2>9. v2 % Lo = f.before.seg["cs"].sel
    BY <2>2, <2>8, SelIs
  <2>10. SpBack'
    <3>1. cpu'.reg["sp"] = Written(Sp(f), Seen(Sp(f), D) + imm, D)
      BY <1>1, <1>5, <1>6, <2>7 DEF g, Get
    <3> QED BY <1>1, <1>4, <2>1, <3>1, SpBackRet DEF f
  <2>11. CsBack'
    BY <1>1, <1>2, <1>3, <1>5, <2>9, GotoBack DEF f, z
  <2> QED BY <1>1, <1>6, <1>7, <2>2, <2>8, <2>10, <2>11, UndoneBy DEF f
<1> QED BY <1>1, <1>7, <1>8, UndoneBy

LEMMA IretUndoes ==
  ASSUME GoodState, PathInv, StackHolds, Iret
  PROVE  StackHolds' /\ Undone'
<1> DEFINE q1 == Pop(cpu, N, W)
           q2 == Pop(q1, N, W)
           q3 == Pop(q2, N, W)
           v1 == Top(cpu, N, W)
           v2 == Top(q1, N, W)
           v3 == Top(q2, N, W)
           m  == [q3 EXCEPT !.flags = AlwaysOn(v3)]
           z  == Goto(m, v2 % Lo, v1)
<1>1. cpu' = z /\ ins'.op = "iret" /\ mode' = mode /\ Closes("intr")
      /\ stage = "exec" /\ was' = was
  BY DEF Iret, Do
<1> HIDE DEF q1, q2, q3, v1, v2, v3
<1>2. q1.mem = cpu.mem /\ Good(q1) /\ v1 \in Int /\ v1 \in Long
      /\ q1.seg = cpu.seg /\ q1.pe = cpu.pe /\ q1.gdt = cpu.gdt
  BY PopsAre DEF GoodState, q1, v1
<1>3. q2.mem = q1.mem /\ Good(q2) /\ v2 % Lo \in Word
      /\ q2.seg = q1.seg /\ q2.pe = q1.pe /\ q2.gdt = q1.gdt
  BY <1>2, PopsAre DEF q2, v2
<1>4. q3.mem = q2.mem /\ Good(q3) /\ v3 \in Long
      /\ q3.seg = q2.seg /\ q3.pe = q2.pe /\ q3.gdt = q2.gdt
  BY <1>3, PopsAre DEF q3, v3
<1>5. /\ m.mem = q3.mem /\ m.reg = q3.reg /\ Good(m) /\ m.flags = AlwaysOn(v3)
      /\ m.seg = q3.seg /\ m.pe = q3.pe /\ m.gdt = q3.gdt
  <2>1. AlwaysOn(v3) \in Long
    BY <1>4, FlagWords
  <2> QED BY <1>4, <2>1, PartsGood, ZenonT(60) DEF Good, Machine
<1> HIDE DEF m
<1>6. z.mem = m.mem /\ z.reg = m.reg /\ z.eip = v1 /\ z.flags = m.flags
  <2>1. z.mem = m.mem /\ z.reg = m.reg /\ z.flags = m.flags
    BY <1>5, GotoParts
  <2>2. Good(LoadSeg(m, "cs", v2 % Lo))
    BY <1>3, <1>5, LoadSegGood DEF SegName
  <2>3. z.eip = v1
    BY <2>2 DEF Goto, Good, Machine
  <2> QED BY <2>1, <2>3
<1>7. StackHolds' /\ (closed' # NoFrame => Matched(closed', "intr"))
  BY <1>1, <1>2, <1>3, <1>4, <1>5, <1>6, ClosesKind
<1>8. CASE closed' # NoFrame
  <2> DEFINE f == closed'
  <2>1. Matched(f, "intr")
    BY <1>7, <1>8
  <2> HIDE DEF f, z
  <2>2. OnTop(f) /\ f.kind = "intr" /\ f.n = N /\ f.w = W /\ f.sp = cpu.reg["sp"] /\ Amount(f) = 3
    BY <2>1 DEF Matched, Amount
  <2>3. Shrinks(f, cpu, 3)
    BY <2>2, ShrinksFirst
  <2>4. /\ 0 \in Nat /\ 1 = 0 + 1 /\ 1 =< Amount(f) /\ 1 \in Nat /\ 2 = 1 + 1 /\ 2 =< Amount(f)
        /\ 2 \in Nat /\ 3 = 2 + 1 /\ 3 =< Amount(f)
    BY <2>2, SMT
  <2>5. Shrinks(f, q1, 2) /\ v1 = Item(f, 3)
    BY <2>2, <2>3, <2>4, ShrinksStep DEF q1, v1
  <2>6. Shrinks(f, q2, 1) /\ v2 = Item(f, 2)
    BY <2>2, <2>4, <2>5, ShrinksStep DEF q2, v2
  <2>7. Shrinks(f, q3, 0) /\ v3 = Item(f, 1)
    BY <2>2, <2>4, <2>6, ShrinksStep DEF q3, v3
  <2>8. q3.reg["sp"] = Sp(f)
    BY <2>2, <2>7, ShrinksLast
  <2>9. /\ v2 = f.before.seg["cs"].sel /\ v1 = f.before.eip % Width(f.n = 2)
        /\ v3 = Seen(f.before.flags, Width(f.n = 2))
    BY <2>2, <2>5, <2>6, <2>7 DEF Item, Seen
  <2>10. v2 % Lo = f.before.seg["cs"].sel
    BY <2>2, <2>9, SelIs
  <2>11. SpBack'
    <3>1. cpu'.reg["sp"] = Sp(f)
      BY <1>1, <1>5, <1>6, <2>8
    <3>2. Released' = 0 /\ 0 \in Int
      BY <1>1 DEF Released
    <3> QED BY <1>1, <2>2, <3>1, <3>2, SpBackBy DEF f
  <2>12. CsBack'
    BY <1>1, <1>2, <1>3, <1>4, <1>5, <2>10, GotoBack DEF f, z
  <2> QED BY <1>1, <1>5, <1>6, <1>7, <2>2, <2>9, <2>11, <2>12, UndoneBy DEF f
<1> QED BY <1>1, <1>7, <1>8, UndoneBy

LEMMA LeaveUndoes ==
  ASSUME GoodState, StackHolds, Leave
  PROVE  StackHolds' /\ Undone'
<1> DEFINE m == SetReg(cpu, "sp", Get(cpu, "bp", W), W)
           t == open[Len(open)]
           mt == /\ Matches(t, "enter")
                 /\ Get(cpu, "bp", W) = (Seen(t.before.reg["sp"], W) - N) % W
           q == Pop(m, N, W)
           v == Top(m, N, W)
           z == SetReg(q, "bp", v, D)
<1>1. cpu' = z /\ ins'.op = "leave" /\ mode' = mode /\ CloseTop(mt)
  BY DEF Leave, Do
<1> HIDE DEF m, q, v, z, mt
<1>2. "sp" \in Gpr /\ "bp" \in Gpr \ {"sp"} /\ "bp" \in Gpr /\ Get(cpu, "bp", W) \in Int
      /\ cpu.reg["sp"] \in Long
  BY GetLong, WidthsAre, FieldTypes DEF Gpr, GoodState, Good
<1>3. /\ Good(m) /\ m.mem = cpu.mem /\ m.seg = cpu.seg /\ m.pe = cpu.pe /\ m.gdt = cpu.gdt
      /\ m.reg["sp"] = Written(cpu.reg["sp"], Get(cpu, "bp", W), W)
  BY <1>2, SetRegIs, WidthsAre DEF GoodState, m
<1>4. q.mem = m.mem /\ Good(q) /\ v \in Int
  BY <1>3, PopKeeps DEF q, v
<1>5. z.mem = q.mem /\ z.reg["bp"] = Written(q.reg["bp"], v, D) /\ z.reg["sp"] = q.reg["sp"]
  BY <1>2, <1>4, SetRegDoes DEF z
<1>6. /\ StackHolds'
      /\ closed' # NoFrame => /\ mt /\ closed' = open[Len(open)]
                              /\ OnTop(closed') /\ closed'.sp = cpu.reg["sp"]
  BY <1>1, <1>3, <1>4, <1>5, ClosesIs
<1>7. CASE closed' # NoFrame
  <2> DEFINE f == closed'
             s == Seen(Sp(f), W)
  <2>1. /\ OnTop(f) /\ f.sp = cpu.reg["sp"] /\ f.kind = "enter" /\ f.n = N /\ f.w = W
        /\ Get(cpu, "bp", W) = (s - N) % W
    BY <1>6, <1>7 DEF mt, Matches, Sp
  <2> HIDE DEF f
  <2>2. f \in Frames /\ Amount(f) = 1 /\ D = W /\ f.sp = Written(Sp(f), s - Extent(f), W)
    <3>1. f.w = Width(f.n = 2) /\ Amount(f) = 1
      BY <2>1 DEF OnTop, Shape, Amount
    <3>2. D = Width(N = 2)
      BY ItemsWide
    <3> QED BY <2>1, <3>1, <3>2 DEF OnTop, Shape
  <2>3. Sp(f) \in Long /\ W \in Widths /\ W \in Nat \ {0} /\ N \in {1, 2}
      /\ Extent(f) \in Int /\ s \in Int
    <3>1. Sp(f) \in Long /\ Sp(f) \in Int /\ Extent(f) \in Int
      BY <2>2, FrameTypes
    <3>2. W \in Widths /\ W \in Nat \ {0} /\ N \in {1, 2}
      BY WidthsAre, WidthsPositive
    <3>3. s \in 0 .. (W - 1)
      BY <3>1, <3>2, SeenLong
    <3> HIDE DEF s, W
    <3>4. s \in Int
      BY <3>2, <3>3, SMT
    <3> QED BY <3>1, <3>2, <3>4
  <2> HIDE DEF s
  <2>4. m.reg["sp"] = Written(Sp(f), s - N, W)
    <3>1. s - Extent(f) \in Int /\ s - N \in Int /\ 1 * N = N
      BY <2>3, SMT
    <3>2. m.reg["sp"] = Written(Written(Sp(f), s - Extent(f), W), (s - N) % W, W)
      BY <1>3, <2>1, <2>2
    <3>3. (s - N) % W \in Int
      BY <1>2, <2>1
    <3> DEFINE a == s - Extent(f)
               b == s - N
    <3>4. a \in Int /\ b \in Int /\ b % W \in Int
          /\ m.reg["sp"] = Written(Written(Sp(f), a, W), b % W, W)
      BY <3>1, <3>2, <3>3
    <3> HIDE DEF a, b
    <3> DEFINE r == Sp(f)
               y == b % W
    <3>5. r \in Long /\ a \in Int /\ b \in Int /\ y \in Int /\ W \in Widths
      BY <2>3, <3>4
    <3>6. m.reg["sp"] = Written(Written(r, a, W), y, W)
      BY <3>4
    <3>7. Written(r, y, W) = Written(r, b, W)
      BY <3>5, WrittenIs
    <3> HIDE DEF r, y, W
    <3>8. Written(Written(r, a, W), y, W) = Written(r, y, W)
      BY <3>5, WrittenIs
    <3> QED BY <3>6, <3>7, <3>8 DEF b, r
  <2>5. Shrinks(f, m, 1)
    <3>1. 1 * N = N
      BY <2>3, SMT
    <3>2. Down(m, Sp(f), 1 * f.n, f.w)
      BY <2>1, <2>4, <3>1 DEF Down, s
    <3> QED BY <1>3, <3>2 DEF Shrinks
  <2>6. 0 \in Nat /\ 1 = 0 + 1 /\ 1 =< Amount(f)
    BY <2>2, SMT
  <2>7. Shrinks(f, q, 0) /\ v = Item(f, 1)
    BY <2>1, <2>5, <2>6, ShrinksStep DEF q, v
  <2>8. q.reg["sp"] = Sp(f)
    BY <2>1, <2>7, ShrinksLast
  <2>9. SpBack'
    <3>1. Released' = 0 /\ 0 \in Int
      BY <1>1 DEF Released
    <3> QED BY <1>1, <1>5, <2>1, <2>8, <3>1, SpBackBy DEF f
  <2>10. Get(cpu', "bp", W) = Seen(f.before.reg["bp"], W)
    <3> DEFINE x == f.before.reg["bp"]
    <3>1. v = Seen(x, W) /\ x \in Int /\ q.reg["bp"] \in Long
      BY <1>2, <1>4, <2>1, <2>2, <2>7, FrameTypes, FieldTypes DEF Item, Good
    <3>2. Seen(x, W) \in 0 .. (W - 1)
      BY <2>3, <3>1, SeenLong
    <3>3. Get(cpu', "bp", W) = v % W
      BY <1>1, <1>4, <1>5, <2>2, <2>3, <3>1, WrittenIs DEF Get
    <3> HIDE DEF x, W
    <3>4. v % W = v
      BY <2>3, <3>1, <3>2, SMT
    <3> QED BY <3>1, <3>3, <3>4 DEF x
  <2> QED BY <1>1, <1>6, <2>1, <2>9, <2>10, UndoneBy DEF f
<1> QED BY <1>1, <1>6, <1>7, UndoneBy

(* A frame that does not straddle 64K leaves room below SP for itself. *)
LEMMA LowerIs ==
  ASSUME NEW sp \in Long, NEW w \in Widths, NEW e \in Nat, e < w, NEW t,
         t = Written(sp, Seen(sp, w) - e, w), t =< sp, t \div Lo = sp \div Lo
  PROVE  sp % Lo >= e
<1>1. sp \in Int /\ sp >= 0 /\ sp < Full /\ Lo \in Nat \ {0} /\ Full \in Nat \ {0}
  BY Sizes, SMT DEF Long
<1> DEFINE q == sp \div Lo
           y == sp % Lo
<1>2. q \in Int /\ y \in 0 .. (Lo - 1) /\ sp = Lo * q + y
  BY <1>1, DivMod
<1>3. CASE w = Lo
  <2>1. t = (sp - y) + ((y - e) % Lo)
    BY <1>3 DEF Written, Seen
  <2> HIDE DEF q, y
  <2>2. y < e => (y - e) % Lo = (y - e) + Lo
    BY <1>1, <1>2, <1>3, SMT
  <2>3. y < e => t > sp
    BY <1>1, <1>2, <1>3, <2>1, <2>2, SMT
  <2>4. t \in Int
    <3> DEFINE z == (y - e) % Lo
    <3>1. z \in Int
      BY <1>1, <1>2, SMT
    <3> HIDE DEF z
    <3>2. (sp - y) + z \in Int
      BY <1>1, <1>2, <3>1, SMT
    <3> QED BY <2>1, <3>2 DEF z
  <2>5. y >= e
    BY <1>1, <1>2, <2>3, <2>4, SMT
  <2> QED BY <2>5 DEF y
<1>4. CASE w = Full
  <2>1. sp % Full = sp
    BY <1>1, SMT
  <2>2. t = (sp - sp) + ((sp - e) % Full)
    BY <1>4, <2>1 DEF Written, Seen
  <2>3. sp < e => (sp - e) % Full = (sp - e) + Full
    BY <1>1, <1>4, SMT
  <2>4. sp >= e => (sp - e) % Full = sp - e
    BY <1>1, <1>4, SMT
  <2>5. t = sp - e
    BY <1>1, <1>4, <2>2, <2>3, <2>4, SMT
  <2> DEFINE x == t % Lo
  <2>6. t \in Int
    BY <1>1, <2>5, SMT
  <2>7. t = Lo * q + x /\ x \in 0 .. (Lo - 1)
    BY <1>1, <2>6, DivMod
  <2> DEFINE g == Lo * q
  <2>8. g \in Int /\ t = g + x /\ sp = g + y
    BY <1>1, <1>2, <2>7, SMT
  <2> HIDE DEF q, y, x, g
  <2>9. y >= e
    BY <1>1, <1>2, <2>5, <2>7, <2>8, SMT
  <2> QED BY <2>9 DEF y
<1> QED BY <1>3, <1>4 DEF Widths

-----------------------------------------------------------------------------
(* popa: what has been loaded when k items are still to be popped *)
Loaded(f, m, k) ==
  /\ Shrinks(f, m, k)
  /\ \A j \in (k + 1) .. 8 :
       j # 5 => Get(m, AllRegs[j], D) = Seen(f.before.reg[AllRegs[j]], D)

LEMMA RegsApart ==
  /\ \A j \in 1 .. 8 : AllRegs[j] \in Gpr /\ (j # 5 => AllRegs[j] # "sp")
  /\ \A i, j \in 1 .. 8 : i # j => AllRegs[i] # AllRegs[j]
  /\ \A r \in Gpr \ {"sp"} : \E j \in 1 .. 8 : j # 5 /\ AllRegs[j] = r
  /\ AllRegs[5] = "sp"
<1>1. /\ AllRegs[1] = "ax" /\ AllRegs[2] = "cx" /\ AllRegs[3] = "dx" /\ AllRegs[4] = "bx"
      /\ AllRegs[5] = "sp" /\ AllRegs[6] = "bp" /\ AllRegs[7] = "si" /\ AllRegs[8] = "di"
  BY DEF AllRegs
<1> HIDE DEF AllRegs
<1>2. \A j \in 1 .. 8 : j = 1 \/ j = 2 \/ j = 3 \/ j = 4 \/ j = 5 \/ j = 6 \/ j = 7 \/ j = 8
  BY SMT
<1>3. \A j \in 1 .. 8 : AllRegs[j] \in Gpr /\ (j # 5 => AllRegs[j] # "sp")
  BY <1>1, <1>2 DEF Gpr
<1>4. \A i, j \in 1 .. 8 : i # j => AllRegs[i] # AllRegs[j]
  <2> TAKE i \in 1 .. 8
  <2>1. CASE i = 1 BY <1>1, <1>2, <2>1
  <2>2. CASE i = 2 BY <1>1, <1>2, <2>2
  <2>3. CASE i = 3 BY <1>1, <1>2, <2>3
  <2>4. CASE i = 4 BY <1>1, <1>2, <2>4
  <2>5. CASE i = 5 BY <1>1, <1>2, <2>5
  <2>6. CASE i = 6 BY <1>1, <1>2, <2>6
  <2>7. CASE i = 7 BY <1>1, <1>2, <2>7
  <2>8. CASE i = 8 BY <1>1, <1>2, <2>8
  <2> QED BY <1>2, <2>1, <2>2, <2>3, <2>4, <2>5, <2>6, <2>7, <2>8
<1>5. \A r \in Gpr \ {"sp"} : \E j \in 1 .. 8 : j # 5 /\ AllRegs[j] = r
  <2>1. 1 \in 1 .. 8 /\ 2 \in 1 .. 8 /\ 3 \in 1 .. 8 /\ 4 \in 1 .. 8 /\ 6 \in 1 .. 8 /\ 7 \in 1 .. 8
        /\ 8 \in 1 .. 8
    BY SMT
  <2> QED BY <1>1, <2>1 DEF Gpr
<1> QED BY <1>1, <1>3, <1>4, <1>5

LEMMA PopSp ==
  ASSUME NEW m, Good(m)
  PROVE  Pop(m, N, W).reg["sp"] = Written(m.reg["sp"], Get(m, "sp", W) + N, W)
<1> DEFINE q == Pop(m, N, W)
<1>1. N \in {1, 2} /\ W \in Widths /\ q = Pop(m, N, W)
  BY WidthsAre
<1> HIDE DEF q
<1>2. q.reg["sp"] = Written(m.reg["sp"], Get(m, "sp", W) + N, W)
  BY <1>1, PopIs
<1> QED BY <1>2 DEF q

LEMMA ShrinksNext ==
  ASSUME NEW f, OnTop(f), f.n = N, f.w = W, NEW m, NEW k \in 1 .. 8, Shrinks(f, m, k),
         k =< Amount(f)
  PROVE  /\ Shrinks(f, Pop(m, N, W), k - 1) /\ Top(m, N, W) = Item(f, k)
         /\ \A x \in Gpr \ {"sp"} : Pop(m, N, W).reg[x] = m.reg[x]
<1> DEFINE n == f.n
           w == f.w
           c == k - 1
           q == Pop(m, n, w)
<1>1. n = f.n /\ w = f.w /\ q = Pop(m, n, w) /\ n = N /\ w = W
  OBVIOUS
<1>2. c \in Nat /\ k = c + 1
  BY SMT
<1> HIDE DEF n, w, c, q
<1>3. /\ Shrinks(f, q, c) /\ Top(m, n, w) = Item(f, k)
      /\ \A x \in Gpr \ {"sp"} : q.reg[x] = m.reg[x]
  BY <1>1, <1>2, ShrinksStep, SMTT(30)
<1> QED BY <1>1, <1>3 DEF c

LEMMA LoadedStep ==
  ASSUME GoodState, NEW f, Matched(f, "all"), NEW m, NEW c \in 0 .. 7, NEW k, k = c + 1, k # 5,
         Loaded(f, m, k), NEW r, r = AllRegs[k],
         NEW q, q = SetReg(Pop(m, N, W), r, Top(m, N, W), D)
  PROVE  Loaded(f, q, c)
<1> DEFINE p == Pop(m, N, W)
           v == Top(m, N, W)
           b == f.before
<1>1. OnTop(f) /\ f \in Frames /\ f.n = N /\ f.w = W /\ Amount(f) = 8 /\ f.kind = "all"
  BY DEF Matched, OnTop, Amount
<1>2. k \in 1 .. 8 /\ c \in Nat /\ k =< Amount(f)
  BY <1>1, SMT
<1>3. Shrinks(f, m, k)
  BY DEF Loaded
<1>4. /\ Shrinks(f, p, c) /\ v = Item(f, k)
      /\ \A x \in Gpr \ {"sp"} : p.reg[x] = m.reg[x]
  <2>1. k - 1 = c
    BY <1>2, SMT
  <2>2. /\ Shrinks(f, Pop(m, N, W), k - 1) /\ Top(m, N, W) = Item(f, k)
        /\ \A x \in Gpr \ {"sp"} : Pop(m, N, W).reg[x] = m.reg[x]
    BY <1>1, <1>2, <1>3, ShrinksNext
  <2> QED BY <2>1, <2>2
<1>5. r \in Gpr \ {"sp"} /\ \A j \in 1 .. 8 : j # k => AllRegs[j] # r
  BY <1>2, RegsApart
<1>6. Good(p) /\ v \in Int
  <2>1. Good(m)
    BY <1>3 DEF Shrinks
  <2> QED BY <2>1, PopsAre
<1> HIDE DEF p, v
<1>7. /\ Good(q) /\ q.mem = p.mem /\ q.seg = p.seg /\ q.pe = p.pe /\ q.gdt = p.gdt
      /\ q.reg[r] = Written(p.reg[r], v, D)
      /\ \A x \in Gpr \ {r} : q.reg[x] = p.reg[x]
  <2>1. q = SetReg(p, r, v, D) /\ r \in Gpr
    BY <1>5 DEF p, v
  <2> QED BY <1>6, <2>1, SetRegIs, WidthsAre
<1>8. Shrinks(f, q, c)
  <2>1. q.reg["sp"] = p.reg["sp"]
    BY <1>5, <1>7 DEF Gpr
  <2> QED BY <1>4, <1>7, <2>1 DEF Shrinks, Down
<1>9. Get(q, r, D) = Seen(b.reg[r], D)
  <2>1. p.reg[r] \in Long /\ b.reg[r] \in Int
    BY <1>1, <1>5, <1>6, FieldTypes, FrameTypes DEF Good
  <2>2. v = Seen(b.reg[r], D)
    <3>1. D = Width(f.n = 2)
      BY <1>1, ItemsWide
    <3> QED BY <1>1, <1>4, <3>1 DEF Item
  <2>3. Get(q, r, D) = v % D
    BY <1>6, <1>7, <2>1, WrittenIs, WidthsAre DEF Get
  <2>4. D \in Nat \ {0}
    BY WidthsAre, WidthsPositive
  <2> DEFINE x == b.reg[r]
  <2> HIDE DEF x, D
  <2>5. x \in Int => (x % D) % D = x % D
    <3>1. x \in Int => x % D \in 0 .. (D - 1)
      BY <2>4, DivMod
    <3> DEFINE z == x % D
    <3> HIDE DEF z
    <3>2. z \in 0 .. (D - 1) => z % D = z
      BY <2>4, SMT
    <3> QED BY <3>1, <3>2 DEF z
  <2> QED BY <2>1, <2>2, <2>3, <2>5 DEF Seen, x
<1>10. ASSUME NEW j \in (c + 1) .. 8, j # 5
       PROVE  Get(q, AllRegs[j], D) = Seen(b.reg[AllRegs[j]], D)
  <2>1. j \in 1 .. 8 /\ (j = k \/ j \in (k + 1) .. 8)
    BY <1>2, SMT
  <2>2. CASE j = k
    BY <1>9, <2>2
  <2>3. CASE j # k /\ j \in (k + 1) .. 8
    <3>1. AllRegs[j] \in Gpr \ {"sp", r}
      BY <1>5, <1>10, <2>1, <2>3, RegsApart
    <3>2. q.reg[AllRegs[j]] = m.reg[AllRegs[j]]
      BY <1>4, <1>7, <3>1
    <3>3. Get(m, AllRegs[j], D) = Seen(b.reg[AllRegs[j]], D)
      BY <1>10, <2>3 DEF Loaded
    <3> QED BY <3>2, <3>3 DEF Get
  <2> QED BY <2>1, <2>2, <2>3
<1> QED BY <1>8, <1>10 DEF Loaded

(* SP is skipped where that carries nowhere. *)
LEMMA SkipStep ==
  ASSUME GoodState, NEW f, Matched(f, "all"),
         \/ D = W
         \/ f.sp =< Sp(f) /\ f.sp \div Lo = Sp(f) \div Lo,
         NEW m, Loaded(f, m, 5), NEW q, q = SetReg(m, "sp", Get(m, "sp", D) + N, D)
  PROVE  Loaded(f, q, 4)
<1> DEFINE sp == Sp(f)
           s == Seen(sp, W)
           p == Pop(m, N, W)
<1>1. OnTop(f) /\ f \in Frames /\ f.n = N /\ f.w = W /\ Amount(f) = 8 /\ f.kind = "all"
  BY DEF Matched, OnTop, Amount
<1>2. Shrinks(f, m, 5) /\ Good(m) /\ m.reg["sp"] = Written(sp, s - 5 * N, W)
  BY <1>1 DEF Loaded, Shrinks, Down
<1>3. "sp" \in Gpr /\ Get(m, "sp", D) + N \in Int
  <2>1. "sp" \in Gpr /\ Get(m, "sp", D) \in Int
    BY <1>2, GetLong, WidthsAre DEF Gpr
  <2> QED BY <2>1, WidthsAre, SMT
<1>4. /\ Good(q) /\ q.mem = m.mem /\ q.seg = m.seg /\ q.pe = m.pe /\ q.gdt = m.gdt
      /\ q.reg["sp"] = Written(m.reg["sp"], Get(m, "sp", D) + N, D)
      /\ \A x \in Gpr \ {"sp"} : q.reg[x] = m.reg[x]
  BY <1>2, <1>3, SetRegIs, WidthsAre
<1>5. /\ sp \in Long /\ D \in Widths /\ W \in Widths /\ N \in {1, 2}
  BY <1>1, FrameTypes, WidthsAre
<1> HIDE DEF p
<1>6. Down(q, sp, 4 * N, W)
  <2>1. CASE D = W
    <3>1. 5 \in 1 .. 8 /\ 5 =< Amount(f) /\ 5 - 1 = 4
      BY <1>1, SMT
    <3>2. Shrinks(f, p, 4)
      <4>1. Shrinks(f, Pop(m, N, W), 5 - 1)
        BY <1>1, <1>2, <3>1, ShrinksNext
      <4> QED BY <3>1, <4>1 DEF p
    <3>3. p.reg["sp"] = Written(m.reg["sp"], Get(m, "sp", W) + N, W)
      <4>1. Pop(m, N, W).reg["sp"] = Written(m.reg["sp"], Get(m, "sp", W) + N, W)
        BY <1>2, PopSp
      <4> QED BY <4>1 DEF p
    <3>4. q.reg["sp"] = p.reg["sp"]
      BY <1>4, <2>1, <3>3
    <3> QED BY <1>1, <3>2, <3>4 DEF Shrinks, Down
  <2>2. CASE f.sp =< sp /\ f.sp \div Lo = sp \div Lo
    <3> DEFINE y == sp % Lo
    <3>1. y >= 8 * N
      <4>1. Extent(f) = 8 * N /\ Extent(f) < W /\ f.sp = Written(sp, s - Extent(f), W)
        BY <1>1 DEF OnTop, Shape
      <4>2. 8 * N \in Nat
        BY <1>5, SMT
      <4> QED BY <1>5, <2>2, <4>1, <4>2, LowerIs
    <3>2. sp \in Int /\ Lo \in Nat \ {0} /\ y \in 0 .. (Lo - 1) /\ s \in Int
      <4>1. sp \in Int /\ Lo \in Nat \ {0}
        BY <1>5, Sizes, SMT DEF Long
      <4>2. s \in Long
        BY <1>5, <4>1, SeenLong
      <4> QED BY <4>1, <4>2, DivMod, WordsAndLongs
    <3> HIDE DEF y, s, sp
    <3>3. /\ -(5 * N) \in Int /\ -(4 * N) \in Int
          /\ 0 =< y + (-(5 * N)) /\ y + (-(5 * N)) < Lo
          /\ 0 =< y + (-(4 * N)) /\ y + (-(4 * N)) < Lo
          /\ s - 5 * N = s + (-(5 * N)) /\ s - 4 * N = s + (-(4 * N))
          /\ (sp + (-(5 * N))) + N = sp + (-(4 * N))
      BY <1>5, <3>1, <3>2, SMT
    <3> DEFINE a == -(5 * N)
               b == -(4 * N)
               z == sp + a
    <3> HIDE DEF a, b
    <3>4. a \in Int /\ 0 =< y + a /\ y + a < Lo /\ b \in Int /\ 0 =< y + b /\ y + b < Lo
      BY <3>3 DEF a, b
    <3>5. Written(sp, Seen(sp, W) + a, W) = z /\ Written(sp, Seen(sp, W) + b, W) = sp + b
      BY <1>5, <3>4, FlatIs DEF y
    <3>6. m.reg["sp"] = z
      BY <1>2, <3>3, <3>5 DEF a, s
    <3>7. z \in Long
      BY <1>2, <1>3, <3>6, FieldTypes DEF Good
    <3>8. z % Lo = y + a
      <4> DEFINE k == sp \div Lo
                 x == y + a
      <4>1. k \in Int /\ sp = Lo * k + y
        BY <3>2, DivMod DEF y
      <4> HIDE DEF k
      <4>2. x \in 0 .. (Lo - 1)
        BY <3>2, <3>4, SMT
      <4> DEFINE g == Lo * k
      <4>3. g \in Int /\ sp = g + y
        BY <3>2, <4>1, SMT
      <4> HIDE DEF g
      <4>4. sp + a = g + (y + a)
        BY <3>2, <3>4, <4>3, SMT
      <4>5. z = Lo * k + x
        BY <4>4 DEF g
      <4> HIDE DEF z, x
      <4>6. (Lo * k + x) % Lo = x
        BY <3>2, <4>1, <4>2, DivModIs
      <4> QED BY <4>5, <4>6 DEF x
    <3>9. /\ 0 =< (z % Lo) + N /\ (z % Lo) + N < Lo
      <4> DEFINE x == y + a
      <4>1. x \in Int /\ x + N = y + b
        BY <1>5, <3>2, <3>3, <3>4, SMT DEF a, b
      <4> HIDE DEF x
      <4>2. 0 =< x + N /\ x + N < Lo
        BY <3>4, <4>1
      <4> QED BY <3>8, <4>2 DEF x
    <3>10. N \in Int
      BY <1>5
    <3> HIDE DEF z
    <3>11. Written(z, Seen(z, D) + N, D) = z + N
      BY <1>5, <3>7, <3>9, <3>10, FlatIs
    <3>12. z + N = sp + b
      BY <3>3 DEF z, a, b
    <3>13. q.reg["sp"] = Written(sp, Seen(sp, W) + b, W)
      BY <1>4, <3>5, <3>6, <3>11, <3>12 DEF Get
    <3>14. Seen(sp, W) + b = Seen(sp, W) - 4 * N
      BY <3>3 DEF s, b
    <3> QED BY <3>13, <3>14 DEF Down, sp
  <2> QED BY <2>1, <2>2
<1>7. Shrinks(f, q, 4)
  BY <1>1, <1>2, <1>4, <1>6 DEF Shrinks
<1>8. ASSUME NEW j \in (4 + 1) .. 8, j # 5
      PROVE  Get(q, AllRegs[j], D) = Seen(f.before.reg[AllRegs[j]], D)
  <2>1. j \in (5 + 1) .. 8 /\ j \in 1 .. 8
    BY <1>8, SMT
  <2>2. AllRegs[j] \in Gpr \ {"sp"}
    BY <1>8, <2>1, RegsApart
  <2>3. Get(m, AllRegs[j], D) = Seen(f.before.reg[AllRegs[j]], D)
    BY <1>8, <2>1 DEF Loaded
  <2> QED BY <1>4, <2>2, <2>3 DEF Get
<1> QED BY <1>7, <1>8 DEF Loaded

Reads(m) == Good(m) /\ m.mem = cpu.mem

LEMMA PopAllUndoes ==
  ASSUME GoodState, StackHolds, PopAll
  PROVE  StackHolds' /\ Undone'
<1> DEFINE P(m, r) == SetReg(Pop(m, N, W), r, Top(m, N, W), D)
           Skip(m) == SetReg(m, "sp", Get(m, "sp", D) + N, D)
           q1 == P(cpu, "di")  q2 == P(q1, "si")  q3 == P(q2, "bp")  q4 == Skip(q3)
           q5 == P(q4, "bx")   q6 == P(q5, "dx")  q7 == P(q6, "cx")  q == P(q7, "ax")
<1>1. /\ cpu' = P(P(P(P(Skip(P(P(P(cpu, "di"), "si"), "bp")), "bx"), "dx"), "cx"), "ax")
      /\ ins'.op = "popa" /\ mode' = mode /\ Closes("all")
  BY DEF PopAll, Do
<1>2. cpu' = q
  BY <1>1
<1>3. ASSUME NEW m, Reads(m), NEW r \in Gpr
      PROVE  Reads(P(m, r))
  <2> DEFINE p == Pop(m, N, W)
             v == Top(m, N, W)
  <2>1. p = Pop(m, N, W) /\ v = Top(m, N, W) /\ P(m, r) = SetReg(p, r, v, D)
    OBVIOUS
  <2> HIDE DEF p, v, P
  <2>2. Good(p) /\ p.mem = m.mem /\ v \in Int
    BY <1>3, <2>1, PopsAre DEF Reads
  <2>3. Good(P(m, r)) /\ P(m, r).mem = p.mem
    BY <2>1, <2>2, SetRegIs, WidthsAre
  <2> QED BY <1>3, <2>2, <2>3 DEF Reads
<1>4. ASSUME NEW m, Reads(m)
      PROVE  Reads(Skip(m))
  <2>1. "sp" \in Gpr /\ Get(m, "sp", D) \in Int
    BY <1>4, GetLong, WidthsAre DEF Reads, Gpr
  <2>2. Get(m, "sp", D) + N \in Int
    BY <2>1, WidthsAre, SMT
  <2>3. Good(Skip(m)) /\ Skip(m).mem = m.mem
    BY <1>4, <2>1, <2>2, SetRegDoes DEF Reads
  <2> QED BY <1>4, <2>3 DEF Reads
<1>5. ASSUME NEW f, Matched(f, "all"), NEW m, NEW k \in 1 .. 8, k # 5, Loaded(f, m, k),
             NEW r, r = AllRegs[k]
      PROVE  Loaded(f, P(m, r), k - 1)
  <2> DEFINE c == k - 1
             p == P(m, r)
  <2>1. c \in 0 .. 7 /\ k = c + 1
    BY SMT
  <2>2. p = SetReg(Pop(m, N, W), r, Top(m, N, W), D)
    OBVIOUS
  <2> HIDE DEF c, p
  <2>3. Loaded(f, p, c)
    BY <1>5, <2>1, <2>2, LoadedStep
  <2> QED BY <2>3 DEF c, p
<1>6. ASSUME NEW f, Matched(f, "all"), NEW m, Loaded(f, m, 5),
             D = W \/ (f.sp =< Sp(f) /\ f.sp \div Lo = Sp(f) \div Lo)
      PROVE  Loaded(f, Skip(m), 4)
  <2> DEFINE p == Skip(m)
  <2>1. p = SetReg(m, "sp", Get(m, "sp", D) + N, D)
    OBVIOUS
  <2> HIDE DEF p
  <2>2. Loaded(f, p, 4)
    BY <1>6, <2>1, SkipStep
  <2> QED BY <2>2 DEF p
<1> HIDE DEF P, Skip, q
<1>7. Reads(cpu')
  <2>1. Reads(cpu)
    BY DEF Reads, GoodState
  <2>2. Reads(q4)
    <3>1. Reads(q1)
      BY <1>3, <2>1 DEF Gpr
    <3> HIDE DEF q1
    <3>2. Reads(q2)
      BY <1>3, <3>1 DEF Gpr
    <3> HIDE DEF q2
    <3>3. Reads(q3)
      BY <1>3, <3>2 DEF Gpr
    <3> QED BY <1>4, <3>3
  <2> HIDE DEF q4
  <2>3. Reads(q5)
    BY <1>3, <2>2 DEF Gpr
  <2> HIDE DEF q5
  <2>4. Reads(q6)
    BY <1>3, <2>3 DEF Gpr
  <2> HIDE DEF q6
  <2>5. Reads(q7)
    BY <1>3, <2>4 DEF Gpr
  <2> HIDE DEF q7
  <2>6. Reads(q)
    BY <1>3, <2>5 DEF Gpr, q
  <2> QED BY <1>2, <2>6
<1>8. StackHolds' /\ (closed' # NoFrame => Matched(closed', "all"))
  BY <1>1, <1>7, ClosesKind DEF Reads
<1>9. CASE closed' # NoFrame
  <2> DEFINE f == closed'
             flat == f.sp =< Sp(f) /\ f.sp \div Lo = Sp(f) \div Lo
  <2>1. Matched(f, "all")
    BY <1>8, <1>9
  <2>2. OnTop(f) /\ f.kind = "all" /\ Amount(f) = 8 /\ f.sp = cpu.reg["sp"]
    BY <2>1 DEF Matched, Amount
  <2>3. Released' = 0 /\ 0 \in Int
    BY <1>1 DEF Released
  <2>4. D' = D /\ W' = W
    BY <1>1 DEF D, W
  <2> HIDE DEF f
  <2>5. CASE D = W \/ flat
    <3>1. Loaded(f, cpu, 8)
      <4>1. Shrinks(f, cpu, 8)
        BY <2>2, ShrinksFirst
      <4>2. (8 + 1) .. 8 = {}
        BY SMT
      <4> QED BY <4>1, <4>2 DEF Loaded
    <3>2. /\ AllRegs[1] = "ax" /\ AllRegs[2] = "cx" /\ AllRegs[3] = "dx" /\ AllRegs[4] = "bx"
          /\ AllRegs[6] = "bp" /\ AllRegs[7] = "si" /\ AllRegs[8] = "di"
      BY DEF AllRegs
    <3> HIDE DEF AllRegs, flat
    <3>3. /\ 8 - 1 = 7 /\ 7 - 1 = 6 /\ 6 - 1 = 5 /\ 4 - 1 = 3 /\ 3 - 1 = 2 /\ 2 - 1 = 1 /\ 1 - 1 = 0
          /\ 8 \in 1 .. 8 /\ 7 \in 1 .. 8 /\ 6 \in 1 .. 8
          /\ 4 \in 1 .. 8 /\ 3 \in 1 .. 8 /\ 2 \in 1 .. 8 /\ 1 \in 1 .. 8
          /\ 8 # 5 /\ 7 # 5 /\ 6 # 5 /\ 4 # 5 /\ 3 # 5 /\ 2 # 5 /\ 1 # 5
      BY SMT
    <3>4. Loaded(f, q1, 7)
      BY <1>5, <2>1, <3>1, <3>2, <3>3
    <3> HIDE DEF q1
    <3>5. Loaded(f, q2, 6)
      BY <1>5, <2>1, <3>2, <3>3, <3>4
    <3> HIDE DEF q2
    <3>6. Loaded(f, q3, 5)
      BY <1>5, <2>1, <3>2, <3>3, <3>5
    <3> HIDE DEF q3
    <3>7. Loaded(f, q4, 4)
      BY <1>6, <2>1, <2>5, <3>6 DEF flat
    <3> HIDE DEF q4
    <3>8. Loaded(f, q5, 3)
      BY <1>5, <2>1, <3>2, <3>3, <3>7
    <3> HIDE DEF q5
    <3>9. Loaded(f, q6, 2)
      BY <1>5, <2>1, <3>2, <3>3, <3>8
    <3> HIDE DEF q6
    <3>10. Loaded(f, q7, 1)
      BY <1>5, <2>1, <3>2, <3>3, <3>9
    <3> HIDE DEF q7
    <3>11. Loaded(f, cpu', 0)
      BY <1>2, <1>5, <2>1, <3>2, <3>3, <3>10 DEF q
    <3>12. \A r \in Gpr \ {"sp"} : Get(cpu', r, D) = Seen(f.before.reg[r], D)
      <4> TAKE r \in Gpr \ {"sp"}
      <4>1. PICK j \in 1 .. 8 : j # 5 /\ AllRegs[j] = r
        BY RegsApart
      <4>2. j \in (0 + 1) .. 8
        BY SMT
      <4> QED BY <3>11, <4>1, <4>2 DEF Loaded
    <3>13. cpu'.reg["sp"] = Sp(f)
      BY <2>2, <3>11, ShrinksLast DEF Loaded
    <3>14. SpBack'
      BY <1>1, <2>2, <2>3, <3>13, SpBackBy DEF f
    <3> QED BY <1>1, <1>8, <2>2, <3>12, <3>14, UndoneBy DEF f
  <2>6. CASE ~(D = W \/ flat)
    <3>1. Carries'
      BY <2>4, <2>6 DEF Carries, Sp, f
    <3>2. SpBack'
      BY <1>1, <3>1 DEF SpBack
    <3> QED BY <1>1, <1>8, <2>2, <3>1, <3>2, UndoneBy DEF f
  <2> QED BY <2>5, <2>6
<1> QED BY <1>1, <1>8, <1>9, UndoneBy

-----------------------------------------------------------------------------
(* Jumps, loads and interrupts that are raised write no memory. *)
LEMMA ReadsOnly ==
  ASSUME NEW m, Reads(m)
  PROVE  /\ \A x : [m EXCEPT !.eip = x].mem = cpu.mem
         /\ \A x : [m EXCEPT !.pe = x].mem = cpu.mem
         /\ \A x : [m EXCEPT !.gdt = x].mem = cpu.mem /\ [m EXCEPT !.idt = x].mem = cpu.mem
         /\ \A x : Raise(m, x).mem = cpu.mem
         /\ \A r, v, w : SetReg(m, r, v, w).mem = cpu.mem
BY DEF Reads, Good, Machine, Raise, SetReg

LEMMA NeitherReads ==
  ASSUME GoodState, stage = "exec",
         \/ \E ofs \in Offset : Jump(ofs) \/ Jcxz(ofs)
         \/ \E ofs \in Offset, zf \in BOOLEAN : LoopCx(ofs, zf)
         \/ NoJump
         \/ \E r \in RegArg : JumpReg(r)
         \/ \E cs \in Selector, v \in Value : JumpFar(cs, v)
         \/ \E n \in {3, 4} : SoftInt(n)
         \/ Undefined
         \/ Loads
  PROVE  Neither /\ cpu'.mem = cpu.mem /\ stage' = "intr"
<1>1. Reads(cpu)
  BY DEF GoodState, Reads
<1>2. ASSUME NEW ofs \in Offset, Jump(ofs) \/ Jcxz(ofs)
      PROVE  Neither /\ cpu'.mem = cpu.mem /\ stage' = "intr"
  <2>1. CASE Jump(ofs)
    <3>1. Neither /\ stage' = "intr" /\ cpu' = [cpu EXCEPT !.eip = Target(ofs)]
      BY <2>1 DEF Jump, Do
    <3> QED BY <1>1, <3>1, ReadsOnly
  <2>2. CASE Jcxz(ofs)
    <3>1. /\ Neither /\ stage' = "intr"
          /\ cpu' = [cpu EXCEPT !.eip = Target(ofs)] \/ cpu' = cpu
      BY <2>2 DEF Jcxz, Do
    <3>2. [cpu EXCEPT !.eip = Target(ofs)].mem = cpu.mem
      BY <1>1, ReadsOnly
    <3> DEFINE e == [cpu EXCEPT !.eip = Target(ofs)]
    <3>3. e.mem = cpu.mem /\ (cpu' = e \/ cpu' = cpu)
      BY <3>1, <3>2
    <3> HIDE DEF e
    <3> QED BY <3>1, <3>3
  <2> QED BY <1>2, <2>1, <2>2
<1>3. ASSUME NEW ofs \in Offset, NEW zf \in BOOLEAN, LoopCx(ofs, zf)
      PROVE  Neither /\ cpu'.mem = cpu.mem /\ stage' = "intr"
  <2> DEFINE m == SetReg(cpu, "cx", Get(cpu, "cx", D) - 1, D)
  <2>1. Reads(m)
    <3>1. "cx" \in Gpr /\ Get(cpu, "cx", D) \in Int
      BY GetLong, WidthsAre DEF GoodState, Gpr
    <3>2. Get(cpu, "cx", D) - 1 \in Int
      BY <3>1, SMT
    <3>3. Good(m)
      BY <3>1, <3>2, SetRegGood, WidthsAre DEF GoodState
    <3> QED BY <1>1, <3>3, ReadsOnly DEF Reads
  <2>2. Neither /\ stage' = "intr" /\ (cpu' = m \/ cpu' = [m EXCEPT !.eip = Target(ofs)])
    BY <1>3 DEF LoopCx, Do
  <2> HIDE DEF m
  <2>3. m.mem = cpu.mem /\ [m EXCEPT !.eip = Target(ofs)].mem = cpu.mem
    BY <2>1, ReadsOnly DEF Reads
  <2> QED BY <2>2, <2>3
<1>4. ASSUME NoJump
      PROVE  Neither /\ cpu'.mem = cpu.mem /\ stage' = "intr"
  BY <1>4 DEF NoJump, Do
<1>5. ASSUME NEW r \in RegArg, JumpReg(r)
      PROVE  Neither /\ cpu'.mem = cpu.mem /\ stage' = "intr"
  BY <1>1, <1>5, ReadsOnly DEF JumpReg, Do
<1>6. ASSUME NEW cs \in Selector, NEW v \in Value, JumpFar(cs, v)
      PROVE  Neither /\ cpu'.mem = cpu.mem /\ stage' = "intr"
  <2>1. Neither /\ stage' = "intr" /\ cpu' = Goto(cpu, cs, v % D)
    BY <1>6 DEF JumpFar, Do
  <2> QED BY <2>1, GotoParts DEF GoodState
<1>7. ASSUME NEW n \in {3, 4}, SoftInt(n)
      PROVE  Neither /\ cpu'.mem = cpu.mem /\ stage' = "intr"
  BY <1>1, <1>7, ReadsOnly DEF SoftInt, Do
<1>8. ASSUME Undefined
      PROVE  Neither /\ cpu'.mem = cpu.mem /\ stage' = "intr"
  BY <1>1, <1>8, ReadsOnly DEF Undefined, Do
<1>9. ASSUME NEW s \in DataSeg, NEW r \in RegArg, NEW v \in Value, NEW val \in Selector,
             LoadFar(s, r, v, val)
      PROVE  Neither /\ cpu'.mem = cpu.mem /\ stage' = "intr"
  <2> DEFINE m == SetReg(cpu, r, v, D)
  <2>1. Good(m) /\ m.mem = cpu.mem
    <3>1. r \in Gpr /\ v \in Int
      BY OperandAssumption, WordsAndLongs
    <3> QED BY <1>1, <3>1, SetRegGood, ReadsOnly, WidthsAre DEF GoodState
  <2>2. Neither /\ stage' = "intr" /\ cpu' = LoadSeg(m, s, val)
    BY <1>9 DEF LoadFar, Do
  <2> HIDE DEF m
  <2>3. s \in SegName
    BY DEF DataSeg, SegName
  <2> QED BY <2>1, <2>2, <2>3, LoadSegParts
<1>10. ASSUME NEW s \in SegName, NEW val \in Selector, MovSeg(s, val)
       PROVE  Neither /\ cpu'.mem = cpu.mem /\ stage' = "intr"
  <2>1. Neither /\ stage' = "intr" /\ cpu' = LoadSeg(cpu, s, val)
    BY <1>10 DEF MovSeg, Do
  <2> QED BY <2>1, LoadSegParts DEF GoodState
<1>11. ASSUME NEW r \in RegArg, NEW v \in Value, MovReg(r, v)
       PROVE  Neither /\ cpu'.mem = cpu.mem /\ stage' = "intr"
  BY <1>1, <1>11, ReadsOnly DEF MovReg, Do
<1>12. ASSUME NEW pe \in BOOLEAN, SetPe(pe)
       PROVE  Neither /\ cpu'.mem = cpu.mem /\ stage' = "intr"
  BY <1>1, <1>12, ReadsOnly DEF SetPe, Do
<1>13. ASSUME NEW t \in Tables, LoadGdt(t) \/ LoadIdt(t)
       PROVE  Neither /\ cpu'.mem = cpu.mem /\ stage' = "intr"
  <2>1. CASE LoadGdt(t)
    BY <1>1, <2>1, ReadsOnly DEF LoadGdt, Do
  <2>2. CASE LoadIdt(t)
    BY <1>1, <2>2, ReadsOnly DEF LoadIdt, Do
  <2> QED BY <1>13, <2>1, <2>2
<1> QED
  BY <1>2, <1>3, <1>4, <1>5, <1>6, <1>7, <1>8, <1>9, <1>10, <1>11, <1>12, <1>13 DEF Loads

(* Frames lie in the stack as they were pushed, one on top of the other,   *)
(* and what is popped undoes what it belongs to.                           *)
FrameInv ==
  /\ stage \in {"exec", "enter"} => closed = NoFrame
  /\ stage = "enter" => open \in Seq(Frames) /\ EnterHolds
  /\ stage # "enter" => StackHolds
  /\ stage # "top" => saved.cs = was.seg["cs"].sel
  /\ Undone

LEMMA FrameFirst == Init => FrameInv
<1> SUFFICES ASSUME Init PROVE FrameInv
  OBVIOUS
<1>1. stage = "top" /\ open = <<>> /\ closed = NoFrame
  BY DEF Init
<1>2. StackHolds
  BY <1>1, StackedNone DEF StackHolds
<1>3. Undone
  BY <1>1 DEF Undone
<1> QED BY <1>1, <1>2, <1>3 DEF FrameInv

LEMMA FramesDone ==
  ASSUME FrameInv, stage # "top", stage' = "intr", saved' = saved, was' = was,
         StackHolds', Undone' \/ closed' = NoFrame
  PROVE  FrameInv'
<1>1. Undone'
  BY DEF Undone
<1> QED BY <1>1 DEF FrameInv

LEMMA FramesSame ==
  ASSUME FrameInv, stage = "intr", stage' = "top", open' = open, closed' = NoFrame,
         cpu'.mem = cpu.mem, cpu'.seg = cpu.seg, cpu'.reg = cpu.reg
  PROVE  FrameInv'
<1>1. StackHolds
  BY DEF FrameInv
<1>2. Stacked(open, cpu', cpu'.reg["sp"])
  BY <1>1, StackedSame DEF StackHolds
<1>3. StackHolds'
  BY <1>2 DEF StackHolds
<1>4. Undone'
  BY DEF Undone
<1> QED BY <1>3, <1>4 DEF FrameInv

LEMMA FetchFrames ==
  ASSUME GoodState, FrameInv, NEW prefix, Fetch(prefix)
  PROVE  FrameInv'
<1>1. /\ stage = "top" /\ stage' = "exec" /\ open' = open /\ closed' = NoFrame
      /\ saved'.cs = cpu.seg["cs"].sel /\ was' = Saved(cpu)
      /\ cpu' = [cpu EXCEPT !.eip = Written(cpu.eip, cpu.eip + 1, Width(cpu.seg["cs"].acc.big))]
  BY DEF Fetch
<1>2. cpu'.mem = cpu.mem /\ cpu'.seg = cpu.seg /\ cpu'.reg = cpu.reg
  BY <1>1 DEF GoodState, Good, Machine
<1>3. StackHolds
  BY <1>1 DEF FrameInv
<1>4. Stacked(open, cpu', cpu'.reg["sp"])
  BY <1>2, <1>3, StackedSame DEF StackHolds
<1>5. StackHolds'
  BY <1>1, <1>4 DEF StackHolds
<1>6. Undone'
  BY <1>1 DEF Undone
<1>7. saved'.cs = was'.seg["cs"].sel
  BY <1>1 DEF Saved
<1> QED BY <1>1, <1>5, <1>6, <1>7 DEF FrameInv

LEMMA StackFrames ==
  ASSUME GoodState, GoodState', PathInv, FrameInv, Stack
  PROVE  FrameInv'
<1>1. Good(cpu')
  BY DEF GoodState
<1>2. ASSUME NEW op, NEW dest, NEW result, Do(op, dest, result)
      PROVE  stage = "exec" /\ stage' = "intr" /\ saved' = saved /\ was' = was /\ StackHolds
  BY <1>2 DEF Do, FrameInv
<1>3. ASSUME \/ \E v \in Value : PushValue(v)
             \/ \E r \in RegArg : PushReg(r)
             \/ \E s \in SegName : PushSeg(s)
             \/ PushFlags
      PROVE  FrameInv'
  <2>1. stage = "exec" /\ stage' = "intr" /\ saved' = saved /\ was' = was /\ StackHolds
    BY <1>2, <1>3 DEF PushValue, PushReg, PushSeg, PushFlags
  <2>2. StackHolds' /\ closed' = NoFrame
    BY <1>1, <1>3, <2>1, OnePushHolds
  <2> QED BY <2>1, <2>2, FramesDone
<1>4. ASSUME PushAll PROVE FrameInv'
  <2>1. stage = "exec" /\ stage' = "intr" /\ saved' = saved /\ was' = was /\ StackHolds
    BY <1>2, <1>4 DEF PushAll
  <2>2. StackHolds' /\ closed' = NoFrame
    BY <1>1, <1>4, <2>1, PushAllHolds
  <2> QED BY <2>1, <2>2, FramesDone
<1>5. ASSUME NEW r \in RegArg, PopReg(r) PROVE FrameInv'
  <2>1. stage = "exec" /\ stage' = "intr" /\ saved' = saved /\ was' = was /\ StackHolds
    BY <1>2, <1>5 DEF PopReg
  <2>2. StackHolds' /\ Undone'
    BY <1>5, <2>1, PopRegUndoes
  <2> QED BY <2>1, <2>2, FramesDone
<1>6. ASSUME NEW s \in DataSeg, PopSeg(s) PROVE FrameInv'
  <2>1. stage = "exec" /\ stage' = "intr" /\ saved' = saved /\ was' = was /\ StackHolds
    BY <1>2, <1>6 DEF PopSeg
  <2>2. StackHolds' /\ Undone'
    BY <1>6, <2>1, PopSegUndoes
  <2> QED BY <2>1, <2>2, FramesDone
<1>7. ASSUME PopMem PROVE FrameInv'
  <2>1. stage = "exec" /\ stage' = "intr" /\ saved' = saved /\ was' = was /\ StackHolds
    BY <1>2, <1>7 DEF PopMem
  <2>2. StackHolds' /\ Undone'
    BY <1>7, <2>1, PopMemUndoes
  <2> QED BY <2>1, <2>2, FramesDone
<1>8. ASSUME PopAll PROVE FrameInv'
  <2>1. stage = "exec" /\ stage' = "intr" /\ saved' = saved /\ was' = was /\ StackHolds
    BY <1>8 DEF PopAll, Do, FrameInv
  <2>2. StackHolds' /\ Undone'
    BY <1>8, <2>1, PopAllUndoes
  <2> QED BY <2>1, <2>2, FramesDone
<1>9. ASSUME PopFlags PROVE FrameInv'
  <2>1. stage = "exec" /\ stage' = "intr" /\ saved' = saved /\ was' = was /\ StackHolds
    BY <1>2, <1>9 DEF PopFlags
  <2>2. StackHolds' /\ Undone'
    BY <1>9, <2>1, PopFlagsUndoes
  <2> QED BY <2>1, <2>2, FramesDone
<1>10. ASSUME Leave PROVE FrameInv'
  <2>1. stage = "exec" /\ stage' = "intr" /\ saved' = saved /\ was' = was /\ StackHolds
    BY <1>2, <1>10 DEF Leave
  <2>2. StackHolds' /\ Undone'
    BY <1>10, <2>1, LeaveUndoes
  <2> QED BY <2>1, <2>2, FramesDone
<1>11. ASSUME NEW local \in Count, NEW level \in Depth, Enter(local, level) PROVE FrameInv'
  <2>1. /\ stage = "exec" /\ stage' = "enter" /\ saved' = saved /\ was' = was
        /\ open' = open /\ closed' = closed
    BY <1>11 DEF Enter
  <2>2. StackHolds /\ closed = NoFrame /\ saved.cs = was.seg["cs"].sel
    BY <2>1 DEF FrameInv
  <2>3. EnterHolds' /\ open \in Seq(Frames)
    BY <1>11, <2>2, EnterBegins DEF StackHolds, Stacked
  <2>4. Undone'
    BY <2>1, <2>2 DEF Undone
  <2> QED BY <2>1, <2>2, <2>3, <2>4 DEF FrameInv
<1>12. ASSUME EnterCopy PROVE FrameInv'
  <2>1. /\ stage = "enter" /\ stage' = "enter" /\ saved' = saved /\ was' = was
        /\ open' = open /\ closed' = closed
    BY <1>12 DEF EnterCopy
  <2>2. EnterHolds /\ open \in Seq(Frames) /\ closed = NoFrame /\ saved.cs = was.seg["cs"].sel
    BY <2>1 DEF FrameInv
  <2>3. EnterHolds'
    BY <1>12, <2>2, EnterGoes
  <2>4. Undone'
    BY <2>1, <2>2 DEF Undone
  <2> QED BY <2>1, <2>2, <2>3, <2>4 DEF FrameInv
<1>13. ASSUME EnterEnd PROVE FrameInv'
  <2>1. stage = "enter" /\ stage' = "intr" /\ saved' = saved /\ was' = was
    BY <1>13 DEF EnterEnd
  <2>2. EnterHolds /\ open \in Seq(Frames)
    BY <2>1 DEF FrameInv
  <2>3. StackHolds' /\ closed' = NoFrame
    BY <1>13, <2>2, EnterEnds
  <2> QED BY <2>1, <2>3, FramesDone
<1> QED
  BY <1>3, <1>4, <1>5, <1>6, <1>7, <1>8, <1>9, <1>10, <1>11, <1>12, <1>13 DEF Stack

LEMMA TransferFrames ==
  ASSUME GoodState, GoodState', PathInv, FrameInv, Near \/ Far \/ Loads
  PROVE  FrameInv'
<1>1. Good(cpu')
  BY DEF GoodState
<1>2. ASSUME NEW op, NEW dest, NEW result, Do(op, dest, result)
      PROVE  stage = "exec" /\ stage' = "intr" /\ saved' = saved /\ was' = was /\ StackHolds
  BY <1>2 DEF Do, FrameInv
<1>3. ASSUME \/ \E ofs \in Offset : Jump(ofs) \/ Jcxz(ofs)
             \/ \E ofs \in Offset, zf \in BOOLEAN : LoopCx(ofs, zf)
             \/ NoJump
             \/ \E r \in RegArg : JumpReg(r)
             \/ \E cs \in Selector, v \in Value : JumpFar(cs, v)
             \/ \E n \in {3, 4} : SoftInt(n)
             \/ Undefined
             \/ Loads
      PROVE  FrameInv'
  <2>1. stage = "exec" /\ stage' = "intr" /\ saved' = saved /\ was' = was /\ StackHolds
    <3>1. CASE \E ofs \in Offset : Jump(ofs) \/ Jcxz(ofs)
      BY <1>2, <3>1 DEF Jump, Jcxz
    <3>2. CASE \E ofs \in Offset, zf \in BOOLEAN : LoopCx(ofs, zf)
      BY <3>2 DEF LoopCx, Do, FrameInv
    <3>3. CASE NoJump \/ Undefined
      BY <1>2, <3>3 DEF NoJump, Undefined
    <3>4. CASE \E r \in RegArg : JumpReg(r)
      BY <1>2, <3>4 DEF JumpReg
    <3>5. CASE \E cs \in Selector, v \in Value : JumpFar(cs, v)
      BY <1>2, <3>5 DEF JumpFar
    <3>6. CASE \E n \in {3, 4} : SoftInt(n)
      BY <1>2, <3>6 DEF SoftInt
    <3>7. CASE Loads
      BY <1>2, <3>7 DEF Loads, LoadFar, MovSeg, MovReg, SetPe, LoadGdt, LoadIdt
    <3> QED BY <1>3, <3>1, <3>2, <3>3, <3>4, <3>5, <3>6, <3>7
  <2>2. Neither /\ cpu'.mem = cpu.mem
    BY <1>3, <2>1, NeitherReads
  <2>3. StackHolds' /\ closed' = NoFrame
    BY <2>1, <2>2, NeitherHolds
  <2> QED BY <2>1, <2>3, FramesDone
<1>4. ASSUME \/ \E ofs \in Offset : CallNear(ofs)
             \/ \E v \in Value : CallValue(v)
             \/ \E r \in RegArg : CallReg(r)
      PROVE  FrameInv'
  <2>1. stage = "exec" /\ stage' = "intr" /\ saved' = saved /\ was' = was /\ StackHolds
    BY <1>2, <1>4 DEF CallNear, CallValue, CallReg
  <2>2. StackHolds' /\ closed' = NoFrame
    BY <1>1, <1>4, <2>1, OnePushHolds
  <2> QED BY <2>1, <2>2, FramesDone
<1>5. ASSUME NEW imm \in Count, RetNear(imm) PROVE FrameInv'
  <2>1. stage = "exec" /\ stage' = "intr" /\ saved' = saved /\ was' = was /\ StackHolds
    BY <1>2, <1>5 DEF RetNear
  <2>2. StackHolds' /\ Undone'
    BY <1>5, <2>1, RetNearUndoes
  <2> QED BY <2>1, <2>2, FramesDone
<1>6. ASSUME NEW cs \in Selector, NEW v \in Value, CallFar(cs, v) PROVE FrameInv'
  <2>1. stage = "exec" /\ stage' = "intr" /\ saved' = saved /\ was' = was /\ StackHolds
    BY <1>2, <1>6 DEF CallFar
  <2>2. StackHolds' /\ closed' = NoFrame
    BY <1>1, <1>6, <2>1, CallFarHolds
  <2> QED BY <2>1, <2>2, FramesDone
<1>7. ASSUME NEW imm \in Count, RetFar(imm) PROVE FrameInv'
  <2>1. stage = "exec" /\ stage' = "intr" /\ saved' = saved /\ was' = was /\ StackHolds
    BY <1>2, <1>7 DEF RetFar
  <2>2. StackHolds' /\ Undone'
    BY <1>7, <2>1, RetFarUndoes
  <2> QED BY <2>1, <2>2, FramesDone
<1>8. ASSUME Iret PROVE FrameInv'
  <2>1. stage = "exec" /\ stage' = "intr" /\ saved' = saved /\ was' = was /\ StackHolds
    BY <1>2, <1>8 DEF Iret
  <2>2. StackHolds' /\ Undone'
    BY <1>8, <2>1, IretUndoes
  <2> QED BY <2>1, <2>2, FramesDone
<1>9. CASE Near
  <2>1. CASE \E ofs \in Offset : Jump(ofs) \/ Jcxz(ofs) \/ CallNear(ofs)
    BY <1>3, <1>4, <2>1
  <2> QED BY <1>3, <1>4, <1>5, <1>9, <2>1 DEF Near
<1>10. CASE Far
  <2>1. CASE \E cs \in Selector, v \in Value : JumpFar(cs, v) \/ CallFar(cs, v)
    BY <1>3, <1>6, <2>1
  <2> QED BY <1>3, <1>7, <1>8, <1>10, <2>1 DEF Far
<1> QED BY <1>3, <1>9, <1>10

LEMMA FrameNext ==
  /\ GoodState /\ GoodState' /\ PathInv /\ FrameInv /\ [Next]_vars
  => FrameInv'
<1> SUFFICES ASSUME GoodState, GoodState', PathInv, FrameInv, [Next]_vars
             PROVE  FrameInv'
  OBVIOUS
<1>1. ASSUME NEW prefix \in BOOLEAN, Fetch(prefix) PROVE FrameInv'
  BY <1>1, FetchFrames
<1>2. ASSUME NoIntr \/ Handled PROVE FrameInv'
  <2>1. /\ stage = "intr" /\ stage' = "top" /\ open' = open /\ closed' = NoFrame
        /\ cpu' = cpu \/ cpu' = [cpu EXCEPT !.intr = None]
    BY <1>2 DEF NoIntr, Handled
  <2>2. cpu'.mem = cpu.mem /\ cpu'.seg = cpu.seg /\ cpu'.reg = cpu.reg
    BY <2>1 DEF GoodState, Good, Machine
  <2> QED BY <2>1, <2>2, FramesSame
<1>3. ASSUME Deliver PROVE FrameInv'
  <2>1. stage = "intr" /\ stage' = "top"
    BY <1>3 DEF Deliver
  <2>2. StackHolds /\ saved.cs = was.seg["cs"].sel
    BY <2>1 DEF FrameInv
  <2>3. StackHolds' /\ closed' = NoFrame
    BY <1>3, <2>2, DeliverHolds
  <2>4. Undone'
    BY <2>3 DEF Undone
  <2> QED BY <2>1, <2>3, <2>4 DEF FrameInv
<1>4. CASE UNCHANGED vars
  <2>1. /\ stage' = stage /\ cpu' = cpu /\ mode' = mode /\ saved' = saved /\ copies' = copies
        /\ ins' = ins /\ was' = was /\ open' = open /\ closed' = closed
    BY <1>4 DEF vars
  <2>2. StackHolds' <=> StackHolds
    BY <2>1 DEF StackHolds
  <2>3. EnterHolds' <=> EnterHolds
    BY <2>1 DEF EnterHolds, EnterFits, Taken, Height, N, W
  <2>4. SpBack' <=> SpBack
    BY <2>1 DEF SpBack, Carries, Released, D, W
  <2>5. CsBack' <=> CsBack
    BY <2>1 DEF CsBack, Reloads
  <2>6. Carries' <=> Carries
    BY <2>1 DEF Carries, Released, D, W
  <2>7. Undone' <=> Undone
    BY <2>1, <2>4, <2>5, <2>6, Zenon DEF Undone, D, W
  <2> QED BY <2>1, <2>2, <2>3, <2>7 DEF FrameInv
<1> QED
  BY <1>1, <1>2, <1>3, <1>4, StackFrames, TransferFrames DEF Next

(* A return or a pop undoes what it belongs to, however the pushes, calls, *)
(* interrupts and ENTERs in between nest: SP, CS:EIP, flags and registers  *)
(* come back as they were pushed, and a fault comes back to the beginning  *)
(* of its instruction (generate_int(), and PUSH .. LEAVE in ops.c).        *)
THEOREM FramesComeBack == Spec => []Undone
<1>1. GoodState /\ PathInv /\ EndInv /\ FrameInv /\ [Next]_vars
        => GoodState' /\ PathInv' /\ EndInv' /\ FrameInv'
  BY NextGood, PathNext, FrameNext
<1>2. FrameInv => Undone
  BY DEF FrameInv
<1> QED
  BY InitGood, PathFirst, FrameFirst, <1>1, <1>2, PTL DEF Spec

-----------------------------------------------------------------------------
(* Where a transfer arrives.  q is behind it: EIP is the one asked for, CS *)
(* what a load of the selector asked for gives, and a refusal is pending.  *)
Placed(q, to) ==
  LET l == Load(q.pe, q.gdt, q.seg["ldt"], was.seg["cs"], to.sel)
  IN  /\ q.eip = to.eip /\ q.seg["cs"] = l.reg
      /\ ~l.ok => q.intr # None /\ q.intr.restart

LEMMA GotoPlaces ==
  ASSUME Calm, NEW R, NEW m, Chain(m, R), NEW cs \in Word, NEW eip,
         NEW q, q = Goto(m, cs, eip)
  PROVE  Placed(q, Place(cs, eip))
<1> DEFINE l == Load(m.pe, m.gdt, m.seg["ldt"], m.seg["cs"], cs)
           x == LoadSeg(m, "cs", cs)
<1>1. m \in Machine /\ "cs" \in SegName /\ "ldt" \in SegName \ {"cs"}
      /\ m.seg \in [SegName -> Reg] /\ Good(m) /\ m.seg = was.seg
  BY FieldTypes DEF Chain, Good, SegName
<1>2. x \in Machine /\ x.pe = m.pe /\ x.gdt = m.gdt /\ x.seg["ldt"] = m.seg["ldt"]
  BY <1>1, LoadSegGood, LoadSegParts DEF Good
<1>3. x.seg["cs"] = l.reg /\ (~l.ok => x.intr # None /\ x.intr.restart)
  <2>1. CASE l.ok
    <3>1. x = [m EXCEPT !.seg["cs"] = l.reg]
      BY <2>1 DEF LoadSeg
    <3> HIDE DEF l
    <3> QED BY <1>1, <2>1, <3>1 DEF Machine
  <2>2. CASE ~l.ok
    <3>1. l.reg = m.seg["cs"]
      BY <2>2 DEF Load
    <3>2. x = Raise(m, FaultGP(cs))
      BY <2>2 DEF LoadSeg
    <3> HIDE DEF l, x
    <3>3. x.seg = m.seg /\ (x.intr = FaultGP(cs) \/ (x.intr = m.intr /\ m.intr # None))
      BY <1>1, <3>2 DEF Raise, Machine
    <3>4. m.intr = None \/ m.intr = StackFault
      BY DEF Chain
    <3>5. x.intr = FaultGP(cs) \/ x.intr = StackFault
      BY <3>3, <3>4
    <3>6. \A e : FaultGP(e).restart = TRUE /\ FaultGP(e).type = "fault" /\ None.type = "none"
      BY DEF FaultGP, None
    <3>7. x.intr.restart = TRUE /\ x.intr.type = "fault" /\ None.type = "none"
      BY <3>5, <3>6 DEF StackFault
    <3>8. x.intr # None
      BY <3>7
    <3> QED BY <3>1, <3>3, <3>7, <3>8
  <2> QED BY <2>1, <2>2
<1> HIDE DEF l, x
<1>4. /\ q.eip = eip /\ q.seg = x.seg /\ q.pe = x.pe /\ q.gdt = x.gdt /\ q.intr = x.intr
  BY <1>2 DEF Goto, Machine, x
<1>5. Place(cs, eip).sel = cs /\ Place(cs, eip).eip = eip
  BY DEF Place
<1>6. l = Load(q.pe, q.gdt, q.seg["ldt"], was.seg["cs"], cs)
  BY <1>1, <1>2, <1>4 DEF l
<1> HIDE DEF l
<1> QED BY <1>3, <1>4, <1>5, <1>6 DEF Placed

(* A return does not write the words that it pops: behind it they are what *)
(* it has found.                                                           *)
LEMMA StackedWords ==
  ASSUME GoodState, PathInv, stage = "exec", mode' = mode, was' = was,
         cpu'.mem = cpu.mem, cpu'.seg["ss"] = cpu.seg["ss"]
  PROVE  /\ OnStack(0)' = Top(cpu, N, W)
         /\ OnStack(1)' = Top(Pop(cpu, N, W), N, W)
<1> DEFINE sp == cpu.reg["sp"]
           q  == Pop(cpu, N, W)
<1>1. /\ N \in {1, 2} /\ W \in Widths /\ W \in Nat \ {0} /\ Good(cpu)
      /\ sp \in Long /\ sp \in Int /\ "sp" \in Gpr
  BY WidthsAre, WidthsPositive, FieldTypes, WordsAndLongs DEF GoodState, Good, Gpr
<1>2. was.reg["sp"] = sp
  BY <1>1, Untouched
<1>3. q.mem = cpu.mem /\ q.seg = cpu.seg /\ q.reg["sp"] = Written(sp, Get(cpu, "sp", W) + N, W)
  BY <1>1, PopIs
<1>4. \A ofs : /\ Fetched(cpu', "ss", ofs, N) = Fetched(cpu, "ss", ofs, N)
               /\ Fetched(q, "ss", ofs, N) = Fetched(cpu, "ss", ofs, N)
  <2> HIDE DEF q
  <2> QED BY <1>3 DEF Fetched, Linear
<1> HIDE DEF q, sp
<1>5. sp % W \in Int /\ (sp % W) + N \in Int
  <2>1. sp % W \in 0 .. (W - 1)
    BY <1>1, DivMod
  <2> QED BY <1>1, <2>1, SMT
<1>6. (Seen(sp, W) + 0 * N) % W = sp % W
  <2>1. 0 \in Int /\ 0 * N = 0 /\ sp + 0 = sp
    BY <1>1, SMT
  <2>2. ((sp % W) + 0) % W = (sp + 0) % W
    BY <1>1, <2>1, ModPlus
  <2> QED BY <2>1, <2>2 DEF Seen
<1>7. Get(q, "sp", W) = (Seen(sp, W) + 1 * N) % W
  <2>1. Seen(Written(sp, (sp % W) + N, W), W) = ((sp % W) + N) % W
    BY <1>1, <1>5, WrittenIs
  <2>2. 1 * N = N
    BY <1>1, SMT
  <2> QED BY <1>3, <2>1, <2>2 DEF Get, Seen, sp
<1>8. N' = N /\ W' = W /\ was'.reg["sp"] = sp
  BY <1>2 DEF N, W
<1>9. OnStack(0)' = Fetched(cpu', "ss", sp % W, N)
  <2>1. OnStack(0)' = Fetched(cpu', "ss", (Seen(sp, W) + 0 * N) % W, N)
    BY <1>8 DEF OnStack
  <2> QED BY <1>6, <2>1
<1>10. OnStack(1)' = Fetched(cpu', "ss", Get(q, "sp", W), N)
  <2>1. OnStack(1)' = Fetched(cpu', "ss", (Seen(sp, W) + 1 * N) % W, N)
    BY <1>8 DEF OnStack
  <2> QED BY <1>7, <2>1
<1>11. Top(cpu, N, W) = Fetched(cpu, "ss", sp % W, N)
  BY DEF Top, Get, Seen, sp
<1>12. Top(q, N, W) = Fetched(q, "ss", Get(q, "sp", W), N)
  BY DEF Top
<1> QED BY <1>4, <1>9, <1>10, <1>11, <1>12 DEF q

LEMMA JumpFarPlaces ==
  ASSUME Calm, GoodState, PathInv,
         NEW cs \in Selector, NEW v \in Value, JumpFar(cs, v) \/ CallFar(cs, v)
  PROVE  Placed(cpu', Asked') /\ was' = was
<1> DEFINE R == {"sp"}
           m1 == Push(cpu, N, cpu.seg["cs"].sel, W)
           m2 == Push(m1, N, cpu.eip % D, W)
<1>1. cpu.eip % D \in Int /\ cpu.seg["cs"].sel \in Int /\ N \in {1, 2} /\ cs \in Word
  BY FieldTypes, WordsAndLongs, WidthsAre, OperandAssumption DEF GoodState, Good, SegName
<1>2. stage = "exec" /\ was' = was /\ ins'.dest = Place(cs, v % D) /\ ins'.op \in {"jmpf", "callf"}
  BY DEF JumpFar, CallFar, Do
<1>3. Chain(cpu, R) /\ "sp" \in R
  BY <1>2, Begins
<1> HIDE DEF R
<1>4. CASE JumpFar(cs, v)
  <2>1. cpu' = Goto(cpu, cs, v % D)
    BY <1>4, DoneIs DEF JumpFar
  <2>2. Placed(cpu', Place(cs, v % D))
    BY <1>1, <1>3, <2>1, GotoPlaces
  <2> QED BY <1>2, <2>2 DEF Asked
<1>5. CASE CallFar(cs, v)
  <2>1. cpu' = Goto(m2, cs, v % D)
    BY <1>5, DoneIs DEF CallFar
  <2>2. Chain(m1, R)
    BY <1>1, <1>3, ChainPush
  <2> HIDE DEF m1
  <2>3. Chain(m2, R)
    BY <1>1, <1>3, <2>2, ChainPush
  <2> HIDE DEF m2
  <2>4. Placed(cpu', Place(cs, v % D))
    BY <1>1, <2>1, <2>3, GotoPlaces
  <2> QED BY <1>2, <2>4 DEF Asked
<1> QED BY <1>4, <1>5

(* retf and iret: the two pops, and then the chain goes on to m. *)
LEMMA ReturnPlaces ==
  ASSUME Calm, GoodState, PathInv, stage = "exec", mode' = mode, was' = was,
         ins'.op \in {"retf", "iret"}, NEW R, NEW m, Chain(m, R), m.mem = cpu.mem,
         cpu' = Goto(m, Top(Pop(cpu, N, W), N, W) % Lo, Top(cpu, N, W))
  PROVE  Placed(cpu', Asked')
<1> DEFINE q  == Pop(cpu, N, W)
           v1 == Top(cpu, N, W)
           v2 == Top(q, N, W)
<1>1. Good(cpu) /\ Good(q) /\ v2 % Lo \in Word
  <2>1. Good(cpu)
    BY DEF GoodState
  <2>2. Good(q)
    BY <2>1, PopsAre
  <2> HIDE DEF q
  <2> QED BY <2>1, <2>2, PopsAre
<1>2. Good(m) /\ m.seg = was.seg /\ cpu.seg = was.seg
  BY Untouched DEF Chain
<1>3. cpu'.mem = cpu.mem /\ cpu'.seg["ss"] = cpu.seg["ss"]
  BY <1>2, GotoParts
<1>4. OnStack(0)' = v1 /\ OnStack(1)' = v2
  BY <1>3, StackedWords
<1>5. cpu' = Goto(m, v2 % Lo, v1)
  OBVIOUS
<1> HIDE DEF v1, v2
<1>6. Placed(cpu', Place(v2 % Lo, v1))
  BY <1>1, <1>5, GotoPlaces
<1>7. Asked' = Place(v2 % Lo, v1)
  BY <1>4 DEF Asked
<1> QED BY <1>6, <1>7

LEMMA RetFarPlaces ==
  ASSUME Calm, GoodState, PathInv, NEW imm \in Count, RetFar(imm)
  PROVE  Placed(cpu', Asked') /\ was' = was
<1> DEFINE R  == {"sp"}
           m1 == Pop(cpu, N, W)
           m2 == Pop(m1, N, W)
           v  == Get(m2, "sp", D) + imm
           m3 == SetReg(m2, "sp", v, D)
<1>1. /\ stage = "exec" /\ mode' = mode /\ was' = was /\ ins'.op = "retf"
      /\ cpu' = Goto(m3, Top(m1, N, W) % Lo, Top(cpu, N, W))
  BY DEF RetFar, Do
<1>2. Chain(cpu, R) /\ "sp" \in R /\ "sp" \in Gpr /\ imm \in Int /\ D \in Widths
  BY <1>1, Begins, OperandAssumption, WordsAndLongs, WidthsAre DEF Gpr
<1> HIDE DEF R
<1>3. Chain(m1, R) /\ m1.mem = cpu.mem
  BY <1>2, ChainPop, PopsAre DEF Chain
<1> HIDE DEF m1
<1>4. Chain(m2, R) /\ m2.mem = cpu.mem
  BY <1>2, <1>3, ChainPop, PopsAre DEF Chain
<1> HIDE DEF m2
<1>5. v \in Int
  <2>1. Get(m2, "sp", D) \in Int
    BY <1>2, <1>4, GetLong DEF Chain
  <2> QED BY <1>2, <2>1, SMT
<1> HIDE DEF v
<1>6. Chain(m3, R) /\ m3.mem = cpu.mem
  BY <1>2, <1>4, <1>5, ChainSetReg, SetRegDoes DEF Chain
<1> HIDE DEF m3
<1>7. cpu' = Goto(m3, Top(Pop(cpu, N, W), N, W) % Lo, Top(cpu, N, W))
  BY <1>1 DEF m1
<1>8. ins'.op \in {"retf", "iret"}
  BY <1>1
<1> QED BY <1>1, <1>6, <1>7, <1>8, ReturnPlaces

LEMMA IretPlaces ==
  ASSUME Calm, GoodState, PathInv, Iret
  PROVE  Placed(cpu', Asked') /\ was' = was
<1> DEFINE R  == {"sp", "flags"}
           m1 == Pop(cpu, N, W)
           m2 == Pop(m1, N, W)
           q  == Pop(m2, N, W)
           f  == AlwaysOn(Top(m2, N, W))
           m3 == [q EXCEPT !.flags = f]
<1>1. /\ stage = "exec" /\ mode' = mode /\ was' = was /\ ins'.op = "iret"
      /\ cpu' = Goto(m3, Top(m1, N, W) % Lo, Top(cpu, N, W))
  BY DEF Iret, Do
<1>2. Chain(cpu, R) /\ "sp" \in R /\ "flags" \in R
  BY <1>1, Begins
<1> HIDE DEF R
<1>3. Chain(m1, R) /\ m1.mem = cpu.mem
  BY <1>2, ChainPop, PopsAre DEF Chain
<1> HIDE DEF m1
<1>4. Chain(m2, R) /\ m2.mem = cpu.mem
  BY <1>2, <1>3, ChainPop, PopsAre DEF Chain
<1>5. Chain(q, R) /\ q.mem = cpu.mem /\ Top(m2, N, W) \in Long
  <2> HIDE DEF m2
  <2> QED BY <1>2, <1>4, ChainPop, PopsAre DEF Chain
<1>6. f \in Long
  BY <1>5, FlagWords
<1> HIDE DEF m2, q, f
<1>7. Chain(m3, R) /\ m3.mem = cpu.mem
  <2>1. Chain(m3, R)
    BY <1>2, <1>5, <1>6, ChainFlags
  <2>2. m3.mem = q.mem
    BY <1>5 DEF Chain, Good, Machine
  <2> QED BY <1>5, <2>1, <2>2
<1> HIDE DEF m3
<1>8. cpu' = Goto(m3, Top(Pop(cpu, N, W), N, W) % Lo, Top(cpu, N, W))
  BY <1>1 DEF m1
<1>9. ins'.op \in {"retf", "iret"}
  BY <1>1
<1> QED BY <1>1, <1>7, <1>8, <1>9, ReturnPlaces

(* The other instructions are not asked to go anywhere. *)
Elsewhere ==
  /\ stage # "top" /\ stage' # "top" /\ saved' = saved /\ was' = was
  /\ stage' = "intr" => ins'.op \notin {"jmpf", "callf", "retf", "iret"}

LEMMA OthersStay ==
  ASSUME PathInv,
         \/ Stack \/ Near \/ Loads
         \/ Undefined \/ \E n \in {3, 4} : SoftInt(n)
  PROVE  Elsewhere
<1>1. ASSUME NEW op, NEW dest, NEW result, Do(op, dest, result),
             op \notin {"jmpf", "callf", "retf", "iret"}
      PROVE  Elsewhere
  BY <1>1 DEF Do, Elsewhere
<1>2. ASSUME \/ \E v \in Value : PushValue(v)
             \/ \E r \in RegArg : PushReg(r) \/ PopReg(r)
             \/ \E s \in SegName \ {"ldt"} : PushSeg(s)
             \/ \E s \in DataSeg : PopSeg(s)
             \/ PopMem \/ PushFlags \/ PopFlags
      PROVE  Elsewhere
  BY <1>1, <1>2 DEF PushValue, PushReg, PopReg, PushSeg, PopSeg, PopMem, PushFlags, PopFlags
<1>3. ASSUME PushAll \/ PopAll PROVE Elsewhere
  BY <1>3 DEF PushAll, PopAll, Do, Elsewhere
<1>4. ASSUME Leave PROVE Elsewhere
  BY <1>4 DEF Leave, Do, Elsewhere
<1>5. ASSUME NEW local \in Count, NEW level \in Depth, Enter(local, level) PROVE Elsewhere
  BY <1>5 DEF Enter, Elsewhere
<1>6. ASSUME EnterCopy \/ EnterEnd PROVE Elsewhere
  BY <1>6 DEF EnterCopy, EnterEnd, Elsewhere, PathInv
<1>7. ASSUME Near PROVE Elsewhere
  <2>1. ASSUME NEW ofs \in Offset, Jump(ofs) \/ Jcxz(ofs) \/ CallNear(ofs) PROVE Elsewhere
    BY <1>1, <2>1 DEF Jump, Jcxz, CallNear
  <2>2. ASSUME NEW ofs \in Offset, NEW zf \in BOOLEAN, LoopCx(ofs, zf) PROVE Elsewhere
    BY <2>2 DEF LoopCx, Do, Elsewhere
  <2>3. ASSUME NoJump \/ \E v \in Value : CallValue(v) PROVE Elsewhere
    BY <2>3 DEF NoJump, CallValue, Do, Elsewhere
  <2>4. ASSUME NEW r \in RegArg, CallReg(r) \/ JumpReg(r) PROVE Elsewhere
    BY <2>4 DEF CallReg, JumpReg, Do, Elsewhere
  <2>5. ASSUME NEW imm \in Count, RetNear(imm) PROVE Elsewhere
    BY <2>5 DEF RetNear, Do, Elsewhere
  <2> QED BY <1>7, <2>1, <2>2, <2>3, <2>4, <2>5 DEF Near
<1>8. ASSUME Loads PROVE Elsewhere
  <2>1. ASSUME NEW s \in DataSeg, NEW r \in RegArg, NEW v \in Value, NEW val \in Selector,
               LoadFar(s, r, v, val)
        PROVE  Elsewhere
    BY <2>1 DEF LoadFar, Do, Elsewhere
  <2>2. ASSUME NEW s \in SegName, NEW val \in Selector, MovSeg(s, val) PROVE Elsewhere
    BY <2>2 DEF MovSeg, Do, Elsewhere
  <2>3. ASSUME NEW r \in RegArg, NEW v \in Value, MovReg(r, v) PROVE Elsewhere
    BY <2>3 DEF MovReg, Do, Elsewhere
  <2>4. ASSUME \/ \E pe \in BOOLEAN : SetPe(pe)
               \/ \E t \in Tables : LoadGdt(t) \/ LoadIdt(t)
        PROVE  Elsewhere
    BY <1>1, <2>4 DEF SetPe, LoadGdt, LoadIdt
  <2> QED BY <1>8, <2>1, <2>2, <2>3, <2>4 DEF Loads
<1>9. ASSUME Undefined \/ \E n \in {3, 4} : SoftInt(n) PROVE Elsewhere
  BY <1>1, <1>9 DEF Undefined, SoftInt
<1> QED
  BY <1>2, <1>3, <1>4, <1>5, <1>6, <1>7, <1>8, <1>9 DEF Stack

SavedInv == stage # "top" => saved = [cs |-> was.seg["cs"].sel, eip |-> was.eip]

LEMMA ArrivesNext ==
  ASSUME Calm, GoodState, PathInv, SavedInv, ArrivesWhole, [Next]_vars
  PROVE  SavedInv' /\ ArrivesWhole'
<1>1. ASSUME NEW prefix \in BOOLEAN, Fetch(prefix) PROVE SavedInv' /\ ArrivesWhole'
  <2>1. /\ stage' = "exec" /\ was' = Saved(cpu)
        /\ saved' = [cs |-> cpu.seg["cs"].sel, eip |-> cpu.eip]
    BY <1>1 DEF Fetch
  <2> QED BY <2>1 DEF SavedInv, ArrivesWhole, Saved
<1>2. ASSUME Elsewhere PROVE SavedInv' /\ ArrivesWhole'
  BY <1>2 DEF Elsewhere, SavedInv, ArrivesWhole
<1>3. ASSUME \/ \E cs \in Selector, v \in Value : JumpFar(cs, v) \/ CallFar(cs, v)
             \/ \E imm \in Count : RetFar(imm)
             \/ Iret
      PROVE  SavedInv' /\ ArrivesWhole'
  <2>1. Placed(cpu', Asked') /\ was' = was
    BY <1>3, JumpFarPlaces, RetFarPlaces, IretPlaces
  <2>2. stage = "exec" /\ stage' = "intr" /\ saved' = saved
    BY <1>3 DEF JumpFar, CallFar, RetFar, Iret, Do
  <2>3. SavedInv'
    BY <2>1, <2>2 DEF SavedInv
  <2>4. saved' = [cs |-> was'.seg["cs"].sel, eip |-> was'.eip]
    BY <2>2, <2>3 DEF SavedInv
  <2> DEFINE l == Load(cpu'.pe, cpu'.gdt, cpu'.seg["ldt"], was'.seg["cs"], Asked'.sel)
  <2>5. /\ cpu'.eip = Asked'.eip /\ cpu'.seg["cs"] = l.reg
        /\ ~l.ok => cpu'.intr # None /\ cpu'.intr.restart
    BY <2>1, Zenon DEF Placed
  <2>6. ArrivesWhole'
    BY <2>4, <2>5, Zenon DEF ArrivesWhole
  <2> QED BY <2>3, <2>6
<1>4. CASE NoIntr \/ Handled \/ Deliver
  <2>1. stage' = "top"
    BY <1>4 DEF NoIntr, Handled, Deliver
  <2> QED BY <2>1 DEF SavedInv, ArrivesWhole
<1>5. CASE UNCHANGED vars
  <2>1. /\ stage' = stage /\ cpu' = cpu /\ mode' = mode /\ saved' = saved
        /\ ins' = ins /\ was' = was
    BY <1>5 DEF vars
  <2>2. \A k : OnStack(k)' = OnStack(k)
    BY <2>1 DEF OnStack, N, W
  <2>3. Asked' = Asked
    BY <2>1, <2>2 DEF Asked
  <2>4. ArrivesWhole'
    BY <2>1, <2>3, Zenon DEF ArrivesWhole
  <2> QED BY <2>1, <2>4 DEF SavedInv
<1>6. CASE Far
  BY <1>2, <1>3, <1>6, OthersStay DEF Far
<1> QED
  BY <1>1, <1>2, <1>4, <1>5, <1>6, OthersStay DEF Next

(* A far jump, call or return and IRET take the EIP they are asked for and *)
(* what a load of the selector they are asked for makes of CS.  A selector *)
(* that is refused leaves CS, and a fault that restarts is pending before  *)
(* the next instruction, with the CS:EIP of this one to go back to:        *)
(* provided no interrupt is pending when the host starts the program (it   *)
(* would keep the fault out: x86emu_intr_raise() takes the first).         *)
THEOREM TransfersArrive ==
  (\A m \in Machines : m.intr = None) => (Spec => []ArrivesWhole)
<1> SUFFICES ASSUME \A m \in Machines : m.intr = None
             PROVE  Spec => []ArrivesWhole
  OBVIOUS
<1>1. Calm
  BY DEF Calm
<1>2. Init => SavedInv /\ ArrivesWhole
  BY DEF Init, SavedInv, ArrivesWhole
<1>3. GoodState /\ PathInv /\ EndInv /\ SavedInv /\ ArrivesWhole /\ [Next]_vars
        => GoodState' /\ PathInv' /\ EndInv' /\ SavedInv' /\ ArrivesWhole'
  BY <1>1, NextGood, PathNext, ArrivesNext
<1> QED
  BY <1>2, <1>3, InitGood, PathFirst, PTL DEF Spec

=============================================================================
