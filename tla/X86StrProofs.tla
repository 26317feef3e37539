---------------------------- MODULE X86StrProofs ----------------------------
(***************************************************************************)
(* Proofs about the string instructions, for all register widths, segments *)
(* and memories: types, registers, the destination, scans, faults, copies. *)
(***************************************************************************)
EXTENDS X86StrProps, TLAPS

-----------------------------------------------------------------------------
(* Arithmetic modulo a width. *)
LEMMA DivMod ==
  ASSUME NEW x \in Int, NEW m \in Nat \ {0}
  PROVE  /\ x \div m \in Int /\ x % m \in 0 .. (m - 1)
         /\ x = m * (x \div m) + (x % m)
BY SMT

LEMMA ModUnique ==
  ASSUME NEW q \in Int, NEW z \in Nat, NEW m \in Nat \ {0}, z < m
  PROVE  (m * q + z) % m = z
<1> DEFINE x == m * q + z
           p == x \div m
           y == x % m
<1>1. x \in Int /\ p \in Int /\ y \in 0 .. (m - 1) /\ x = m * p + y
  BY DivMod
<1>2. m * (q - p) = y - z
  BY <1>1, SMT
<1> HIDE DEF p, y
<1>3. CASE q > p
  <2>1. m * (q - p) >= m
    BY <1>1, <1>3, SMT
  <2> QED BY <2>1, <1>1, <1>2, SMT
<1>4. CASE q < p
  <2>1. m * (p - q) >= m
    BY <1>1, <1>4, SMT
  <2>2. m * (p - q) = z - y
    BY <1>1, SMT
  <2> QED BY <2>1, <2>2, <1>1, SMT
<1>5. CASE q = p
  BY <1>5, <1>1, <1>2, SMT DEF y
<1> QED BY <1>1, <1>3, <1>4, <1>5, SMT

LEMMA ModSmall ==
  ASSUME NEW m \in Nat \ {0}, NEW x \in 0 .. (m - 1)
  PROVE  x % m = x
<1>1. m * 0 + x = x /\ x \in Nat /\ x < m
  BY SMT
<1> QED BY <1>1, ModUnique, SMT

LEMMA ModAdd ==
  ASSUME NEW x \in Int, NEW i \in Int, NEW m \in Nat \ {0}
  PROVE  ((x % m) + i) % m = (x + i) % m
<1> DEFINE q == x \div m
           y == x % m
           p == (y + i) \div m
           z == (y + i) % m
<1>1. q \in Int /\ y \in 0 .. (m - 1) /\ x = m * q + y
  BY DivMod
<1>2. p \in Int /\ z \in 0 .. (m - 1) /\ y + i = m * p + z
  BY <1>1, DivMod, SMT
<1> HIDE DEF q, y, p, z
<1>3. x + i = m * (q + p) + z
  BY <1>1, <1>2, SMT
<1>4. (m * (q + p) + z) % m = z
  <2>1. q + p \in Int /\ z \in Nat /\ z < m
    BY <1>1, <1>2, SMT
  <2> QED BY <2>1, ModUnique
<1>5. (x + i) % m = z
  BY <1>3, <1>4
<1> QED BY <1>5 DEF z, y

LEMMA TurnAdded ==
  ASSUME NEW x \in Int, NEW m \in Nat \ {0}
  PROVE  (x + m) % m = x % m
<1> DEFINE q == x \div m
           y == x % m
<1>1. q \in Int /\ y \in 0 .. (m - 1) /\ x = m * q + y
  BY DivMod
<1> HIDE DEF q, y
<1>2. x + m = m * (q + 1) + y /\ q + 1 \in Int /\ y \in Nat /\ y < m
  BY <1>1, SMT
<1>3. (m * (q + 1) + y) % m = y
  BY <1>2, ModUnique
<1> QED BY <1>2, <1>3 DEF y

(* The two widths, and a register split at the smaller one. *)
Widths == {Lo, Full}

LEMMA WidthsPositive == \A w \in Widths : w \in Nat \ {0} /\ Full % w = 0
<1>1. Full * 1 + 0 = Full /\ Full \in Nat \ {0}
  BY WidthAssumption, SMT
<1>2. Full % Full = 0
  BY <1>1, ModUnique, SMT
<1> QED BY <1>1, <1>2, WidthAssumption DEF Widths

LEMMA Split ==
  ASSUME NEW r \in Reg, NEW w \in Widths, NEW v \in 0 .. (w - 1)
  PROVE  /\ (r - (r % w)) + v \in Reg
         /\ ((r - (r % w)) + v) % w = v
         /\ r % w \in 0 .. (w - 1) /\ r % w <= r
<1> DEFINE q == r \div w
           y == r % w
           k == Full \div w
<1>0. w \in Nat \ {0} /\ Full % w = 0 /\ Full \in Nat \ {0} /\ r \in Int
  BY WidthsPositive, WidthAssumption, SMT DEF Reg
<1>1. q \in Int /\ y \in 0 .. (w - 1) /\ r = w * q + y
  BY <1>0, DivMod
<1>2. k \in Int /\ Full = w * k
  BY <1>0, DivMod, SMT
<1> HIDE DEF q, y, k
<1>3. r \in 0 .. (Full - 1)
  BY DEF Reg
<1>4. q >= 0
  <2> SUFFICES ASSUME q < 0 PROVE FALSE
    BY <1>1, SMT
  <2>1. w * q <= 0 - w
    BY <1>0, <1>1, SMT
  <2> QED BY <2>1, <1>0, <1>1, <1>3, SMT
<1>5. w * q + w <= Full
  <2>1. w * q < w * k
    BY <1>0, <1>1, <1>2, <1>3, SMT
  <2>2. q < k
    <3> SUFFICES ASSUME q >= k PROVE FALSE
      BY <1>1, <1>2, SMT
    <3>1. w * q >= w * k
      BY <1>0, <1>1, <1>2, SMT
    <3> QED BY <3>1, <2>1, <1>0, <1>1, <1>2, SMT
  <2>3. w * (q + 1) <= w * k
    BY <2>2, <1>0, <1>1, <1>2, SMT
  <2> QED BY <2>3, <1>0, <1>1, <1>2, SMT
<1>6. w * q >= 0
  BY <1>4, <1>0, <1>1, SMT
<1>7. (w * q + v) % w = v
  BY <1>0, <1>1, ModUnique, SMT
<1>8. r - y = w * q
  BY <1>0, <1>1, SMT
<1>9. w * q + v \in 0 .. (Full - 1)
  BY <1>0, <1>1, <1>5, <1>6, SMT
<1> QED BY <1>0, <1>1, <1>6, <1>7, <1>8, <1>9, <1>3, SMT DEF y, Reg

(* Writing a register twice, the second time relative to the first. *)
LEMMA WrittenType ==
  ASSUME NEW r \in Reg, NEW w \in Widths, NEW v \in Int
  PROVE  /\ Written(r, v, w) \in Reg
         /\ Seen(Written(r, v, w), w) = v % w
         /\ Written(r, v, w) - Seen(Written(r, v, w), w) = r - Seen(r, w)
         /\ Seen(r, w) \in Reg /\ Seen(r, w) \in 0 .. (w - 1)
<1>1. v % w \in 0 .. (w - 1)
  BY WidthsPositive, DivMod
<1>2. /\ Written(r, v, w) \in Reg
      /\ Written(r, v, w) % w = v % w
      /\ r % w \in 0 .. (w - 1) /\ r % w <= r
  BY <1>1, Split DEF Written
<1>3. r \in Int /\ v % w \in Int /\ r % w \in Int /\ w \in Int
  BY <1>1, <1>2, WidthsPositive, SMT DEF Reg
<1>4. r % w \in Reg
  BY <1>2, <1>3, WidthAssumption, SMT DEF Reg
<1> QED BY <1>1, <1>2, <1>3, <1>4, SMT DEF Written, Seen

LEMMA WrittenAgain ==
  ASSUME NEW r \in Reg, NEW w \in Widths, NEW v \in Int, NEW i \in Int
  PROVE  Written(Written(r, v, w), Seen(Written(r, v, w), w) + i, w) = Written(r, v + i, w)
<1> DEFINE s == Written(r, v, w)
<1>1. s \in Reg /\ s % w = v % w /\ s - (s % w) = r - (r % w)
  BY WrittenType DEF Seen
<1>2. ((v % w) + i) % w = (v + i) % w
  BY ModAdd, WidthsPositive
<1> HIDE DEF s
<1>3. Written(s, Seen(s, w) + i, w) = (s - (s % w)) + ((v + i) % w)
  BY <1>1, <1>2 DEF Written, Seen
<1>4. Written(s, Seen(s, w) + i, w) = Written(r, v + i, w)
  BY <1>1, <1>3 DEF Written
<1> QED BY <1>4 DEF s

(* Writing back what was seen, of the same width or of the smaller one,    *)
(* changes nothing.                                                        *)
LEMMA WrittenBack ==
  ASSUME NEW r \in Reg, NEW w \in Widths, NEW u \in Widths, u = w \/ u = Full
  PROVE  Written(r, Seen(r, u), w) = r
<1>1. r % w \in 0 .. (w - 1) /\ w \in Nat \ {0} /\ r \in Int
  BY Split, WidthsPositive, WrittenType, SMT DEF Seen, Reg
<1>2. (r % w) % w = r % w
  BY <1>1, ModSmall
<1>3. r % Full = r
  BY ModSmall, WidthAssumption, SMT DEF Reg
<1>4. (r % u) % w = r % w
  BY <1>2, <1>3
<1> QED BY <1>1, <1>4, SMT DEF Written, Seen

-----------------------------------------------------------------------------
(* Types. *)
LEMMA InputTypes ==
  /\ \A i \in Instrs \cup {NoInstr} : i \in Instr
  /\ \A r \in Starts \cup {Zeroed} : r \in Start
<1>1. NoInstr \in Instr
  BY DEF NoInstr, Instr, Scans, Counts, Ports, Seg
<1>2. Zeroed \in Start
  <2>1. 0 \in Reg
    BY WidthAssumption, SMT DEF Reg
  <2> QED BY <2>1, InputAssumption, SMT DEF Zeroed, Start, Acc
<1> QED BY <1>1, <1>2, InputAssumption

LEMMA Facts ==
  ASSUME TypeOK
  PROVE  /\ ins \in Instr /\ start \in Start
         /\ Width \in Widths /\ Stepped \in Widths
         /\ Stepped = Width \/ (ins.op = "outs" /\ ~Rep /\ Width = Full)
         /\ ins.size \in {1, 2, 4} /\ Unit \in {1, 2, 4} /\ Inc \in Int
         /\ Bytes \subseteq 0 .. 3 /\ Bytes \subseteq Int
<1>1. ins \in Instr /\ start \in Start
  BY InputTypes DEF TypeOK
<1>2. Width \in Widths /\ Stepped \in Widths
  BY DEF Width, Stepped, WidthOf, Widths
<1>3. Stepped = Width \/ (ins.op = "outs" /\ ~Rep /\ Width = Full)
  BY DEF Width, Stepped, WidthOf
<1>4. ins.size \in {1, 2, 4} /\ Unit \in {1, 2, 4}
  BY <1>1 DEF Instr, Unit
<1>5. Inc \in Int
  BY <1>4, SMT DEF Inc
<1>6. Bytes \subseteq 0 .. 3 /\ Bytes \subseteq Int
  BY <1>4, SMT DEF Bytes
<1> QED BY <1>1, <1>2, <1>3, <1>4, <1>5, <1>6

LEMMA LinearType ==
  ASSUME NEW seg \in Seg, NEW ofs \in Int
  PROVE  Linear(seg, ofs) \in Reg
<1>1. Full \in Nat \ {0} /\ Base[seg] + ofs \in Int
  BY WidthAssumption, SegAssumption, SMT DEF Reg
<1> QED BY <1>1, DivMod DEF Linear, Reg

LEMMA LoadType ==
  ASSUME TypeOK, NEW seg \in Seg, NEW ofs \in Int
  PROVE  \A k \in Bytes : Load(seg, ofs)[k] \in Value
<1>1. \A k \in Bytes : ofs + k \in Int
  BY Facts, SMT
<1> QED BY <1>1, LinearType DEF Load, TypeOK

LEMMA StoreType ==
  ASSUME TypeOK, NEW seg, NEW ofs, NEW v, \A k \in Bytes : v[k] \in Value
  PROVE  Store(seg, ofs, v) \in [Reg -> Value]
BY DEF Store, TypeOK

LEMMA AdvanceType ==
  ASSUME TypeOK, NEW r \in Reg
  PROVE  /\ Advance(r) \in Reg /\ Index(r) \in Reg /\ Index(r) \in Int
         /\ Written(r, Index(r) + Inc, WidthOf(ins.a32 /\ Rep)) \in Reg
<1>1. Width \in Widths /\ Inc \in Int /\ WidthOf(ins.a32 /\ Rep) \in Widths
  BY Facts DEF WidthOf, Widths
<1>2. Index(r) \in Reg /\ Index(r) \in Int /\ Index(r) + Inc \in Int
  BY <1>1, WrittenType, SMT DEF Index, Reg
<1> QED BY <1>1, <1>2, WrittenType DEF Advance

LEMMA CheckedType ==
  ASSUME NEW seg \in Seg, NEW ofs, NEW pending \in Seg \cup {"none"}
  PROVE  Checked(pending, seg, ofs) \in Seg \cup {"none"}
BY DEF Checked

LEMMA InitType == Init => TypeOK
<1>1. 0 \in Reg
  BY WidthAssumption, SMT DEF Reg
<1> QED BY <1>1, InputAssumption DEF Init, TypeOK, Zeroed, Acc

LEMMA BeginType ==
  ASSUME TypeOK, NEW i \in Instrs, NEW r \in Starts, Begin(i, r)
  PROVE  TypeOK'
<1>1. r \in Start /\ i \in Instr
  BY InputTypes
<1>2. /\ r.si \in Reg /\ r.di \in Reg /\ r.cx \in Reg /\ r.df \in BOOLEAN /\ r.zf \in BOOLEAN
      /\ r.acc \in Acc /\ r.mem \in [Reg -> Value]
  BY <1>1 DEF Start
<1>3. WidthOf(i.a32) \in Widths /\ 0 \in Int /\ 1 \in Reg
  BY WidthAssumption, SMT DEF WidthOf, Widths, Reg
<1>4. Seen(r.cx, WidthOf(i.a32)) \in Reg /\ Written(r.cx, 0, WidthOf(i.a32)) \in Reg
  BY <1>2, <1>3, WrittenType
<1> QED BY <1>2, <1>3, <1>4 DEF Begin, TypeOK

-----------------------------------------------------------------------------
(* The loop's invariant: the registers are where Rounds elements took them. *)
Rounds == IF Rep /\ ins.op \in Scans THEN Asked - Index(cx) ELSE Asked - left

Moved(r, uses) == IF uses THEN Written(r, Index(r) + Rounds * Inc, Stepped) ELSE r

Tracked ==
  /\ Rounds \in 0 .. Asked
  /\ si = Moved(start.si, UsesSi)
  /\ di = Moved(start.di, UsesDi)
  /\ cx = IF Rep THEN Written(start.cx, Index(cx), Width) ELSE start.cx
  /\ Rep /\ ins.op \in Counts => Index(cx) = 0
  /\ ins.op \in Scans => left \in {0, 1}

IInv ==
  /\ TypeOK
  /\ phase # "idle" => Tracked
  /\ Done => ~More

(* What an element leaves alone. *)
LEMMA Fixed ==
  ASSUME UNCHANGED <<ins, df, start>>
  PROVE  /\ Rep' = Rep /\ Width' = Width /\ Stepped' = Stepped /\ Inc' = Inc
         /\ Asked' = Asked /\ UsesSi' = UsesSi /\ UsesDi' = UsesDi /\ Bytes' = Bytes
         /\ \A r : Index(r)' = Index(r') /\ Index(r') = Seen(r', Width)
BY DEF Rep, Width, WidthOf, Stepped, Inc, Unit, Asked, Index, UsesSi, UsesDi, Bytes

LEMMA AskedType ==
  ASSUME TypeOK
  PROVE  Asked \in Nat /\ Asked \in Reg
<1>1. start.cx \in Reg
  BY Facts DEF Start
<1>2. Seen(start.cx, Width) \in Reg
  BY <1>1, Facts, WrittenType, WidthsPositive
<1>3. 1 \in Reg
  BY WidthAssumption, SMT DEF Reg
<1> QED BY <1>2, <1>3, WidthAssumption, SMT DEF Asked, Index, Reg

LEMMA BeginTracked ==
  ASSUME TypeOK, TypeOK', NEW i \in Instrs, NEW r \in Starts, Begin(i, r)
  PROVE  Tracked'
<1>1. start' \in Start /\ ins' \in Instr
  BY InputTypes DEF TypeOK
<1>2. ins' = i /\ start' = r /\ si' = r.si /\ di' = r.di
  BY DEF Begin
<1>3. Asked' \in Nat
  <2>1. r.cx \in Reg /\ WidthOf(i.a32) \in Widths
    BY <1>1, <1>2 DEF Start, WidthOf, Widths
  <2>2. Seen(r.cx, WidthOf(i.a32)) \in Reg
    BY <2>1, WrittenType, WidthsPositive
  <2> QED BY <2>2, <1>2, WidthAssumption, SMT DEF Asked, Index, Width, Reg
<1>4. Rounds' = 0
  <2> \A n \in Nat : n - n = 0
    BY SMT
  <2>1. CASE i.rep # {} /\ i.op \in Scans
    <3>1. cx' = r.cx
      BY <2>1 DEF Begin, Scans, Counts, Ports
    <3>2. Rounds' = Asked' - Asked'
      BY <2>1, <3>1, <1>2 DEF Rounds, Asked, Index, Rep
    <3> QED BY <3>2, <1>3
  <2>2. CASE i.rep # {} /\ i.op \notin Scans
    <3>1. i.op \in Counts
      BY <2>2, <1>1, <1>2 DEF Instr
    <3>2. Rounds' = Asked' - Asked'
      BY <2>2, <3>1, <1>2 DEF Begin, Rounds, Asked, Index, Rep, Width
    <3> QED BY <3>2, <1>3
  <2>3. CASE i.rep = {}
    BY <2>3, <1>2 DEF Begin, Rounds, Asked, Rep
  <2> QED BY <2>1, <2>2, <2>3
<1>5. \A q \in Reg : Moved(q, UsesSi)' = q /\ Moved(q, UsesDi)' = q
  <2> SUFFICES ASSUME NEW q \in Reg
               PROVE  Written(q, Seen(q, Width') + 0 * Inc', Stepped') = q
    BY <1>4 DEF Moved, Index
  <2>1. /\ Inc' \in Int /\ Width' \in Widths /\ Stepped' \in Widths
        /\ Stepped' = Width' \/ Width' = Full
    <3>1. Width' \in Widths /\ Stepped' \in Widths /\ (Stepped' = Width' \/ Width' = Full)
      BY DEF Width, Stepped, WidthOf, Widths
    <3>2. Unit' \in {1, 2, 4}
      BY <1>1 DEF Unit, Instr
    <3> QED BY <3>1, <3>2, SMT DEF Inc
  <2>2. Seen(q, Width') + 0 * Inc' = Seen(q, Width')
    <3>1. Seen(q, Width') \in Int
      BY <2>1, WrittenType, SMT DEF Reg
    <3> QED BY <3>1, <2>1, SMT
  <2> QED BY <2>1, <2>2, WrittenBack
<1>6. start.si \in Reg /\ r.si \in Reg /\ r.di \in Reg /\ r.cx \in Reg
  BY <1>1, <1>2, Facts DEF Start
<1>7. si' = Moved(start.si, UsesSi)' /\ di' = Moved(start.di, UsesDi)'
  BY <1>2, <1>5, <1>6 DEF Moved
<1>8. /\ cx' = IF Rep' THEN Written(start'.cx, Index(cx)', Width') ELSE start'.cx
      /\ Rep' /\ ins'.op \in Counts => Index(cx)' = 0
  <2>1. CASE i.rep = {}
    BY <2>1, <1>2 DEF Begin, Rep
  <2>2. CASE i.rep # {} /\ i.op \in Scans
    <3>1. cx' = r.cx /\ Width' \in Widths /\ i.op \notin Counts
      BY <2>2 DEF Begin, Scans, Counts, Ports, Width, WidthOf, Widths
    <3>2. Written(r.cx, Seen(r.cx, Width'), Width') = r.cx
      BY <3>1, <1>6, WrittenBack
    <3> QED BY <3>1, <3>2, <1>2 DEF Index
  <2>3. CASE i.rep # {} /\ i.op \notin Scans
    <3>1. i.op \in Counts /\ Width' \in Widths /\ Width' = WidthOf(i.a32)
      BY <2>3, <1>1, <1>2 DEF Instr, Width, WidthOf, Widths
    <3>2. cx' = Written(r.cx, 0, Width')
      BY <3>1, <2>3 DEF Begin
    <3>3. Seen(cx', Width') = 0
      <4>1. Width' \in Nat \ {0} /\ 0 \in 0 .. (Width' - 1) /\ 0 \in Int
        BY <3>1, WidthsPositive, SMT
      <4>2. 0 % Width' = 0
        BY <4>1, ModSmall
      <4>3. Seen(Written(r.cx, 0, Width'), Width') = 0 % Width'
        BY <4>1, <3>1, <1>6, WrittenType
      <4> QED BY <4>2, <4>3, <3>2
    <3>4. Index(cx)' = 0 /\ Rep'
      BY <3>3, <2>3, <1>2 DEF Index, Rep
    <3> QED BY <3>2, <3>4, <1>2
  <2> QED BY <2>1, <2>2, <2>3
<1>9. ins'.op \in Scans => left' \in {0, 1}
  BY <1>2 DEF Begin, Scans, Counts, Ports
<1> QED BY <1>3, <1>4, <1>7, <1>8, <1>9, SMT DEF Tracked

(* Nothing is done yet when an instruction begins. *)
LEMMA BeginRounds ==
  ASSUME IInv', NEW i \in Instrs, NEW r \in Starts, Begin(i, r)
  PROVE  Rounds' = 0
<1>1. TypeOK' /\ Asked' \in Nat
  <2>1. TypeOK' /\ start' \in Start /\ Width' \in Widths
    BY InputTypes DEF IInv, TypeOK, Width, WidthOf, Widths
  <2>2. Seen(start'.cx, Width') \in Reg
    BY <2>1, WrittenType, WidthsPositive DEF Start
  <2>3. 1 \in Reg
    BY WidthAssumption, SMT DEF Reg
  <2> QED BY <2>1, <2>2, <2>3, WidthAssumption, SMT DEF Asked, Index, Reg
<1>2. i \in Instr /\ ins' = i /\ start' = r
  BY InputTypes DEF Begin
<1>3. \A n \in Nat : n - n = 0
  BY SMT
<1>4. CASE i.rep # {} /\ i.op \in Scans
  <2>1. cx' = r.cx
    BY <1>4 DEF Begin, Scans, Counts, Ports
  <2>2. Rounds' = Asked' - Asked'
    BY <1>4, <2>1, <1>2 DEF Rounds, Asked, Index, Rep
  <2> QED BY <2>2, <1>1, <1>3
<1>5. CASE i.rep # {} /\ i.op \notin Scans
  <2>1. i.op \in Counts
    BY <1>5, <1>2 DEF Instr
  <2>2. Rounds' = Asked' - Asked'
    BY <1>5, <2>1, <1>2 DEF Begin, Rounds, Asked, Index, Rep, Width
  <2> QED BY <2>2, <1>1, <1>3
<1>6. CASE i.rep = {}
  BY <1>6, <1>2, <1>3 DEF Begin, Rounds, Asked, Rep
<1> QED BY <1>4, <1>5, <1>6

(* When the loop is over it has done what Handled says. *)
LEMMA DoneRounds ==
  ASSUME IInv, Done
  PROVE  Handled = Rounds
<1>1. Asked \in Nat /\ ~More
  BY AskedType DEF IInv
<1>2. CASE Rep /\ ins.op \in Scans
  BY <1>2 DEF Rounds, Handled
<1>3. CASE ~(Rep /\ ins.op \in Scans)
  <2>1. left = 0
    BY <1>3, <1>1 DEF More
  <2>2. Asked - 0 = Asked
    BY <1>1, SMT
  <2> QED BY <1>3, <2>1, <2>2 DEF Rounds, Handled
<1> QED BY <1>2, <1>3

(* One element takes one from the count, or from the count register. *)
CountStep ==
  IF ins.op \in Scans
  THEN IF Rep THEN cx' = Written(cx, Index(cx) - 1, Width) /\ left' \in {0, 1}
       ELSE left' = 0 /\ cx' = cx
  ELSE left' = left - 1 /\ cx' = cx

LEMMA CountDown ==
  ASSUME IInv, phase = "loop", More, UNCHANGED <<ins, df, start>>, CountStep
  PROVE  /\ Rounds \in 0 .. Asked /\ Rounds' = Rounds + 1 /\ Rounds' \in 0 .. Asked'
         /\ cx' \in Reg /\ left' \in Reg
         /\ cx' = IF Rep' THEN Written(start'.cx, Index(cx)', Width') ELSE start'.cx
         /\ Rep' /\ ins'.op \in Counts => Index(cx)' = 0
         /\ ins'.op \in Scans => left' \in {0, 1}
<1>1. TypeOK /\ Tracked /\ ins \in Instr /\ start.cx \in Reg /\ cx \in Reg /\ left \in Reg
  BY Facts DEF IInv, TypeOK, Start
<1>2. Asked \in Nat /\ Width \in Widths /\ Rounds \in 0 .. Asked
  BY <1>1, AskedType, Facts DEF Tracked
<1>3. ins' = ins /\ Rep' = Rep /\ Width' = Width /\ Asked' = Asked /\ start'.cx = start.cx
      /\ Index(cx)' = Seen(cx', Width)
  BY Fixed
<1>4. \A x \in Reg : x \in Nat /\ (x # 0 => x - 1 \in Reg)
  BY WidthAssumption, SMT DEF Reg
<1>5. 0 \in Reg /\ 1 \in Reg
  BY WidthAssumption, SMT DEF Reg
<1>6. CASE Rep /\ ins.op \in Scans
  <2> DEFINE x == Index(cx)
  <2>1. x # 0 /\ x \in 0 .. (Width - 1) /\ Width \in Nat \ {0} /\ ins.op \notin Counts
    BY <1>1, <1>2, <1>6, WrittenType, WidthsPositive DEF More, Index, Scans, Counts, Ports
  <2>2. cx' = Written(cx, x - 1, Width) /\ left' \in {0, 1}
    BY <1>6 DEF CountStep
  <2>3. x - 1 \in 0 .. (Width - 1) /\ x - 1 \in Int /\ x \in Int
    BY <2>1, SMT
  <2>4. (x - 1) % Width = x - 1
    BY <2>1, <2>3, ModSmall
  <2>5. cx' \in Reg /\ Seen(cx', Width) = x - 1
    BY <2>2, <2>3, <2>4, <1>1, <1>2, WrittenType
  <2>6. Written(start.cx, x - 1, Width) = cx'
    <3>1. cx = Written(start.cx, x, Width)
      BY <1>1, <1>6 DEF Tracked
    <3>2. x = Seen(cx, Width) /\ x + (-1) = x - 1
      BY <2>3, SMT DEF Index
    <3> QED BY <3>1, <3>2, <2>2, <2>3, <1>1, <1>2, WrittenAgain
  <2>7. Rounds = Asked - x /\ Rounds' = Asked - (x - 1)
    BY <1>3, <1>6, <2>5 DEF Rounds
  <2> HIDE DEF x
  <2>8. Rounds' = Rounds + 1 /\ Rounds' \in 0 .. Asked
    BY <2>1, <2>3, <2>7, <1>2, SMT
  <2> QED BY <1>2, <1>3, <1>5, <1>6, <2>1, <2>2, <2>5, <2>6, <2>8
<1>7. CASE ~(Rep /\ ins.op \in Scans)
  <2>1. left # 0 /\ left' = left - 1 /\ cx' = cx
    BY <1>7, <1>1 DEF More, CountStep, Tracked
  <2>2. left' \in Reg /\ (ins.op \in Scans => left' \in {0, 1})
    BY <2>1, <1>1, <1>4, SMT DEF Tracked
  <2>3. Rounds = Asked - left /\ Rounds' = Asked - left'
    BY <1>3, <1>7 DEF Rounds
  <2>4. Rounds' = Rounds + 1 /\ Rounds' \in 0 .. Asked
    BY <2>1, <2>3, <1>1, <1>2, <1>4, SMT
  <2>5. Index(cx)' = Index(cx)
    BY <2>1, <1>3 DEF Index
  <2> QED BY <1>1, <1>2, <1>3, <2>1, <2>2, <2>4, <2>5 DEF Tracked
<1> QED BY <1>6, <1>7

(* One element steps the index registers it uses. *)
IndexStep(r, uses) == IF uses THEN Written(r, Index(r) + Inc, Stepped) ELSE r

LEMMA IndexMoves ==
  ASSUME TypeOK, Rounds \in 0 .. Asked, Rounds + 1 \in 0 .. Asked,
         NEW r0 \in Reg, NEW r, r = Written(r0, Index(r0) + Rounds * Inc, Stepped)
  PROVE  Written(r, Index(r) + Inc, Stepped)
           = Written(r0, Index(r0) + (Rounds + 1) * Inc, Stepped)
<1>1. /\ Width \in Widths /\ Stepped \in Widths /\ Inc \in Int
      /\ Stepped = Width \/ (ins.op = "outs" /\ ~Rep /\ Width = Full)
  BY Facts
<1>2. Rounds \in Int /\ Index(r0) \in Int
  BY <1>1, AskedType, AdvanceType, SMT
<1>3. CASE Stepped = Width
  <2> DEFINE v == Index(r0) + Rounds * Inc
  <2>1. v \in Int /\ v + Inc = Index(r0) + (Rounds + 1) * Inc
    BY <1>1, <1>2, SMT
  <2>2. Index(r) = Seen(r, Stepped) /\ r = Written(r0, v, Stepped)
    BY <1>3 DEF Index
  <2> HIDE DEF v
  <2> QED BY <2>1, <2>2, <1>1, WrittenAgain
<1>4. CASE ins.op = "outs" /\ ~Rep /\ Width = Full
  <2>1. Asked = 1
    BY <1>4 DEF Asked
  <2>2. Rounds = 0
    BY <2>1, <1>2, SMT
  <2>3. Index(r0) + Rounds * Inc = Seen(r0, Width)
    BY <2>2, <1>1, <1>2, SMT DEF Index
  <2>4. r = r0
    BY <2>3, <1>1, <1>4, WrittenBack
  <2>5. (Rounds + 1) * Inc = Inc
    BY <2>2, <1>1, SMT
  <2> QED BY <2>4, <2>5
<1> QED BY <1>1, <1>3, <1>4

ElementStep ==
  /\ phase = "loop" /\ More
  /\ CountStep
  /\ si' = IndexStep(si, UsesSi)
  /\ di' = IndexStep(di, UsesDi)
  /\ UNCHANGED <<phase, ins, df, start>>

LEMMA ElementTracked ==
  ASSUME IInv, ElementStep
  PROVE  /\ Tracked' /\ Rounds' = Rounds + 1
         /\ si' \in Reg /\ di' \in Reg /\ cx' \in Reg /\ left' \in Reg
<1>1. TypeOK /\ Tracked /\ start \in Start /\ start.si \in Reg /\ start.di \in Reg
      /\ si \in Reg /\ di \in Reg
  BY Facts DEF IInv, ElementStep, TypeOK, Start
<1>2. phase = "loop" /\ More /\ UNCHANGED <<ins, df, start>> /\ CountStep
  BY DEF ElementStep
<1>3. /\ Rounds \in 0 .. Asked /\ Rounds' = Rounds + 1 /\ Rounds' \in 0 .. Asked'
      /\ cx' \in Reg /\ left' \in Reg
      /\ cx' = IF Rep' THEN Written(start'.cx, Index(cx)', Width') ELSE start'.cx
      /\ Rep' /\ ins'.op \in Counts => Index(cx)' = 0
      /\ ins'.op \in Scans => left' \in {0, 1}
  BY <1>2, CountDown
<1>4. /\ Stepped' = Stepped /\ Inc' = Inc /\ Asked' = Asked /\ UsesSi' = UsesSi
      /\ UsesDi' = UsesDi /\ Width' = Width /\ start' = start
  BY <1>2, Fixed
<1>5. ASSUME NEW r0 \in Reg, NEW r \in Reg, NEW uses,
             r = Moved(r0, uses)
      PROVE  IndexStep(r, uses) =
               IF uses THEN Written(r0, Index(r0) + (Rounds + 1) * Inc, Stepped) ELSE r0
  <2>1. CASE uses
    <3>1. r = Written(r0, Index(r0) + Rounds * Inc, Stepped)
      BY <1>5, <2>1 DEF Moved
    <3>2. Rounds + 1 \in 0 .. Asked
      BY <1>3, <1>4
    <3> QED BY <1>1, <1>3, <2>1, <3>1, <3>2, IndexMoves DEF IndexStep
  <2>2. CASE ~uses
    BY <1>5, <2>2 DEF Moved, IndexStep
  <2> QED BY <2>1, <2>2
<1>6. si' = Moved(start.si, UsesSi)' /\ di' = Moved(start.di, UsesDi)'
  <2>1. /\ si' = IF UsesSi THEN Written(start.si, Index(start.si) + (Rounds + 1) * Inc, Stepped)
                ELSE start.si
        /\ di' = IF UsesDi THEN Written(start.di, Index(start.di) + (Rounds + 1) * Inc, Stepped)
                ELSE start.di
    BY <1>1, <1>5 DEF ElementStep, Tracked
  <2> QED BY <2>1, <1>3, <1>4 DEF Moved, Index
<1>7. \A r \in Reg : Written(r, Index(r) + Inc, Stepped) \in Reg
  <2> SUFFICES ASSUME NEW r \in Reg PROVE Written(r, Index(r) + Inc, Stepped) \in Reg
    OBVIOUS
  <2>1. Index(r) + Inc \in Int /\ Stepped \in Widths
    BY <1>1, AdvanceType, Facts, SMT
  <2> QED BY <2>1, WrittenType
<1>8. si' \in Reg /\ di' \in Reg
  BY <1>1, <1>7 DEF ElementStep, IndexStep
<1> QED BY <1>3, <1>6, <1>8 DEF Tracked

(* Every instruction's round is such a step, with its own effect on        *)
(* memory, accumulator, ZF and the pending fault.                          *)
LEMMA RoundIsStep ==
  ASSUME IInv, Movs \/ Stos \/ Lods \/ (\E v \in Port : Ins(v)) \/ Outs \/ Cmps \/ Scas
  PROVE  /\ ElementStep
         /\ zf' \in BOOLEAN /\ acc' \in Acc /\ mem' \in [Reg -> Value]
         /\ fault' \in Seg \cup {"none"}
<1> USE DEF Element
<1>1. TypeOK /\ "es" \in Seg /\ ins.seg \in Seg /\ si \in Reg /\ di \in Reg
  BY Facts DEF IInv, TypeOK, Instr, Seg
<1>2. /\ zf \in BOOLEAN /\ acc \in Acc /\ mem \in [Reg -> Value]
      /\ fault \in Seg \cup {"none"} /\ Index(si) \in Int /\ Index(di) \in Int
  BY <1>1, AdvanceType DEF TypeOK
<1>3. Bytes \subseteq 0 .. 3
  BY <1>1, Facts
<1>4. CASE Movs
  <2>1. ElementStep
    BY <1>4 DEF Movs, ElementStep, CountStep, IndexStep, UsesSi, UsesDi, Advance, Stepped, Scans
  <2>2. mem' \in [Reg -> Value]
    BY <1>4, <1>1, <1>2, LoadType, StoreType DEF Movs
  <2> QED BY <2>1, <2>2, <1>1, <1>2, <1>4, CheckedType DEF Movs
<1>5. CASE Stos
  <2>1. ElementStep
    BY <1>5 DEF Stos, ElementStep, CountStep, IndexStep, UsesSi, UsesDi, Advance, Stepped, Scans
  <2>2. \A k \in Bytes : Low(acc)[k] \in Value
    BY <1>2, <1>3 DEF Low, Acc
  <2>3. mem' \in [Reg -> Value]
    BY <2>2, <1>5, <1>1, <1>2, StoreType DEF Stos
  <2> QED BY <2>1, <2>3, <1>1, <1>2, <1>5, CheckedType DEF Stos
<1>6. CASE Lods
  <2>1. ElementStep
    BY <1>6 DEF Lods, ElementStep, CountStep, IndexStep, UsesSi, UsesDi, Advance, Stepped, Scans
  <2>2. acc' \in Acc
    BY <1>6, <1>1, <1>2, LoadType DEF Lods, Acc
  <2> QED BY <2>1, <2>2, <1>1, <1>2, <1>6, CheckedType DEF Lods
<1>7. CASE \E v \in Port : Ins(v)
  <2> PICK v \in Port : Ins(v)
    BY <1>7
  <2>1. ElementStep
    BY DEF Ins, ElementStep, CountStep, IndexStep, UsesSi, UsesDi, Advance, Stepped, Scans
  <2>2. \A k \in Bytes : v[k] \in Value
    BY <1>3, InputAssumption DEF Acc
  <2>3. mem' \in [Reg -> Value]
    BY <2>2, <1>1, <1>2, StoreType DEF Ins
  <2> QED BY <2>1, <2>3, <1>1, <1>2, CheckedType DEF Ins
<1>8. CASE Outs
  <2>1. ElementStep
    BY <1>8 DEF Outs, ElementStep, CountStep, IndexStep, UsesSi, UsesDi, Advance, Stepped, Scans
  <2> QED BY <2>1, <1>1, <1>2, <1>8, CheckedType DEF Outs
<1>9. CASE Cmps
  <2>1. ElementStep
    BY <1>9 DEF Cmps, Compared, ElementStep, CountStep, IndexStep, UsesSi, UsesDi, Advance,
                Stepped, Scans
  <2> QED BY <2>1, <1>1, <1>2, <1>9, CheckedType DEF Cmps, Compared
<1>10. CASE Scas
  <2>1. ElementStep
    BY <1>10 DEF Scas, Compared, ElementStep, CountStep, IndexStep, UsesSi, UsesDi, Advance,
                 Stepped, Scans
  <2> QED BY <2>1, <1>1, <1>2, <1>10, CheckedType DEF Scas, Compared
<1> QED BY <1>4, <1>5, <1>6, <1>7, <1>8, <1>9, <1>10

LEMMA LeaveType == TypeOK /\ Leave => TypeOK'
<1>1. 0 \in Reg
  BY WidthAssumption, SMT DEF Reg
<1> QED BY <1>1, InputAssumption DEF Leave, TypeOK, Zeroed, Acc

LEMMA InitInv == Init => IInv
BY InitType DEF Init, IInv, Done

LEMMA StepInv == IInv /\ [Next]_vars => IInv'
<1> SUFFICES ASSUME IInv, [Next]_vars PROVE IInv'
  OBVIOUS
<1>1. CASE \E i \in Instrs, r \in Starts : Begin(i, r)
  <2> PICK i \in Instrs, r \in Starts : Begin(i, r)
    BY <1>1
  <2>1. TypeOK /\ TypeOK'
    BY BeginType DEF IInv
  <2>2. Tracked'
    BY <2>1, BeginTracked
  <2> QED BY <2>1, <2>2 DEF IInv, Done, Begin
<1>2. CASE Movs \/ Stos \/ Lods \/ (\E v \in Port : Ins(v)) \/ Outs \/ Cmps \/ Scas
  <2>1. /\ ElementStep
        /\ zf' \in BOOLEAN /\ acc' \in Acc /\ mem' \in [Reg -> Value]
        /\ fault' \in Seg \cup {"none"}
    BY <1>2, RoundIsStep
  <2>2. Tracked' /\ si' \in Reg /\ di' \in Reg /\ cx' \in Reg /\ left' \in Reg
    BY <2>1, ElementTracked
  <2>3. phase' = "loop" /\ UNCHANGED <<ins, df, start>>
    BY <2>1 DEF ElementStep
  <2> QED BY <2>1, <2>2, <2>3 DEF IInv, TypeOK, Done
<1>3. CASE Finish
  <2>1. Tracked' /\ ~More' /\ TypeOK'
    BY <1>3 DEF Finish, IInv, TypeOK, Tracked, Rounds, Asked, Moved, Index, Rep, Width, Inc,
                Unit, Stepped, UsesSi, UsesDi, WidthOf, More
  <2> QED BY <2>1, <1>3 DEF IInv, Finish
<1>4. CASE Leave
  BY <1>4, LeaveType DEF IInv, Leave, Done
<1>5. CASE UNCHANGED vars
  BY <1>5 DEF vars, IInv, TypeOK, Done, Tracked, Rounds, Asked, Moved, Index, Rep, Width, Inc,
              Unit, Stepped, UsesSi, UsesDi, WidthOf, More
<1> QED BY <1>1, <1>2, <1>3, <1>4, <1>5 DEF Next, Loop

(* Every variable keeps to its range, for all widths, segments and inputs: *)
(* the memory stays a ring of bytes and the registers stay 32 bits wide.   *)
THEOREM StrTypeCorrect == Spec => []TypeOK
<1>1. IInv => TypeOK
  BY DEF IInv
<1> QED BY InitInv, StepInv, <1>1, PTL DEF Spec

(* The index and count registers are what the closed form says, for all    *)
(* counts and both directions, wrapping included.                          *)
THEOREM RegistersAreExact == Spec => []RegistersTell
<1>1. IInv => RegistersTell
  <2> SUFFICES ASSUME IInv, Done PROVE RegistersTell
    BY DEF RegistersTell
  <2>1. Tracked /\ ~More /\ TypeOK
    BY DEF IInv, Done
  <2>2. Rounds = Handled
    BY DoneRounds
  <2> QED BY <2>1, <2>2 DEF RegistersTell, Tracked, Moved
<1> QED BY InitInv, StepInv, <1>1, PTL DEF Spec

-----------------------------------------------------------------------------
(* What is stored, and where. *)
LEMMA LinearPlus ==
  ASSUME NEW seg \in Seg, NEW ofs \in Int, NEW k \in Int
  PROVE  (Linear(seg, ofs) + k) % Full = Linear(seg, ofs + k)
<1>1. Full \in Nat \ {0} /\ Base[seg] + ofs \in Int /\ Base[seg] \in Int
  BY WidthAssumption, SegAssumption, SMT DEF Reg
<1>2. (((Base[seg] + ofs) % Full) + k) % Full = (Base[seg] + ofs + k) % Full
  BY <1>1, ModAdd
<1>3. Base[seg] + ofs + k = Base[seg] + (ofs + k)
  BY <1>1, SMT
<1> QED BY <1>2, <1>3 DEF Linear

LEMMA StoredCells ==
  ASSUME TypeOK, NEW seg \in Seg, NEW ofs \in Int, NEW v, NEW a \in Reg,
         \A k \in Bytes : a # Linear(seg, ofs + k)
  PROVE  Store(seg, ofs, v)[a] = mem[a]
<1> DEFINE l == Linear(seg, ofs)
           k == (a - l) % Full
<1>1. Full \in Nat \ {0} /\ l \in Int /\ a \in Int /\ a \in 0 .. (Full - 1)
  BY WidthAssumption, LinearType, SMT DEF Reg
<1>2. k \in Int
  BY <1>1, DivMod, SMT
<1>3. (k + l) % Full = a
  <2> HIDE DEF l
  <2>1. a - l \in Int
    BY <1>1, SMT
  <2>2. (((a - l) % Full) + l) % Full = (a - l + l) % Full
    BY <1>1, <2>1, ModAdd
  <2>3. a - l + l = a
    BY <1>1, SMT
  <2>4. a % Full = a
    BY <1>1, ModSmall
  <2> QED BY <2>2, <2>3, <2>4
<1>4. k + l = l + k
  BY <1>1, <1>2, SMT
<1>5. a = Linear(seg, ofs + k)
  BY <1>2, <1>3, <1>4, LinearPlus
<1>6. k \notin Bytes
  BY <1>5
<1> QED BY <1>6 DEF Store

(* The element at hand is the next one of the closed form. *)
LEMMA AtNth ==
  ASSUME IInv, phase # "idle", ins.op # "outs"
  PROVE  /\ UsesSi => Index(si) = Nth(start.si, Rounds)
         /\ UsesDi => Index(di) = Nth(start.di, Rounds)
<1>1. TypeOK /\ Tracked /\ start.si \in Reg /\ start.di \in Reg
  BY Facts DEF IInv, Start
<1>2. Width \in Widths /\ Stepped = Width /\ Inc \in Int
  BY <1>1, Facts
<1>3. ASSUME NEW r0 \in Reg
      PROVE  Seen(Written(r0, Index(r0) + Rounds * Inc, Width), Width) = Nth(r0, Rounds)
  <2>1. Index(r0) + Rounds * Inc \in Int
    <3>1. Index(r0) \in Int /\ Rounds \in Int
      BY <1>1, AdvanceType, AskedType, SMT DEF Tracked
    <3> QED BY <3>1, <1>2, SMT
  <2> QED BY <2>1, <1>2, WrittenType DEF Nth
<1> QED BY <1>1, <1>2, <1>3 DEF Tracked, Moved, Index

Stores == {"movs", "stos", "ins"}

LEMMA DestinationGrows ==
  ASSUME IInv, ElementStep, ins.op \in Stores
  PROVE  /\ Destination \subseteq Destination'
         /\ \A k \in Bytes : Linear("es", Index(di) + k) \in Destination'
<1>1. /\ Tracked /\ TypeOK /\ phase # "idle"
      /\ UNCHANGED <<ins, df, start>> /\ Rounds \in 0 .. Asked
  BY DEF IInv, ElementStep, Tracked
<1>2. /\ Asked' = Asked /\ Bytes' = Bytes /\ Rounds' = Rounds + 1 /\ Rounds' \in 0 .. Asked'
      /\ \A j : Nth(start.di, j)' = Nth(start.di, j')
  BY <1>1, Fixed, ElementTracked DEF Tracked, Nth
<1>3. ins.op \notin Scans /\ UsesDi /\ ins.op # "outs"
  BY DEF Stores, Scans, UsesDi
<1>4. Rounds = Asked - left /\ Rounds' = Asked - left'
  BY <1>1, <1>2, <1>3 DEF Rounds
<1>5. Asked \in Nat /\ left \in Int /\ left' \in Int
  BY <1>1, AskedType, ElementTracked, SMT DEF TypeOK, Reg
<1>6. /\ 0 .. (Asked - left - 1) \subseteq 0 .. (Asked' - left' - 1)
      /\ Rounds \in 0 .. (Asked' - left' - 1)
  <2>1. \A n \in Nat, r, s \in Int :
          n - s = n - r + 1 /\ n - r >= 0 =>
            /\ 0 .. (n - r - 1) \subseteq 0 .. (n - s - 1)
            /\ n - r \in 0 .. (n - s - 1)
    BY SMT
  <2>2. Asked - left' = Asked - left + 1
    BY <1>2, <1>4
  <2>3. Asked - left >= 0
    BY <1>1, <1>4, <1>5, SMT
  <2>4. /\ 0 .. (Asked - left - 1) \subseteq 0 .. (Asked - left' - 1)
        /\ Asked - left \in 0 .. (Asked - left' - 1)
    BY <1>5, <2>1, <2>2, <2>3
  <2> QED BY <2>4, <1>2, <1>4
<1>7. Destination = {Linear("es", Nth(start.di, j) + k) : j \in 0 .. (Asked - left - 1), k \in Bytes}
  BY DEF Destination, Stores
<1>8. Destination' =
        {Linear("es", Nth(start.di, j) + k) : j \in 0 .. (Asked' - left' - 1), k \in Bytes}
  BY <1>1, <1>2 DEF Destination, Stores, Linear, Nth, Index, Width, WidthOf, Inc, Unit
<1>9. Index(di) = Nth(start.di, Rounds)
  BY <1>1, <1>3, AtNth
<1> QED BY <1>6, <1>7, <1>8, <1>9

(* Nothing but the destination changes, for all widths, segments, counts,  *)
(* element sizes and directions, however the indices wrap.                 *)
THEOREM OnlyDestinationChanges == Spec => []OnlyDestinationWritten
<1> DEFINE I == IInv /\ OnlyDestinationWritten
<1>1. Init => I
  BY InitInv DEF Init, OnlyDestinationWritten
<1>2. I /\ [Next]_vars => I'
  <2> SUFFICES ASSUME I, [Next]_vars PROVE OnlyDestinationWritten'
    BY StepInv
  <2>1. CASE \E i \in Instrs, r \in Starts : Begin(i, r)
    BY <2>1 DEF Begin, OnlyDestinationWritten
  <2>2. CASE Movs \/ Stos \/ (\E v \in Port : Ins(v))
    <3>1. ElementStep /\ ins.op \in Stores
      BY <2>2, RoundIsStep DEF Movs, Stos, Ins, Element, Stores
    <3>2. TypeOK /\ di \in Reg /\ "es" \in Seg /\ phase # "idle" /\ start' = start
          /\ Reg' = Reg
      BY <3>1 DEF IInv, TypeOK, ElementStep, Seg, Reg
    <3>3. Index(di) \in Int
      BY <3>2, AdvanceType
    <3>4. \E v : mem' = Store("es", Index(di), v)
      BY <2>2 DEF Movs, Stos, Ins
    <3>5. ASSUME NEW a \in Reg \ Destination' PROVE mem'[a] = start.mem[a]
      <4>1. a \in Reg \ Destination /\ \A k \in Bytes : a # Linear("es", Index(di) + k)
        BY <3>1, <3>5, DestinationGrows
      <4>2. mem'[a] = mem[a]
        BY <4>1, <3>2, <3>3, <3>4, StoredCells
      <4> QED BY <4>1, <4>2, <3>2 DEF OnlyDestinationWritten
    <3> QED BY <3>2, <3>5 DEF OnlyDestinationWritten
  <2>3. CASE Lods \/ Outs \/ Cmps \/ Scas
    <3>1. phase # "idle" /\ UNCHANGED <<ins, mem, start>> /\ Destination' = Destination
      BY <2>3 DEF Lods, Outs, Cmps, Scas, Element, Destination
    <3> QED BY <3>1 DEF OnlyDestinationWritten, Reg
  <2>4. CASE Finish \/ UNCHANGED vars
    BY <2>4 DEF Finish, vars, OnlyDestinationWritten, Destination, Asked, Rep, Index, Width, WidthOf,
                Linear, Nth, Bytes, Inc, Unit
  <2>5. CASE Leave
    BY <2>5 DEF Leave, OnlyDestinationWritten
  <2> QED BY <2>1, <2>2, <2>3, <2>4, <2>5 DEF Next, Loop
<1> QED BY <1>1, <1>2, PTL DEF Spec

-----------------------------------------------------------------------------
(* Scans.  In the loop: every element so far but the last was one to go on *)
(* behind, and left tells of the last.                                     *)
Scanning == phase # "idle" /\ Rep /\ ins.op \in Scans

ScanInv ==
  Scanning =>
    /\ mem = start.mem
    /\ \A j \in 0 .. (Rounds - 2) : Hit(j) <=> GoesOn
    /\ left = 1 /\ Rounds # 0 => (Hit(Rounds - 1) <=> GoesOn)
    /\ left = 0 => Rounds # 0 /\ (Hit(Rounds - 1) <=> ~GoesOn)
    /\ zf <=> IF Rounds = 0 THEN start.zf ELSE Hit(Rounds - 1)

LEMMA HitFixed ==
  ASSUME UNCHANGED <<ins, df, acc, start>>
  PROVE  \A j : Hit(j)' <=> Hit(j)
BY DEF Hit, Linear, Nth, Index, Width, WidthOf, Inc, Unit, Bytes

(* The comparison of a round is that of element number Rounds. *)
LEMMA HitNow ==
  ASSUME IInv, ScanInv, Rep, Cmps \/ Scas
  PROVE  zf' <=> Hit(Rounds)
<1>1. phase # "idle" /\ ins.op \in Scans /\ ins.op # "outs" /\ mem = start.mem
  BY DEF Cmps, Scas, Element, Scans, ScanInv, Scanning
<1>2. /\ UsesSi => Index(si) = Nth(start.si, Rounds)
      /\ UsesDi => Index(di) = Nth(start.di, Rounds)
  BY <1>1, AtNth
<1>3. CASE Cmps
  <2>1. ins.op = "cmps" /\ UsesSi /\ UsesDi
        /\ zf' = (Load(ins.seg, Index(si)) = Load("es", Index(di)))
    BY <1>3 DEF Cmps, Element, UsesSi, UsesDi, Compared
  <2>2. Load(ins.seg, Index(si)) = Load("es", Index(di)) <=>
          \A k \in Bytes : start.mem[Linear("es", Nth(start.di, Rounds) + k)]
                            = start.mem[Linear(ins.seg, Nth(start.si, Rounds) + k)]
    BY <2>1, <1>1, <1>2 DEF Load
  <2> QED BY <2>1, <2>2 DEF Hit
<1>4. CASE Scas
  <2>1. ins.op = "scas" /\ UsesDi /\ zf' = (Low(acc) = Load("es", Index(di)))
    BY <1>4 DEF Scas, Element, UsesDi, Compared
  <2>2. Low(acc) = Load("es", Index(di)) <=>
          \A k \in Bytes : start.mem[Linear("es", Nth(start.di, Rounds) + k)] = acc[k]
    BY <2>1, <1>1, <1>2 DEF Load, Low
  <2> QED BY <2>1, <2>2 DEF Hit
<1> QED BY <1>3, <1>4

LEMMA ScanStep ==
  ASSUME IInv, ScanInv, Rep, Cmps \/ Scas
  PROVE  ScanInv'
<1>1. /\ phase # "idle" /\ ins.op \in Scans /\ Scanning
      /\ UNCHANGED <<ins, df, acc, mem, start>>
  BY DEF Cmps, Scas, Element, Scans, Scanning
<1>2. ElementStep /\ Tracked /\ TypeOK
  BY <1>1, RoundIsStep DEF IInv
<1>3. Rounds' = Rounds + 1 /\ Rounds \in Nat /\ left = 1
  <2>1. left \in {0, 1} /\ left # 0
    BY <1>1, <1>2 DEF Tracked, ElementStep, More
  <2>2. Rounds \in Nat
    BY <1>2, AskedType, SMT DEF Tracked
  <2> QED BY <2>1, <2>2, <1>2, ElementTracked
<1>4. Rounds' # 0 /\ Rounds' - 1 = Rounds /\ Rounds' - 2 = Rounds - 1
  BY <1>3, SMT
<1>5. zf' <=> Hit(Rounds)
  BY HitNow
<1>6. left' = IF zf' <=> GoesOn THEN 1 ELSE 0
  BY <1>2 DEF Cmps, Scas, Compared, EndsScan, GoesOn, TypeOK
<1>7. ASSUME NEW j \in 0 .. (Rounds - 1) PROVE Hit(j) <=> GoesOn
  <2>1. j \in 0 .. (Rounds - 2) \/ (j = Rounds - 1 /\ Rounds # 0)
    BY <1>3, <1>7, SMT
  <2> QED BY <2>1, <1>1, <1>3 DEF ScanInv
<1>8. (\A j : Hit(j)' <=> Hit(j)) /\ (GoesOn' <=> GoesOn)
  BY <1>1, HitFixed DEF GoesOn
<1>9. /\ mem' = start'.mem
      /\ \A j \in 0 .. (Rounds' - 2) : Hit(j)' <=> GoesOn'
      /\ left' = 1 => (Hit(Rounds) <=> GoesOn')
      /\ left' = 0 => (Hit(Rounds) <=> ~GoesOn')
  BY <1>1, <1>4, <1>5, <1>6, <1>7, <1>8 DEF ScanInv
<1>10. Hit(Rounds - 1)' <=> Hit(Rounds)
  BY <1>1, <1>4 DEF Hit, Linear, Nth, Index, Width, WidthOf, Inc, Unit, Bytes
<1>11. zf' <=> Hit(Rounds - 1)'
  BY <1>5, <1>10
<1>12. /\ left' = 1 => (Hit(Rounds - 1)' <=> GoesOn')
       /\ left' = 0 => (Hit(Rounds - 1)' <=> ~GoesOn')
  BY <1>9, <1>10
<1> QED BY <1>4, <1>9, <1>11, <1>12 DEF ScanInv

(* REPE and REPNE scans stop behind the first element that decides, or at  *)
(* the count, and ZF is the last comparison's, for all counts, widths,     *)
(* segments, directions and memories.                                      *)
THEOREM ScansAreExact == Spec => []ScanTells
<1> DEFINE I == IInv /\ ScanInv
<1>1. Init => I
  BY InitInv DEF Init, ScanInv, Scanning
<1>2. I /\ [Next]_vars => I'
  <2> SUFFICES ASSUME I, [Next]_vars PROVE ScanInv'
    BY StepInv
  <2>1. CASE \E i \in Instrs, r \in Starts : Begin(i, r)
    <3> PICK i \in Instrs, r \in Starts : Begin(i, r)
      BY <2>1
    <3> SUFFICES ASSUME Rep', ins'.op \in Scans PROVE ScanInv'
      BY DEF ScanInv, Scanning
    <3>1. mem' = start'.mem /\ zf' = start'.zf /\ left' = 1
      BY DEF Begin, Scans, Counts, Ports
    <3>2. Rounds' = 0
      BY StepInv, BeginRounds
    <3>3. 0 .. (Rounds' - 2) = {}
      BY <3>2, SMT
    <3> QED BY <3>1, <3>2, <3>3 DEF ScanInv
  <2>2. CASE (Cmps \/ Scas) /\ Rep
    BY <2>2, ScanStep
  <2>3. CASE (Cmps \/ Scas) /\ ~Rep
    BY <2>3 DEF Cmps, Scas, Rep, ScanInv, Scanning
  <2>4. CASE Movs \/ Stos \/ Lods \/ (\E v \in Port : Ins(v)) \/ Outs
    BY <2>4 DEF Movs, Stos, Lods, Ins, Outs, Element, ScanInv, Scanning, Scans
  <2>5. CASE Finish \/ UNCHANGED vars
    <3>1. UNCHANGED <<ins, df, acc, start, mem, left, zf, cx>>
          /\ (phase = "idle" <=> phase' = "idle")
      BY <2>5 DEF Finish, vars
    <3>2. Rounds' = Rounds /\ (Rep' <=> Rep) /\ (GoesOn' <=> GoesOn)
      BY <3>1 DEF Rounds, Asked, Index, Width, WidthOf, Rep, GoesOn
    <3>3. \A j : Hit(j)' <=> Hit(j)
      BY <3>1, HitFixed
    <3>4. Hit(Rounds - 1)' <=> Hit(Rounds - 1)
      BY <3>1, <3>2 DEF Hit, Linear, Nth, Index, Width, WidthOf, Inc, Unit, Bytes
    <3> QED BY <3>1, <3>2, <3>3, <3>4 DEF ScanInv, Scanning
  <2>6. CASE Leave
    BY <2>6 DEF Leave, ScanInv, Scanning
  <2> QED BY <2>1, <2>2, <2>3, <2>4, <2>5, <2>6 DEF Next, Loop
<1>3. I => ScanTells
  <2> SUFFICES ASSUME I, Done, Rep, ins.op \in Scans PROVE ScanTells
    BY DEF ScanTells
  <2>1. Tracked /\ ~More /\ TypeOK /\ Scanning
    BY DEF IInv, Done, Scanning
  <2>2. Handled = Rounds /\ Rounds \in 0 .. Asked /\ Asked \in Nat
    BY <2>1, AskedType DEF Handled, Rounds, Tracked
  <2>3. Index(cx) # 0 => left = 0
    BY <2>1 DEF More
  <2>4. Rounds # 0 => Rounds > 0
    BY <2>2, SMT
  <2> QED BY <2>1, <2>2, <2>3, <2>4 DEF ScanInv, ScanTells
<1> QED BY <1>1, <1>2, <1>3, PTL DEF Spec

-----------------------------------------------------------------------------
(* Faults. *)

(* The limit check sees exactly the bytes beyond the limit. *)
LEMMA CheckSees ==
  ASSUME TypeOK, NEW seg \in Seg, NEW ofs \in Reg
  PROVE  (ofs + ins.size - 1) % Full > Limit[seg] <=> Over(seg, ofs)
<1>1. /\ ins.size \in {1, 2, 4} /\ Full \in Nat /\ Full > 4 /\ ofs \in 0 .. (Full - 1)
      /\ Limit[seg] \in Nat
  BY Facts, WidthAssumption, SegAssumption, SMT DEF Reg
<1>2. Full \in Nat \ {0}
  BY <1>1, SMT
<1>3. CASE ofs + ins.size <= Full
  <2>1. ofs + ins.size - 1 \in 0 .. (Full - 1)
    BY <1>1, <1>3, SMT
  <2>2. (ofs + ins.size - 1) % Full = ofs + ins.size - 1
    BY <2>1, <1>2, ModSmall
  <2>3. Bytes = 0 .. (ins.size - 1)
    BY DEF Bytes
  <2>4. ofs + ins.size - 1 > Limit[seg] <=> \E k \in 0 .. (ins.size - 1) : ofs + k > Limit[seg]
    <3>1. ASSUME NEW k \in 0 .. (ins.size - 1), ofs + k > Limit[seg]
          PROVE  ofs + ins.size - 1 > Limit[seg]
      BY <3>1, <1>1, SMT
    <3>2. ofs + (ins.size - 1) = ofs + ins.size - 1 /\ ins.size - 1 \in 0 .. (ins.size - 1)
      BY <1>1, SMT
    <3> QED BY <3>1, <3>2
  <2> QED BY <1>3, <2>2, <2>3, <2>4 DEF Over
<1>4. CASE ~(ofs + ins.size <= Full)
  <2>1. /\ ofs + ins.size - 1 - Full \in Nat /\ ofs + ins.size - 1 - Full < Full
        /\ Full * 1 + (ofs + ins.size - 1 - Full) = ofs + ins.size - 1
    BY <1>1, <1>4, SMT
  <2>2. (Full * 1 + (ofs + ins.size - 1 - Full)) % Full = ofs + ins.size - 1 - Full
    BY <2>1, <1>2, ModUnique
  <2> QED BY <1>4, <2>1, <2>2 DEF Over
<1> QED BY <1>3, <1>4

(* The element at hand is the next one of the closed form, for OUTS too:   *)
(* without a prefix it has one element, and has not moved yet.             *)
LEMMA AtElement ==
  ASSUME IInv, ElementStep
  PROVE  /\ UsesSi => Index(si) = Nth(start.si, Rounds)
         /\ UsesDi => Index(di) = Nth(start.di, Rounds)
<1>1. TypeOK /\ Tracked /\ start.si \in Reg /\ phase # "idle"
  BY Facts DEF IInv, Start, ElementStep
<1>2. /\ Width \in Widths /\ Stepped \in Widths /\ Inc \in Int
      /\ Stepped = Width \/ (ins.op = "outs" /\ ~Rep /\ Width = Full)
  BY <1>1, Facts
<1>3. CASE ins.op # "outs"
  BY <1>1, <1>3, AtNth
<1>4. CASE ins.op = "outs" /\ Rep
  <2>1. Stepped = Width
    BY <1>2, <1>4
  <2>2. Index(start.si) + Rounds * Inc \in Int
    <3>1. Index(start.si) \in Int /\ Rounds \in Int
      BY <1>1, AdvanceType, AskedType, SMT DEF Tracked
    <3> QED BY <3>1, <1>2, SMT
  <2>3. UsesSi /\ ~UsesDi
    BY <1>4 DEF UsesSi, UsesDi
  <2>4. si = Written(start.si, Index(start.si) + Rounds * Inc, Width)
    BY <1>1, <2>1, <2>3 DEF Tracked, Moved
  <2> QED BY <2>2, <2>3, <2>4, <1>1, <1>2, WrittenType DEF Nth, Index
<1>5. CASE ins.op = "outs" /\ ~Rep
  <2>1. Asked = 1 /\ Rounds + 1 \in 0 .. Asked
    <3>1. Rounds' = Rounds + 1 /\ Rounds' \in 0 .. Asked' /\ Asked' = Asked
      BY ElementTracked, Fixed DEF Tracked, ElementStep
    <3> QED BY <3>1, <1>5 DEF Asked
  <2>2. Rounds = 0
    BY <2>1, <1>1, SMT DEF Tracked
  <2>3. Index(start.si) \in Int /\ Index(start.si) \in 0 .. (Width - 1) /\ Width \in Nat \ {0}
    BY <1>1, <1>2, AdvanceType, WrittenType, WidthsPositive DEF Index
  <2>4. Index(start.si) + 0 * Inc = Index(start.si)
    BY <2>3, <1>2, SMT
  <2>5. UsesSi /\ ~UsesDi
    BY <1>5 DEF UsesSi, UsesDi
  <2>6. si = Written(start.si, Index(start.si), Stepped)
    BY <1>1, <2>2, <2>4, <2>5 DEF Tracked, Moved
  <2>7. si = start.si
    BY <2>6, <1>1, <1>2, WrittenBack DEF Index
  <2>8. Index(start.si) % Width = Index(start.si)
    BY <2>3, ModSmall
  <2> QED BY <2>2, <2>4, <2>5, <2>7, <2>8 DEF Nth
<1> QED BY <1>3, <1>4, <1>5

(* Which element reads or writes out of bounds, and that none did so far.  *)
SrcSeg        == IF ins.op = "outs" THEN "es" ELSE ins.seg
ReadsOver(j)  == UsesSi /\ Over(SrcSeg, Nth(start.si, j))
WritesOver(j) == UsesDi /\ Over("es", Nth(start.di, j))
Clean(j)      == \A i \in 0 .. (j - 1) : ~ReadsOver(i) /\ ~WritesOver(i)

FaultInv ==
  phase # "idle" =>
    /\ fault = "none" <=> Clean(Rounds)
    /\ \A j \in 0 .. (Rounds - 1) : Clean(j) =>
         /\ ReadsOver(j) => fault = SrcSeg
         /\ ~ReadsOver(j) /\ WritesOver(j) => fault = "es"

(* The pending fault behind element j. *)
AfterChecks(j) ==
  IF fault # "none" THEN fault
  ELSE IF ReadsOver(j) THEN SrcSeg ELSE IF WritesOver(j) THEN "es" ELSE "none"

LEMMA FaultNow ==
  ASSUME IInv, Movs \/ Stos \/ Lods \/ (\E v \in Port : Ins(v)) \/ Outs \/ Cmps \/ Scas
  PROVE  fault' = AfterChecks(Rounds)
<1>1. ElementStep /\ TypeOK
  BY RoundIsStep DEF IInv
<1>2. /\ UsesSi => Index(si) = Nth(start.si, Rounds)
      /\ UsesDi => Index(di) = Nth(start.di, Rounds)
  BY <1>1, AtElement
<1>3. ins.seg \in Seg /\ "es" \in Seg /\ "none" \notin Seg /\ SrcSeg \in Seg
  BY <1>1, Facts DEF Instr, Seg, SrcSeg
<1>4. Index(si) \in Reg /\ Index(di) \in Reg
  BY <1>1, AdvanceType DEF TypeOK
<1>5. \A pending : \A seg \in Seg, ofs \in Reg :
        Checked(pending, seg, ofs) = IF pending = "none" /\ Over(seg, ofs) THEN seg ELSE pending
  BY <1>1, CheckSees DEF Checked
<1>6. CASE Movs \/ Cmps
  <2>1. /\ fault' = Checked(Checked(fault, ins.seg, Index(si)), "es", Index(di))
        /\ UsesSi /\ UsesDi /\ SrcSeg = ins.seg
    BY <1>6 DEF Movs, Cmps, Element, UsesSi, UsesDi, SrcSeg
  <2>2. ReadsOver(Rounds) <=> Over(ins.seg, Index(si))
    BY <2>1, <1>2 DEF ReadsOver
  <2>3. WritesOver(Rounds) <=> Over("es", Index(di))
    BY <2>1, <1>2 DEF WritesOver
  <2>4. Checked(fault, ins.seg, Index(si)) =
          IF fault = "none" /\ ReadsOver(Rounds) THEN ins.seg ELSE fault
    BY <2>2, <1>3, <1>4, <1>5, Zenon
  <2>5. \A f : Checked(f, "es", Index(di)) = IF f = "none" /\ WritesOver(Rounds) THEN "es" ELSE f
    BY <2>3, <1>3, <1>4, <1>5, Zenon
  <2>6. ins.seg # "none"
    BY <1>3
  <2> QED BY <2>1, <2>4, <2>5, <2>6 DEF AfterChecks
<1>7. CASE Stos \/ Scas \/ \E v \in Port : Ins(v)
  <2>1. fault' = Checked(fault, "es", Index(di)) /\ ~UsesSi /\ UsesDi
    BY <1>7 DEF Stos, Scas, Ins, Element, UsesSi, UsesDi
  <2>2. ~ReadsOver(Rounds) /\ (WritesOver(Rounds) <=> Over("es", Index(di)))
    BY <2>1, <1>2 DEF ReadsOver, WritesOver
  <2>3. Checked(fault, "es", Index(di)) =
          IF fault = "none" /\ WritesOver(Rounds) THEN "es" ELSE fault
    BY <2>2, <1>3, <1>4, <1>5, Zenon
  <2> QED BY <2>1, <2>2, <2>3 DEF AfterChecks
<1>8. CASE Lods \/ Outs
  <2>1. fault' = Checked(fault, SrcSeg, Index(si)) /\ UsesSi /\ ~UsesDi
    BY <1>8 DEF Lods, Outs, Element, UsesSi, UsesDi, SrcSeg
  <2>2. ~WritesOver(Rounds) /\ (ReadsOver(Rounds) <=> Over(SrcSeg, Index(si)))
    BY <2>1, <1>2 DEF ReadsOver, WritesOver
  <2>3. Checked(fault, SrcSeg, Index(si)) =
          IF fault = "none" /\ ReadsOver(Rounds) THEN SrcSeg ELSE fault
    BY <2>2, <1>3, <1>4, <1>5, Zenon
  <2> QED BY <2>1, <2>2, <2>3 DEF AfterChecks
<1> QED BY <1>6, <1>7, <1>8

(* What an instruction does not change of the closed form. *)
LEMMA OverFixed ==
  ASSUME UNCHANGED <<ins, df, start>>
  PROVE  /\ SrcSeg' = SrcSeg
         /\ \A j : (ReadsOver(j)' <=> ReadsOver(j)) /\ (WritesOver(j)' <=> WritesOver(j))
         /\ \A j : Clean(j)' <=> Clean(j)
<1>1. \A j : (ReadsOver(j)' <=> ReadsOver(j)) /\ (WritesOver(j)' <=> WritesOver(j))
  BY DEF ReadsOver, WritesOver, Over, Bytes, SrcSeg, UsesSi, UsesDi, Nth, Index, Width, WidthOf,
         Inc, Unit
<1> QED BY <1>1 DEF SrcSeg, Clean

LEMMA FaultStep ==
  ASSUME IInv, FaultInv,
         Movs \/ Stos \/ Lods \/ (\E v \in Port : Ins(v)) \/ Outs \/ Cmps \/ Scas
  PROVE  FaultInv'
<1>1. ElementStep /\ TypeOK /\ Tracked
  BY RoundIsStep DEF IInv, ElementStep
<1>2. PICK n \in Nat : n = Rounds
  BY <1>1, AskedType, SMT DEF Tracked
<1>3. Rounds' = n + 1 /\ phase # "idle" /\ UNCHANGED <<ins, df, start>>
  BY <1>1, <1>2, ElementTracked DEF ElementStep
<1>4. /\ SrcSeg' = SrcSeg
      /\ \A j : (ReadsOver(j)' <=> ReadsOver(j)) /\ (WritesOver(j)' <=> WritesOver(j))
      /\ \A j : Clean(j)' <=> Clean(j)
  BY <1>3, OverFixed
<1>5. fault' = AfterChecks(n)
  BY <1>2, FaultNow
<1>6. /\ fault = "none" <=> Clean(n)
      /\ \A j \in 0 .. (n - 1) : Clean(j) =>
           /\ ReadsOver(j) => fault = SrcSeg
           /\ ~ReadsOver(j) /\ WritesOver(j) => fault = "es"
  BY <1>2, <1>3 DEF FaultInv
<1>7. SrcSeg # "none" /\ "es" # "none"
  BY <1>1, Facts DEF Instr, Seg, SrcSeg
<1>8. Clean(n + 1) <=> Clean(n) /\ ~ReadsOver(n) /\ ~WritesOver(n)
  <2>1. \A i : i \in 0 .. n <=> i \in 0 .. (n - 1) \/ i = n
    BY <1>2, SMT
  <2>2. n + 1 - 1 = n
    BY <1>2, SMT
  <2>3. Clean(n + 1) <=> \A i \in 0 .. n : ~ReadsOver(i) /\ ~WritesOver(i)
    BY <2>2 DEF Clean
  <2>4. n \in 0 .. n
    BY <1>2, SMT
  <2> QED BY <2>1, <2>3, <2>4 DEF Clean
<1>9. fault' = "none" <=> Clean(n + 1)
  BY <1>5, <1>6, <1>7, <1>8 DEF AfterChecks
<1>10. ASSUME NEW j \in 0 .. n, Clean(j)
       PROVE  /\ ReadsOver(j) => fault' = SrcSeg
              /\ ~ReadsOver(j) /\ WritesOver(j) => fault' = "es"
  <2>1. CASE j = n
    BY <2>1, <1>5, <1>6, <1>10 DEF AfterChecks
  <2>2. CASE j # n
    <3>1. j \in 0 .. (n - 1)
      BY <2>2, <1>2, SMT
    <3> QED BY <3>1, <1>5, <1>6, <1>7, <1>10 DEF AfterChecks
  <2> QED BY <2>1, <2>2
<1>11. n + 1 - 1 = n
  BY <1>2, SMT
<1>12. /\ fault' = "none" <=> Clean(Rounds')
       /\ \A j \in 0 .. (Rounds' - 1) : Clean(j) =>
            /\ ReadsOver(j) => fault' = SrcSeg
            /\ ~ReadsOver(j) /\ WritesOver(j) => fault' = "es"
  BY <1>3, <1>9, <1>10, <1>11
<1>13. Clean(Rounds)' <=> Clean(Rounds')
  BY <1>4, <1>3 DEF Clean, ReadsOver, WritesOver, Over, Bytes, SrcSeg, UsesSi, UsesDi, Nth, Index,
                    Width, WidthOf, Inc, Unit
<1> QED BY <1>4, <1>12, <1>13 DEF FaultInv

(* All elements are accessed; the fault delivered is that of the first     *)
(* access out of bounds, for all widths, limits, counts and directions.    *)
THEOREM FirstFaultSurvives == Spec => []FaultTells
<1> DEFINE I == IInv /\ FaultInv
<1>1. Init => I
  BY InitInv DEF Init, FaultInv
<1>2. I /\ [Next]_vars => I'
  <2> SUFFICES ASSUME I, [Next]_vars PROVE FaultInv'
    BY StepInv
  <2>1. CASE \E i \in Instrs, r \in Starts : Begin(i, r)
    <3> PICK i \in Instrs, r \in Starts : Begin(i, r)
      BY <2>1
    <3>1. fault' = "none"
      BY DEF Begin
    <3>2. Rounds' = 0
      BY StepInv, BeginRounds DEF IInv
    <3>3. 0 .. (Rounds' - 1) = {}
      BY <3>2, SMT
    <3> QED BY <3>1, <3>3 DEF FaultInv, Clean
  <2>2. CASE Movs \/ Stos \/ Lods \/ (\E v \in Port : Ins(v)) \/ Outs \/ Cmps \/ Scas
    BY <2>2, FaultStep
  <2>3. CASE Finish \/ UNCHANGED vars
    <3>1. UNCHANGED <<ins, df, start, fault, left, cx>> /\ (phase = "idle" <=> phase' = "idle")
      BY <2>3 DEF Finish, vars
    <3>2. Rounds' = Rounds
      BY <3>1 DEF Rounds, Asked, Index, Width, WidthOf, Rep
    <3>3. PICK n : n = Rounds
      OBVIOUS
    <3>4. Clean(Rounds)' <=> Clean(Rounds)
      BY <3>1, <3>2 DEF Clean, ReadsOver, WritesOver, Over, Bytes, SrcSeg, UsesSi, UsesDi, Nth,
                        Index, Width, WidthOf, Inc, Unit
    <3> QED BY <3>1, <3>2, <3>4, OverFixed DEF FaultInv
  <2>4. CASE Leave
    BY <2>4 DEF Leave, FaultInv
  <2> QED BY <2>1, <2>2, <2>3, <2>4 DEF Next, Loop
<1>3. I => FaultTells
  <2> SUFFICES ASSUME I, Done PROVE FaultTells
    BY DEF FaultTells
  <2>1. Handled = Rounds
    BY DoneRounds
  <2> QED BY <2>1 DEF FaultInv, FaultTells, Done, Clean, ReadsOver, WritesOver, SrcSeg
<1> QED BY <1>1, <1>2, <1>3, PTL DEF Spec
-----------------------------------------------------------------------------
(* Copies and fills. *)

(* Asked elements of ins.size bytes, as products by 1, 2 or 4. *)
LEMMA Elements ==
  ASSUME NEW m \in Nat, NEW n \in Nat, n < m, NEW z \in {1, 2, 4}
  PROVE  /\ n * z \in Nat /\ m * z \in Nat
         /\ (n + 1) * z = n * z + z /\ n * z + z <= m * z
         /\ (m - 1) * z = m * z - z /\ n * (-z) = -(n * z)
<1>1. CASE z = 1
  BY <1>1, SMT
<1>2. CASE z = 2
  BY <1>2, SMT
<1>3. CASE z = 4
  BY <1>3, SMT
<1> QED BY <1>1, <1>2, <1>3

(* A window of memory: where it begins, and its byte number i in the order *)
(* in which the instruction comes by.                                      *)
Copied       == Asked * ins.size
LowEnd(seg, r) == Base[seg] + IF df THEN Index(r) - (Asked - 1) * ins.size ELSE Index(r)
Place(lo, i) == IF df THEN lo + Copied - 1 - i ELSE lo + i
Fits(seg, r) ==
  /\ LowEnd(seg, r) >= Base[seg]
  /\ LowEnd(seg, r) - Base[seg] + Copied <= Width
  /\ LowEnd(seg, r) + Copied <= Full

(* Byte k of an element, in that order. *)
Kth(k) == IF df THEN ins.size - 1 - k ELSE k

LEMMA WindowTypes ==
  ASSUME TypeOK, NEW seg \in Seg, NEW r \in Reg
  PROVE  /\ Copied \in Nat /\ LowEnd(seg, r) \in Int /\ Index(r) \in 0 .. (Width - 1)
         /\ Width \in Nat \ {0} /\ Base[seg] \in Nat /\ ins.size \in {1, 2, 4}
<1>1. Asked \in Nat /\ ins.size \in {1, 2, 4} /\ Width \in Widths
  BY AskedType, Facts
<1>2. Index(r) \in 0 .. (Width - 1) /\ Width \in Nat \ {0} /\ Base[seg] \in Nat
  BY <1>1, WrittenType, WidthsPositive, SegAssumption, SMT DEF Index, Reg
<1>3. Copied \in Nat /\ (Asked - 1) * ins.size \in Int
  BY <1>1, SMT DEF Copied
<1> QED BY <1>1, <1>2, <1>3, SMT DEF LowEnd

(* In a window that does not wrap, the bytes of element j are the j-th lot. *)
LEMMA ElementPlace ==
  ASSUME TypeOK, ins.op \in {"movs", "stos"}, NEW seg \in Seg, NEW r \in Reg, Fits(seg, r),
         NEW j \in Nat, j < Asked, NEW k \in Bytes
  PROVE  /\ Linear(seg, Nth(r, j) + k) = Place(LowEnd(seg, r), j * ins.size + Kth(k))
         /\ Kth(k) \in 0 .. (ins.size - 1)
         /\ Nth(r, j) \in Int
<1> DEFINE z == ins.size
           p == Index(r)
           lo == LowEnd(seg, r)
           w == j * z
           t == Copied
           b == Base[seg]
<1>1. /\ t \in Nat /\ lo \in Int /\ p \in 0 .. (Width - 1) /\ Width \in Nat \ {0}
      /\ b \in Nat /\ z \in {1, 2, 4}
  BY WindowTypes
<1>2. k \in 0 .. (z - 1)
  BY DEF Bytes
<1>3. w \in Nat /\ w + z <= t /\ (Asked - 1) * z = t - z /\ j * (-z) = -w
  BY <1>1, AskedType, Elements DEF Copied
<1>4. Inc = IF df THEN -z ELSE z
  BY DEF Inc, Unit, Ports
<1>5. j * Inc = IF df THEN -w ELSE w
  BY <1>3, <1>4
<1>6. lo = b + IF df THEN p - (t - z) ELSE p
  BY <1>3 DEF LowEnd
<1>7. lo >= b /\ lo - b + t <= Width /\ lo + t <= Full
  BY DEF Fits
<1>8. Kth(k) = IF df THEN z - 1 - k ELSE k
  BY DEF Kth
<1>9. Place(lo, w + Kth(k)) = IF df THEN lo + t - 1 - (w + Kth(k)) ELSE lo + (w + Kth(k))
  BY DEF Place
<1>10. Full \in Nat \ {0}
  BY WidthAssumption, SMT
<1>11. Nth(r, j) = (p + j * Inc) % Width /\ Linear(seg, Nth(r, j) + k) = (b + (Nth(r, j) + k)) % Full
  BY DEF Nth, Linear
<1> HIDE DEF p, lo, w, t, b, z
<1>12. CASE df
  <2>1. p + j * Inc = p - w
    BY <1>12, <1>5, <1>1, <1>3, SMT
  <2>2. p - w \in 0 .. (Width - 1)
    BY <1>12, <1>1, <1>3, <1>6, <1>7, SMT
  <2>3. Nth(r, j) = p - w
    BY <2>1, <2>2, <1>1, <1>11, ModSmall
  <2>4. b + ((p - w) + k) \in 0 .. (Full - 1)
    BY <1>12, <1>1, <1>2, <1>3, <1>6, <1>7, <1>10, SMT
  <2>5. Linear(seg, Nth(r, j) + k) = b + ((p - w) + k)
    BY <2>3, <2>4, <1>10, <1>11, ModSmall
  <2>6. Kth(k) = z - 1 - k /\ Kth(k) \in 0 .. (z - 1)
    BY <1>12, <1>1, <1>2, <1>8, SMT
  <2>7. lo + t - 1 - (w + (z - 1 - k)) = b + ((p - w) + k)
    BY <1>12, <1>1, <1>2, <1>3, <1>6, SMT
  <2>8. p - w \in Int
    BY <2>2
  <2> QED BY <1>12, <1>9, <2>3, <2>5, <2>6, <2>7, <2>8 DEF z, w, lo
<1>13. CASE ~df
  <2>1. p + j * Inc = p + w
    BY <1>13, <1>5, <1>1, <1>3, SMT
  <2>2. p + w \in 0 .. (Width - 1)
    BY <1>13, <1>1, <1>3, <1>6, <1>7, SMT
  <2>3. Nth(r, j) = p + w
    BY <2>1, <2>2, <1>1, <1>11, ModSmall
  <2>4. b + ((p + w) + k) \in 0 .. (Full - 1)
    BY <1>13, <1>1, <1>2, <1>3, <1>6, <1>7, <1>10, SMT
  <2>5. Linear(seg, Nth(r, j) + k) = b + ((p + w) + k)
    BY <2>3, <2>4, <1>10, <1>11, ModSmall
  <2>6. Kth(k) = k /\ Kth(k) \in 0 .. (z - 1)
    BY <1>13, <1>2, <1>8
  <2>7. lo + (w + k) = b + ((p + w) + k)
    BY <1>13, <1>1, <1>2, <1>3, <1>6, SMT
  <2>8. p + w \in Int
    BY <2>2
  <2> QED BY <1>13, <1>9, <2>3, <2>5, <2>6, <2>7, <2>8 DEF z, w, lo
<1> QED BY <1>12, <1>13

(* A byte of the element that is stored is the one it was given. *)
LEMMA StoredByte ==
  ASSUME TypeOK, NEW seg \in Seg, NEW ofs \in Int, NEW v, NEW k \in Bytes
  PROVE  Store(seg, ofs, v)[Linear(seg, ofs + k)] = v[k]
<1> DEFINE l == Linear(seg, ofs)
<1>1. Full \in Nat \ {0} /\ l \in Int /\ k \in 0 .. (Full - 1)
  BY LinearType, Facts, WidthAssumption, SMT DEF Reg
<1>2. Linear(seg, ofs + k) \in Reg /\ Linear(seg, ofs + k) = (l + k) % Full
  BY <1>1, LinearType, LinearPlus, SMT
<1> HIDE DEF l
<1>3. (((l + k) % Full) + (-l)) % Full = (l + k + (-l)) % Full
  <2>1. l + k \in Int /\ -l \in Int
    BY <1>1, SMT
  <2> QED BY <2>1, <1>1, ModAdd
<1>4. l + k + (-l) = k
  BY <1>1, SMT
<1>5. k % Full = k
  BY <1>1, ModSmall
<1>6. ((l + k) % Full) + (-l) = ((l + k) % Full) - l
  <2>1. (l + k) % Full \in Int
    BY <1>1, DivMod, SMT
  <2> QED BY <2>1, <1>1, SMT
<1>7. (Linear(seg, ofs + k) - l) % Full = k
  BY <1>2, <1>3, <1>4, <1>5, <1>6
<1> QED BY <1>2, <1>7 DEF Store, l
Dst(j) == Place(LowEnd("es", start.di), j)
Src(j) == Place(LowEnd(ins.seg, start.si), j)

(* How far the destination runs ahead of the source, and the byte that is  *)
(* copied to place j.                                                      *)
Ahead == IF df THEN LowEnd(ins.seg, start.si) - LowEnd("es", start.di)
               ELSE LowEnd("es", start.di) - LowEnd(ins.seg, start.si)
Origin(j) == IF Ahead \in 1 .. Copied THEN j % Ahead ELSE j

Copies ==
  /\ ins.op = "movs" /\ Fits("es", start.di) /\ Fits(ins.seg, start.si)
  /\ Ahead >= ins.size \/ Ahead <= 0
Fills == ins.op = "stos" /\ Fits("es", start.di)

Reached == Rounds * ins.size

CopyInv ==
  phase # "idle" =>
    /\ Copies => \A j \in 0 .. (Reached - 1) : mem[Dst(j)] = start.mem[Src(Origin(j))]
    /\ Fills  => \A j \in 0 .. (Reached - 1) :
                   mem[Dst(j)] = acc[(Dst(j) - LowEnd("es", start.di)) % ins.size]

LEMMA CopyTypes ==
  ASSUME TypeOK
  PROVE  /\ Copied \in Nat /\ ins.size \in {1, 2, 4} /\ ins.seg \in Seg /\ "es" \in Seg
         /\ start.si \in Reg /\ start.di \in Reg
         /\ LowEnd("es", start.di) \in Int /\ LowEnd(ins.seg, start.si) \in Int
         /\ Ahead \in Int
         /\ \A j \in Int : Dst(j) \in Int /\ Src(j) \in Int /\ Src(j) = Dst(j - Ahead)
         /\ \A i, j \in Int : Dst(i) = Dst(j) => i = j
<1>1. start.si \in Reg /\ start.di \in Reg /\ ins.seg \in Seg /\ "es" \in Seg
  BY Facts DEF Start, Instr, Seg
<1>2. /\ Copied \in Nat /\ ins.size \in {1, 2, 4}
      /\ LowEnd("es", start.di) \in Int /\ LowEnd(ins.seg, start.si) \in Int
  BY <1>1, WindowTypes
<1> DEFINE d == LowEnd("es", start.di)
           s == LowEnd(ins.seg, start.si)
<1>3. Ahead = IF df THEN s - d ELSE d - s
  BY DEF Ahead
<1>4. \A j : /\ Dst(j) = IF df THEN d + Copied - 1 - j ELSE d + j
             /\ Src(j) = IF df THEN s + Copied - 1 - j ELSE s + j
  BY DEF Dst, Src, Place
<1> HIDE DEF d, s
<1>5. d \in Int /\ s \in Int /\ Copied \in Int
  BY <1>2, SMT DEF d, s
<1>6. Ahead \in Int
  BY <1>3, <1>5, SMT
<1>7. \A j \in Int : Dst(j) \in Int /\ Src(j) \in Int /\ Src(j) = Dst(j - Ahead)
  BY <1>3, <1>4, <1>5, SMT
<1>8. \A i, j \in Int : Dst(i) = Dst(j) => i = j
  BY <1>4, <1>5, SMT
<1> QED BY <1>1, <1>2, <1>6, <1>7, <1>8

(* The place of byte k of the element at hand, in both windows. *)
LEMMA PlaceNow ==
  ASSUME TypeOK, ins.op \in {"movs", "stos"}, Fits("es", start.di), NEW n \in Nat, n < Asked,
         NEW k \in Bytes
  PROVE  /\ Linear("es", Nth(start.di, n) + k) = Dst(n * ins.size + Kth(k))
         /\ Fits(ins.seg, start.si) =>
              Linear(ins.seg, Nth(start.si, n) + k) = Src(n * ins.size + Kth(k))
         /\ Kth(k) \in 0 .. (ins.size - 1) /\ Nth(start.di, n) \in Int
<1>1. start.si \in Reg /\ start.di \in Reg /\ ins.seg \in Seg /\ "es" \in Seg
  BY CopyTypes
<1>2. /\ Linear("es", Nth(start.di, n) + k) = Place(LowEnd("es", start.di), n * ins.size + Kth(k))
      /\ Kth(k) \in 0 .. (ins.size - 1) /\ Nth(start.di, n) \in Int
  BY <1>1, ElementPlace
<1>3. ASSUME Fits(ins.seg, start.si)
      PROVE  Linear(ins.seg, Nth(start.si, n) + k)
               = Place(LowEnd(ins.seg, start.si), n * ins.size + Kth(k))
  BY <1>1, <1>3, ElementPlace
<1> QED BY <1>2, <1>3 DEF Dst, Src

LEMMA DstInMemory ==
  ASSUME IInv, ins.op \in {"movs", "stos"}, Fits("es", start.di),
         NEW j \in 0 .. (Copied - 1)
  PROVE  Dst(j) \in Reg
<1>1. /\ Copied \in Nat /\ LowEnd("es", start.di) \in Int /\ Base["es"] \in Nat
  BY CopyTypes, WindowTypes DEF IInv
<1> DEFINE lo == LowEnd("es", start.di)
<1>2. lo >= Base["es"] /\ lo + Copied <= Full
  BY DEF Fits
<1>3. Dst(j) = IF df THEN lo + Copied - 1 - j ELSE lo + j
  BY DEF Dst, Place
<1> HIDE DEF lo
<1>4. lo \in Nat
  BY <1>1, <1>2, SMT DEF lo
<1> QED BY <1>1, <1>2, <1>3, <1>4, WidthAssumption, SMT DEF Reg

(* What is left of the memory the instruction found. *)
LEMMA Untouched ==
  ASSUME IInv, OnlyDestinationWritten, phase # "idle", ins.op \in {"movs", "stos"},
         Fits("es", start.di), NEW a \in Reg,
         \A j \in 0 .. (Reached - 1) : a # Dst(j)
  PROVE  mem[a] = start.mem[a]
<1>1. TypeOK /\ Tracked /\ Asked \in Nat /\ ins.size \in {1, 2, 4}
  BY AskedType, Facts DEF IInv
<1>2. Rounds = Asked - left /\ Rounds \in 0 .. Asked
  BY <1>1 DEF Rounds, Scans, Tracked
<1>3. SUFFICES ASSUME NEW j \in 0 .. (Asked - left - 1), NEW k \in Bytes,
                      a = Linear("es", Nth(start.di, j) + k)
               PROVE  FALSE
  <2>1. Destination = {Linear("es", Nth(start.di, j) + k) : j \in 0 .. (Asked - left - 1), k \in Bytes}
    BY DEF Destination
  <2> QED BY <2>1, <1>3 DEF OnlyDestinationWritten
<1>4. PICK n \in Nat : n = Rounds
  BY <1>2
<1>5. j \in Nat /\ j < n /\ n \in Nat /\ n <= Asked /\ j < Asked
  BY <1>1, <1>2, <1>4, SMT
<1>6. a = Dst(j * ins.size + Kth(k)) /\ Kth(k) \in 0 .. (ins.size - 1)
  BY <1>1, <1>3, <1>5, PlaceNow
<1>7. j * ins.size \in Nat /\ n * ins.size \in Nat /\ j * ins.size + ins.size <= n * ins.size
  BY <1>1, <1>5, Elements
<1>8. j * ins.size + Kth(k) \in 0 .. (n * ins.size - 1)
  BY <1>1, <1>6, <1>7, SMT
<1> QED BY <1>4, <1>6, <1>8 DEF Reached

(* Going on by one element. *)
LEMMA StoreStep ==
  ASSUME IInv, phase = "loop", ElementStep, ins.op \in {"movs", "stos"}, Fits("es", start.di),
         NEW v, mem' = Store("es", Index(di), v), NEW n \in Nat, n = Rounds
  PROVE  /\ n < Asked /\ n * ins.size \in Nat /\ n * ins.size + ins.size <= Copied
         /\ Reached = n * ins.size /\ Reached' = n * ins.size + ins.size
         /\ Index(di) = Nth(start.di, n)
         /\ \A j \in 0 .. (n * ins.size - 1) : Dst(j) \in Reg => mem'[Dst(j)] = mem[Dst(j)]
         /\ \A j \in (n * ins.size) .. (n * ins.size + ins.size - 1) :
              \E k \in Bytes : /\ j = n * ins.size + Kth(k)
                               /\ mem'[Dst(j)] = v[k]
<1>1. TypeOK /\ Asked \in Nat /\ ins.size \in {1, 2, 4} /\ "es" \in Seg
  BY AskedType, Facts DEF IInv, Seg
<1>2. Rounds' = n + 1 /\ n + 1 \in 0 .. Asked /\ ins' = ins
  BY ElementTracked, Fixed DEF Tracked, ElementStep
<1>3. n < Asked
  BY <1>1, <1>2, SMT
<1>4. n * ins.size \in Nat /\ n * ins.size + ins.size <= Copied /\ (n + 1) * ins.size = n * ins.size + ins.size
  BY <1>1, <1>3, Elements DEF Copied
<1>5. Reached = n * ins.size /\ Reached' = n * ins.size + ins.size
  BY <1>2, <1>4 DEF Reached
<1>6. Index(di) = Nth(start.di, n)
  BY AtElement DEF UsesDi
<1>7. \A k \in Bytes : /\ Linear("es", Nth(start.di, n) + k) = Dst(n * ins.size + Kth(k))
                       /\ Kth(k) \in 0 .. (ins.size - 1) /\ Nth(start.di, n) \in Int
  BY <1>1, <1>3, PlaceNow
<1>8. 0 \in Bytes
  BY <1>1, SMT DEF Bytes
<1>9. Nth(start.di, n) \in Int
  BY <1>7, <1>8
<1>10. ASSUME NEW j \in 0 .. (n * ins.size - 1), Dst(j) \in Reg
       PROVE  mem'[Dst(j)] = mem[Dst(j)]
  <2>1. ASSUME NEW k \in Bytes PROVE Dst(j) # Linear("es", Nth(start.di, n) + k)
    <3>1. j \in Int /\ n * ins.size + Kth(k) \in Int /\ j # n * ins.size + Kth(k)
      BY <1>1, <1>4, <1>7, SMT
    <3> QED BY <3>1, <1>1, <1>7, CopyTypes
  <2> QED BY <2>1, <1>1, <1>6, <1>9, <1>10, StoredCells
<1>11. ASSUME NEW j \in (n * ins.size) .. (n * ins.size + ins.size - 1)
       PROVE  \E k \in Bytes : j = n * ins.size + Kth(k) /\ mem'[Dst(j)] = v[k]
  <2> DEFINE i == j - n * ins.size
             k == IF df THEN ins.size - 1 - i ELSE i
  <2>1. i \in 0 .. (ins.size - 1) /\ j = n * ins.size + i
    BY <1>1, <1>4, SMT
  <2> HIDE DEF i
  <2>2. k \in Bytes
    <3>1. ins.size - 1 - i \in 0 .. (ins.size - 1)
      BY <2>1, <1>1, SMT
    <3> QED BY <2>1, <3>1 DEF Bytes
  <2>3. Kth(k) = i
    BY <2>1, <1>1, SMT DEF Kth
  <2> HIDE DEF k
  <2>4. Dst(j) = Linear("es", Nth(start.di, n) + k)
    BY <2>1, <2>2, <2>3, <1>7
  <2>5. Store("es", Nth(start.di, n), v)[Linear("es", Nth(start.di, n) + k)] = v[k]
    BY <1>1, <1>9, <2>2, StoredByte
  <2> QED BY <1>6, <2>1, <2>2, <2>3, <2>4, <2>5
<1> QED BY <1>3, <1>4, <1>5, <1>6, <1>10, <1>11
(* What the loop leaves alone of all this. *)
LEMMA WindowFixed ==
  ASSUME UNCHANGED <<ins, df, start>>
  PROVE  /\ (Copies' <=> Copies) /\ (Fills' <=> Fills)
         /\ LowEnd("es", start.di)' = LowEnd("es", start.di)
         /\ \A j : Dst(j)' = Dst(j) /\ Src(Origin(j))' = Src(Origin(j))
BY SMTT(60) DEF Copies, Fills, Fits, Ahead, Copied, LowEnd, Dst, Src, Place, Origin, Asked, Index, Width,
       WidthOf, Rep

LEMMA CopyStep ==
  ASSUME IInv, OnlyDestinationWritten, CopyInv, Movs, Copies
  PROVE  \A j \in 0 .. (Reached' - 1) : mem'[Dst(j)] = start.mem[Src(Origin(j))]
<1> DEFINE v == Load(ins.seg, Index(si))
<1>1. /\ ElementStep /\ TypeOK /\ Tracked /\ phase = "loop" /\ phase # "idle" /\ ins.op = "movs"
      /\ mem' = Store("es", Index(di), v)
  BY RoundIsStep DEF Movs, Element, IInv
<1>2. PICK n \in Nat : n = Rounds
  BY <1>1, AskedType, SMT DEF Tracked
<1> DEFINE w == n * ins.size
<1>3. Fits("es", start.di) /\ Fits(ins.seg, start.si) /\ (Ahead >= ins.size \/ Ahead <= 0)
  BY DEF Copies
<1>4. /\ n < Asked /\ w \in Nat /\ w + ins.size <= Copied
      /\ Reached = w /\ Reached' = w + ins.size
      /\ \A j \in 0 .. (w - 1) : Dst(j) \in Reg => mem'[Dst(j)] = mem[Dst(j)]
      /\ \A j \in w .. (w + ins.size - 1) :
           \E k \in Bytes : j = w + Kth(k) /\ mem'[Dst(j)] = v[k]
  <2> HIDE DEF v
  <2> QED BY <1>1, <1>2, <1>3, StoreStep
<1>5. Index(si) = Nth(start.si, n) /\ ins.size \in {1, 2, 4} /\ Ahead \in Int /\ Copied \in Nat
  BY <1>1, <1>2, AtElement, CopyTypes DEF UsesSi
<1>6. \A k \in Bytes : /\ Linear("es", Nth(start.di, n) + k) = Dst(w + Kth(k))
                       /\ Linear(ins.seg, Nth(start.si, n) + k) = Src(w + Kth(k))
                       /\ Kth(k) \in 0 .. (ins.size - 1)
  BY <1>1, <1>3, <1>4, PlaceNow
<1> HIDE DEF w
<1>7. ASSUME NEW j \in 0 .. (w - 1)
      PROVE  mem'[Dst(j)] = start.mem[Src(Origin(j))]
  <2>1. mem[Dst(j)] = start.mem[Src(Origin(j))]
    BY <1>1, <1>4, <1>7 DEF CopyInv
  <2>2. Dst(j) \in Reg
    <3>1. j \in 0 .. (Copied - 1)
      BY <1>4, <1>5, <1>7, SMT
    <3> QED BY <3>1, <1>1, <1>3, DstInMemory
  <2> QED BY <2>1, <2>2, <1>4, <1>7
<1>8. ASSUME NEW j \in w .. (w + ins.size - 1)
      PROVE  mem'[Dst(j)] = start.mem[Src(Origin(j))]
  <2>1. PICK k \in Bytes : j = w + Kth(k) /\ mem'[Dst(j)] = v[k]
    BY <1>4, <1>8
  <2>2. v[k] = mem[Src(j)]
    BY <2>1, <1>5, <1>6 DEF Load
  <2> DEFINE m == j - Ahead
  <2>3. j \in Int /\ m \in Int /\ Src(j) = Dst(m) /\ j <= Copied /\ j >= w
    <3>1. j \in Int /\ j <= Copied /\ j >= w
      BY <1>4, <1>5, SMT
    <3> QED BY <3>1, <1>1, <1>5, CopyTypes
  <2>4. Src(j) \in Reg
    <3>1. Linear(ins.seg, Nth(start.si, n) + k) = Src(j)
      BY <2>1, <1>6
    <3>2. ins.seg \in Seg /\ k \in Int
      BY <1>1, CopyTypes, Facts
    <3>3. Nth(start.si, n) \in Int
      BY <1>1, <1>5, AdvanceType DEF TypeOK
    <3>4. Nth(start.si, n) + k \in Int
      BY <3>2, <3>3, SMT
    <3> QED BY <3>1, <3>2, <3>4, LinearType
  <2> HIDE DEF m
  <2>5. CASE m \in 0 .. (w - 1)
    <3>1. mem[Dst(m)] = start.mem[Src(Origin(m))]
      BY <1>1, <1>4, <2>5 DEF CopyInv
    <3>2. Ahead \in 1 .. Copied /\ m + Ahead = j /\ Ahead \in Nat \ {0}
      BY <1>4, <1>5, <2>3, <2>5, SMT DEF m
    <3>3. (m + Ahead) % Ahead = m % Ahead
      BY <3>2, <2>3, TurnAdded
    <3>4. Origin(m) = Origin(j)
      BY <3>2, <3>3 DEF Origin
    <3> QED BY <2>1, <2>2, <2>3, <3>1, <3>4
  <2>6. CASE m \notin 0 .. (w - 1)
    <3>1. \A i \in 0 .. (w - 1) : Src(j) # Dst(i)
      <4>1. \A i \in 0 .. (w - 1) : i \in Int /\ i # m
        BY <2>6
      <4> QED BY <4>1, <1>1, <2>3, CopyTypes
    <3>2. mem[Src(j)] = start.mem[Src(j)]
      BY <1>1, <1>3, <1>4, <2>4, <3>1, Untouched
    <3>3. Origin(j) = j
      <4>1. CASE Ahead \in 1 .. Copied
        <5>1. Ahead \in Nat \ {0} /\ j \in 0 .. (Ahead - 1)
          BY <4>1, <1>3, <1>4, <1>5, <2>3, <2>6, SMT DEF m
        <5>2. j % Ahead = j
          BY <5>1, ModSmall
        <5> QED BY <5>2 DEF Origin
      <4>2. CASE Ahead \notin 1 .. Copied
        BY <4>2 DEF Origin
      <4> QED BY <4>1, <4>2
    <3> QED BY <2>1, <2>2, <3>2, <3>3
  <2> QED BY <2>5, <2>6
<1>9. \A j \in 0 .. (w + ins.size - 1) : j \in 0 .. (w - 1) \/ j \in w .. (w + ins.size - 1)
  BY <1>4, <1>5, SMT
<1>10. ASSUME NEW j \in 0 .. (w + ins.size - 1)
       PROVE  mem'[Dst(j)] = start.mem[Src(Origin(j))]
  BY <1>7, <1>8, <1>9
<1> QED BY <1>4, <1>5, <1>10

LEMMA FillStep ==
  ASSUME IInv, CopyInv, Stos, Fills
  PROVE  \A j \in 0 .. (Reached' - 1) :
           mem'[Dst(j)] = acc[(Dst(j) - LowEnd("es", start.di)) % ins.size]
<1> DEFINE v == Low(acc)
           lo == LowEnd("es", start.di)
<1>1. /\ ElementStep /\ TypeOK /\ Tracked /\ phase = "loop" /\ phase # "idle" /\ ins.op = "stos"
      /\ mem' = Store("es", Index(di), v)
  BY RoundIsStep DEF Stos, Element, IInv
<1>2. PICK n \in Nat : n = Rounds
  BY <1>1, AskedType, SMT DEF Tracked
<1> DEFINE w == n * ins.size
<1>3. Fits("es", start.di)
  BY DEF Fills
<1>4. /\ n < Asked /\ w \in Nat /\ w + ins.size <= Copied
      /\ Reached = w /\ Reached' = w + ins.size
      /\ \A j \in 0 .. (w - 1) : Dst(j) \in Reg => mem'[Dst(j)] = mem[Dst(j)]
      /\ \A j \in w .. (w + ins.size - 1) :
           \E k \in Bytes : j = w + Kth(k) /\ mem'[Dst(j)] = v[k]
  <2> HIDE DEF v
  <2> QED BY <1>1, <1>2, <1>3, StoreStep
<1>5. ins.size \in {1, 2, 4} /\ ins.size \in Nat \ {0} /\ lo \in Int /\ Asked \in Nat
  <2>1. ins.size \in {1, 2, 4} /\ lo \in Int /\ Asked \in Nat
    BY <1>1, CopyTypes, AskedType
  <2> QED BY <2>1, SMT
<1>6. ASSUME NEW j \in 0 .. (w - 1)
      PROVE  mem'[Dst(j)] = acc[(Dst(j) - lo) % ins.size]
  <2>1. mem[Dst(j)] = acc[(Dst(j) - lo) % ins.size]
    BY <1>1, <1>4, <1>6 DEF CopyInv
  <2>2. Dst(j) \in Reg
    <3>1. j \in 0 .. (Copied - 1)
      <4>1. Copied \in Nat
        BY <1>1, CopyTypes
      <4> HIDE DEF w
      <4> QED BY <4>1, <1>4, <1>5, <1>6, SMT
    <3> QED BY <3>1, <1>1, <1>3, DstInMemory
  <2> QED BY <2>1, <2>2, <1>4, <1>6
<1>7. ASSUME NEW j \in w .. (w + ins.size - 1)
      PROVE  mem'[Dst(j)] = acc[(Dst(j) - lo) % ins.size]
  <2>1. PICK k \in Bytes : j = w + Kth(k) /\ mem'[Dst(j)] = v[k]
    BY <1>4, <1>7
  <2>2. k \in 0 .. (ins.size - 1) /\ v[k] = acc[k]
    BY DEF Bytes, Low
  <2> DEFINE e == IF df THEN Asked - 1 - n ELSE n
  <2>3. e \in Int /\ Dst(j) - lo = ins.size * e + k
    <3>1. (Asked - 1 - n) * ins.size = Copied - ins.size - w /\ n * ins.size = w
      <4>1. CASE ins.size = 1
        BY <4>1, <1>5, SMT DEF w, Copied
      <4>2. CASE ins.size = 2
        BY <4>2, <1>5, SMT DEF w, Copied
      <4>3. CASE ins.size = 4
        BY <4>3, <1>5, SMT DEF w, Copied
      <4> QED BY <4>1, <4>2, <4>3, <1>5
    <3>2. e * ins.size = ins.size * e /\ e \in Int
      BY <1>5, SMT
    <3>3. Dst(j) = IF df THEN lo + Copied - 1 - j ELSE lo + j
      BY DEF Dst, Place
    <3>4. j = w + IF df THEN ins.size - 1 - k ELSE k
      BY <2>1 DEF Kth
    <3>5. w \in Int /\ Copied \in Int /\ k \in Int /\ lo \in Int
      BY <1>4, <1>5, <1>1, <2>2, CopyTypes, SMTT(60)
    <3>6. Dst(j) - lo = IF df THEN Copied - ins.size - w + k ELSE w + k
      <4> HIDE DEF lo, w
      <4> QED BY <3>3, <3>4, <3>5, <1>5, SMT
    <3>7. e * ins.size = IF df THEN Copied - ins.size - w ELSE w
      BY <3>1
    <3> HIDE DEF e, lo, w
    <3> QED BY <3>2, <3>6, <3>7
  <2>4. (ins.size * e + k) % ins.size = k
    <3> HIDE DEF e
    <3>1. k \in Nat /\ k < ins.size
      BY <2>2, <1>5, SMT
    <3> QED BY <2>3, <3>1, <1>5, ModUnique
  <2> HIDE DEF e, lo
  <2> QED BY <2>1, <2>2, <2>3, <2>4
<1>8. \A j \in 0 .. (w + ins.size - 1) : j \in 0 .. (w - 1) \/ j \in w .. (w + ins.size - 1)
  <2> HIDE DEF w
  <2> QED BY <1>4, <1>5, SMT
<1> HIDE DEF lo, w
<1>9. ASSUME NEW j \in 0 .. (w + ins.size - 1)
      PROVE  mem'[Dst(j)] = acc[(Dst(j) - lo) % ins.size]
  BY <1>6, <1>7, <1>8
<1> QED BY <1>4, <1>5, <1>9 DEF lo
(* The window of the closed form is that of the loop. *)
LEMMA SameWindow ==
  ASSUME IInv, ins.op \in {"movs", "stos"}, NEW seg \in Seg, NEW r \in Reg
  PROVE  /\ Handled = Asked /\ Total = Copied
         /\ Base[seg] + Lowest(r) = LowEnd(seg, r)
         /\ Whole(seg, r) => Fits(seg, r)
<1>1. Handled = Asked
  BY DEF Handled, Scans
<1>2. Total = Copied /\ Base[seg] + Lowest(r) = LowEnd(seg, r)
  BY <1>1 DEF Total, Copied, Lowest, LowEnd
<1>3. Base[seg] \in Int /\ Lowest(r) \in Int /\ Total \in Int /\ Width \in Int
  <2>1. Asked \in Int /\ ins.size \in Int /\ Index(r) \in Int /\ Width \in Int /\ Base[seg] \in Int
    BY AskedType, Facts, WindowTypes, SMT DEF IInv
  <2>2. (Asked - 1) * ins.size \in Int
    BY <2>1, SMT
  <2>3. Lowest(r) \in Int
    BY <2>1, <2>2, <1>1, SMT DEF Lowest
  <2>4. Total \in Int
    BY <2>1, <1>1, SMT DEF Total
  <2> QED BY <2>1, <2>3, <2>4
<1>4. ASSUME Whole(seg, r) PROVE Fits(seg, r)
  <2>1. /\ Lowest(r) >= 0 /\ Lowest(r) + Total <= Width
        /\ Base[seg] + Lowest(r) + Total <= Full
    BY <1>4 DEF Whole
  <2>2. \A l, b, t \in Int : l >= 0 => b + l >= b /\ b + l - b + t = l + t
    BY SMT
  <2> QED BY <2>1, <2>2, <1>2, <1>3 DEF Fits
<1> QED BY <1>1, <1>2, <1>4

(* MOVS copies, or repeats what lies between source and destination, and   *)
(* STOS fills, for all widths, segments, counts, element sizes and both    *)
(* directions, as long as the windows do not wrap.                         *)
THEOREM CopiesAreExact == Spec => []CopyTells
<1> DEFINE I == IInv /\ CopyInv
<1>1. Init => I
  BY InitInv DEF Init, CopyInv
<1>2. I /\ OnlyDestinationWritten /\ [Next]_vars => I'
  <2> SUFFICES ASSUME I, OnlyDestinationWritten, [Next]_vars PROVE CopyInv'
    BY StepInv
  <2>1. CASE \E i \in Instrs, r \in Starts : Begin(i, r)
    <3> PICK i \in Instrs, r \in Starts : Begin(i, r)
      BY <2>1
    <3>1. Rounds' = 0 /\ ins' \in Instr
      BY StepInv, BeginRounds, InputTypes DEF IInv, TypeOK
    <3>2. ins'.size \in {1, 2, 4}
      BY <3>1 DEF Instr
    <3>3. Reached' = 0
      BY <3>1, <3>2, SMT DEF Reached
    <3>4. 0 .. (Reached' - 1) = {}
      BY <3>3, SMT
    <3> QED BY <3>4 DEF CopyInv
  <2>2. CASE Movs
    <3>1. UNCHANGED <<ins, df, start>> /\ (Copies' <=> Copies) /\ ins'.op = "movs"
      BY <2>2, WindowFixed DEF Movs, Element
    <3>2. ~Fills'
      BY <3>1 DEF Fills
    <3>3. ASSUME Copies' PROVE \A j \in 0 .. (Reached' - 1) : mem'[Dst(j)] = start.mem[Src(Origin(j))]
      BY <3>1, <3>3, <2>2, CopyStep
    <3> QED BY <3>1, <3>2, <3>3, WindowFixed DEF CopyInv
  <2>3. CASE Stos
    <3>1. UNCHANGED <<ins, df, acc, start>> /\ (Fills' <=> Fills) /\ ins'.op = "stos"
      BY <2>3, WindowFixed DEF Stos, Element
    <3>2. ~Copies'
      BY <3>1 DEF Copies
    <3>3. ASSUME Fills'
          PROVE  \A j \in 0 .. (Reached' - 1) :
                   mem'[Dst(j)] = acc[(Dst(j) - LowEnd("es", start.di)) % ins.size]
      BY <3>1, <3>3, <2>3, FillStep
    <3> QED BY <3>1, <3>2, <3>3, WindowFixed DEF CopyInv
  <2>4. CASE Lods \/ (\E v \in Port : Ins(v)) \/ Outs \/ Cmps \/ Scas
    <3>1. ins'.op \notin {"movs", "stos"}
      BY <2>4 DEF Lods, Ins, Outs, Cmps, Scas, Element
    <3> QED BY <3>1 DEF CopyInv, Copies, Fills
  <2>5. CASE Finish \/ UNCHANGED vars
    <3>1. UNCHANGED <<ins, df, acc, start, mem, left, cx>> /\ (phase = "idle" <=> phase' = "idle")
      BY <2>5 DEF Finish, vars
    <3>2. Rounds' = Rounds
      BY <3>1 DEF Rounds, Asked, Index, Width, WidthOf, Rep
    <3>3. Reached' = Reached
      BY <3>1, <3>2 DEF Reached
    <3> QED BY <3>1, <3>3, WindowFixed DEF CopyInv
  <2>6. CASE Leave
    BY <2>6 DEF Leave, CopyInv
  <2> QED BY <2>1, <2>2, <2>3, <2>4, <2>5, <2>6 DEF Next, Loop
<1>3. I => CopyTells
  <2> SUFFICES ASSUME I, Done, Whole("es", start.di) PROVE CopyTells
    BY DEF CopyTells
  <2> DEFINE b == Base["es"] + Lowest(start.di)
             a == Base[ins.seg] + Lowest(start.si)
             gap == IF df THEN a - b ELSE b - a
             Org(i) == IF gap \in 1 .. Total THEN i % gap ELSE i
             Source(i) == IF df THEN a + Total - 1 - Org(Total - 1 - i) ELSE a + Org(i)
  <2>1. TypeOK /\ phase # "idle" /\ Rounds = Handled
    BY DoneRounds DEF IInv, Done
  <2>2. ins.seg \in Seg /\ "es" \in Seg /\ start.si \in Reg /\ start.di \in Reg
        /\ ins.size \in {1, 2, 4} /\ Copied \in Nat
    BY <2>1, CopyTypes
  <2>3. ASSUME ins.op \in {"movs", "stos"}
        PROVE  /\ Reached = Total /\ Total = Copied /\ b = LowEnd("es", start.di)
               /\ a = LowEnd(ins.seg, start.si) /\ Fits("es", start.di)
               /\ Whole(ins.seg, start.si) => Fits(ins.seg, start.si)
               /\ gap = Ahead /\ \A i : Org(i) = Origin(i)
    <3>1. /\ Handled = Asked /\ Total = Copied /\ b = LowEnd("es", start.di)
          /\ a = LowEnd(ins.seg, start.si) /\ Fits("es", start.di)
          /\ Whole(ins.seg, start.si) => Fits(ins.seg, start.si)
      BY <2>2, <2>3, SameWindow
    <3>2. Reached = Total
      BY <2>1 DEF Reached, Total
    <3>3. gap = Ahead
      BY <3>1 DEF Ahead
    <3>4. \A i : Org(i) = Origin(i)
      BY <3>1, <3>3 DEF Origin
    <3> HIDE DEF gap, Org, a, b
    <3> QED BY <3>1, <3>2, <3>3, <3>4
  <2>4. ASSUME ins.op \in {"movs", "stos"}, NEW i \in 0 .. (Total - 1)
        PROVE  /\ b + i = Dst(IF df THEN Total - 1 - i ELSE i)
               /\ (IF df THEN Total - 1 - i ELSE i) \in 0 .. (Total - 1)
               /\ Source(i) = Src(Origin(IF df THEN Total - 1 - i ELSE i))
    <3>1. /\ Total = Copied /\ b = LowEnd("es", start.di) /\ a = LowEnd(ins.seg, start.si)
          /\ \A j : Org(j) = Origin(j)
      BY <2>3, <2>4
    <3>2. b \in Int /\ Total \in Int /\ i \in Int
      BY <2>1, <2>4, <3>1, CopyTypes, SMT
    <3>3. \A j : /\ Dst(j) = IF df THEN b + Total - 1 - j ELSE b + j
                 /\ Src(j) = IF df THEN a + Total - 1 - j ELSE a + j
      BY <3>1 DEF Dst, Src, Place
    <3>4. Source(i) = IF df THEN a + Total - 1 - Origin(Total - 1 - i) ELSE a + Origin(i)
      BY <3>1
    <3> HIDE DEF a, b, Org, Source
    <3>5. b + i = Dst(IF df THEN Total - 1 - i ELSE i)
      BY <3>2, <3>3, SMT
    <3>6. (IF df THEN Total - 1 - i ELSE i) \in 0 .. (Total - 1)
      BY <3>2, <2>4, SMT
    <3>7. Source(i) = Src(Origin(IF df THEN Total - 1 - i ELSE i))
      BY <3>3, <3>4
    <3> QED BY <3>5, <3>6, <3>7
  <2>5. ASSUME ins.op = "movs", Whole(ins.seg, start.si), gap >= ins.size \/ gap <= 0,
               NEW i \in 0 .. (Total - 1)
        PROVE  mem[b + i] = start.mem[Source(i)]
    <3>1. Copies /\ Reached = Total
      <4> HIDE DEF gap, Org, a, b
      <4> QED BY <2>3, <2>5 DEF Copies
    <3>2. \A j \in 0 .. (Total - 1) : mem[Dst(j)] = start.mem[Src(Origin(j))]
      BY <2>1, <3>1 DEF CopyInv
    <3> HIDE DEF gap, Source, a, b
    <3> QED BY <2>4, <2>5, <3>2
  <2>6. ASSUME ins.op = "stos", NEW i \in 0 .. (Total - 1)
        PROVE  mem[b + i] = acc[i % ins.size]
    <3>1. Fills /\ Reached = Total /\ b = LowEnd("es", start.di)
      <4> HIDE DEF gap, Org, a
      <4> QED BY <2>3, <2>6 DEF Fills
    <3>2. \A j \in 0 .. (Total - 1) : mem[Dst(j)] = acc[(Dst(j) - b) % ins.size]
      BY <2>1, <3>1 DEF CopyInv
    <3>3. b \in Int /\ i \in Int
      BY <2>1, <2>2, <2>6, <3>1, CopyTypes, SMT
    <3> HIDE DEF b, Source
    <3>4. b + i - b = i
      BY <3>3, SMT
    <3>5. ASSUME NEW j \in 0 .. (Total - 1), Dst(j) = b + i
          PROVE  mem[b + i] = acc[i % ins.size]
      <4>1. mem[Dst(j)] = acc[(Dst(j) - b) % ins.size]
        BY <3>2
      <4>2. Dst(j) - b = i
        BY <3>3, <3>4, <3>5
      <4> QED BY <4>1, <4>2, <3>5
    <3>6. \E j \in 0 .. (Total - 1) : Dst(j) = b + i
      BY <2>4, <2>6
    <3> QED BY <3>5, <3>6
  <2> HIDE DEF gap
  <2> QED BY <2>5, <2>6 DEF CopyTells, gap
<1> QED BY <1>1, <1>2, <1>3, OnlyDestinationChanges, PTL DEF Spec
=============================================================================
