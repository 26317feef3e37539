---------------------------- MODULE X86CalcProofs ---------------------------
(***************************************************************************)
(* Theorems about the primitives, for every operand size, operand and      *)
(* count: results stay in the operand size, the carry chain is the one of  *)
(* an adder, rotations are undone by their opposites, a shift by n is n    *)
(* shifts by 1.                                                            *)
(***************************************************************************)
EXTENDS X86CalcProps, X86Numbers

(* What a primitive hands back: a word of the operand size, and flags. *)
Fits(w, p)     == p.r \in Words(w) /\ p.f \in Flags
FitsBoth(w, p) == p.lo \in Words(w) /\ p.hi \in Words(w) /\ p.f \in Flags

-----------------------------------------------------------------------------
(* Bin, Up and Down cut to the width. *)
LEMMA PiecesFit ==
  ASSUME NEW w \in Nat, NEW d, NEW n
  PROVE  /\ Bin(w, n) \in Words(w) /\ Up(w, d, n) \in Words(w)
         /\ Down(w, d, n) \in Words(w) /\ Not(w, d) \in Words(w)
BY DEF Bin, Up, Down, Not, Words

(* Flags put together from conditions are flags. *)
LEMMA FlagsFit ==
  /\ \A c \in BOOLEAN, flag \in Flag : If(c, flag) \in Flags
  /\ \A f, g, h : f \in Flags /\ h \in Flags => Update(f, g, h) \in Flags
  /\ \A f, g : f \in Flags /\ g \in Flags => f \cup g \in Flags
  /\ \A f, g : f \in Flags => f \cap g \in Flags /\ f \ g \in Flags
BY DEF If, Flags, Flag, Update

LEMMA ConditionalFlag ==
  ASSUME NEW c, NEW flag \in Flag
  PROVE  If(c, flag) \in Flags
BY DEF If, Flags

LEMMA ZspFits ==
  ASSUME NEW w, NEW r
  PROVE  Zsp(w, r) \in Flags
BY ConditionalFlag, FlagsFit DEF Zsp, Flag

LEMMA ChainFits ==
  ASSUME NEW w, NEW c
  PROVE  Chain(w, c) \in Flags
BY ConditionalFlag, FlagsFit DEF Chain, Flag

(* Sums, differences and logic *)
LEMMA AddSubFit ==
  ASSUME NEW w \in Nat, NEW d, NEW s, NEW c, NEW f \in Flags
  PROVE  Fits(w, AddCarry(w, d, s, c, f)) /\ Fits(w, SubBorrow(w, d, s, c, f))
<1>1. Fits(w, AddCarry(w, d, s, c, f))
  BY PiecesFit, ZspFits, ChainFits, ConditionalFlag, FlagsFit
     DEF AddCarry, Fits, Result, Flag
<1>2. Fits(w, SubBorrow(w, d, s, c, f))
  BY PiecesFit, ZspFits, ChainFits, ConditionalFlag, FlagsFit
     DEF SubBorrow, Fits, Result, Flag
<1>3. QED BY <1>1, <1>2

LEMMA ArithmeticFits ==
  ASSUME NEW w \in Nat, NEW d \in Words(w), NEW s \in Words(w), NEW f \in Flags
  PROVE  /\ Fits(w, Add(w, d, s, f)) /\ Fits(w, Adc(w, d, s, f))
         /\ Fits(w, Sub(w, d, s, f)) /\ Fits(w, Sbb(w, d, s, f))
         /\ Fits(w, Cmp(w, d, s, f)) /\ Fits(w, Test(w, d, s, f))
         /\ Fits(w, Or(w, d, s, f))  /\ Fits(w, And(w, d, s, f))
         /\ Fits(w, XorOp(w, d, s, f))
<1>1. Fits(w, Add(w, d, s, f)) /\ Fits(w, Adc(w, d, s, f))
  BY AddSubFit DEF Add, Adc
<1>2. Fits(w, Sub(w, d, s, f)) /\ Fits(w, Sbb(w, d, s, f))
  BY AddSubFit DEF Sub, Sbb
<1>3. Fits(w, Cmp(w, d, s, f))
  BY <1>2 DEF Cmp, Fits, Result
<1>4. Fits(w, Test(w, d, s, f))
  BY ZspFits, FlagsFit DEF Test, Fits, Result
<1>5. Fits(w, Or(w, d, s, f)) /\ Fits(w, And(w, d, s, f)) /\ Fits(w, XorOp(w, d, s, f))
  <2>1. d \cup s \in Words(w) /\ d \cap s \in Words(w) /\ Xor(d, s) \in Words(w)
    BY DEF Words, Xor
  <2>2. QED BY <2>1, ZspFits DEF Or, And, XorOp, Fits, Result
<1>6. QED BY <1>1, <1>2, <1>3, <1>4, <1>5

LEMMA UnaryFits ==
  ASSUME NEW w \in Nat, NEW d, NEW f \in Flags
  PROVE  /\ Fits(w, Inc(w, d, f)) /\ Fits(w, Dec(w, d, f))
         /\ Fits(w, Result(Not(w, d), f)) /\ Fits(w, Neg(w, d, f))
<1>1. Fits(w, Inc(w, d, f))
  BY PiecesFit, ZspFits, ChainFits, FlagsFit DEF Inc, Fits, Result
<1>2. Fits(w, Dec(w, d, f))
  BY PiecesFit, ZspFits, ChainFits, FlagsFit DEF Dec, Fits, Result
<1>3. Fits(w, Result(Not(w, d), f))
  BY PiecesFit DEF Fits, Result
<1>4. Fits(w, Neg(w, d, f))
  BY PiecesFit, ZspFits, ChainFits, ConditionalFlag, FlagsFit DEF Neg, Fits, Result, Flag
<1>5. QED BY <1>1, <1>2, <1>3, <1>4

-----------------------------------------------------------------------------
(* Counts reduced modulo the width *)
LEMMA Reduced ==
  ASSUME NEW s \in Nat, NEW k \in Nat, k > 0
  PROVE  s % k \in 0 .. (k - 1)
OBVIOUS

LEMMA UnionFits ==
  ASSUME NEW w, NEW a \in Words(w), NEW b \in Words(w)
  PROVE  a \cup b \in Words(w)
BY DEF Words

LEMMA RotateFits ==
  ASSUME NEW w \in Nat, w > 0, NEW d \in Words(w), NEW s \in Nat, NEW f \in Flags,
         NEW x86 \in BOOLEAN
  PROVE  /\ Fits(w, Rol(w, d, s, f)) /\ Fits(w, Ror(w, d, s, f))
         /\ Fits(w, Rcl(w, d, s, f, x86)) /\ Fits(w, Rcr(w, d, s, f))
<1>1. \A g, c1, c2 : Update(f, g, If(c1, "CF") \cup If(c2, "OF")) \in Flags
  BY ConditionalFlag, FlagsFit DEF Flag
<1>2. Fits(w, Rol(w, d, s, f))
  BY <1>1, PiecesFit, UnionFits DEF Rol, Fits, Result
<1>3. Fits(w, Ror(w, d, s, f))
  BY <1>1, PiecesFit, UnionFits DEF Ror, Fits, Result
<1>4. s % (w + 1) \in 0 .. w
  BY Reduced
<1>5. Fits(w, Rcl(w, d, s, f, x86))
  <2> DEFINE n == s % (w + 1)
  <2>1. n # 0 => {i \in {n - 1} : "CF" \in f} \in Words(w)
    BY <1>4 DEF Words, Bits
  <2>2. QED BY <1>1, <2>1, PiecesFit, UnionFits DEF Rcl, Fits, Result
<1>6. Fits(w, Rcr(w, d, s, f))
  <2> DEFINE n == s % (w + 1)
  <2>1. n # 0 => {i \in {w - n} : "CF" \in f} \in Words(w)
    BY <1>4 DEF Words, Bits
  <2>2. QED BY <1>1, <2>1, PiecesFit, UnionFits DEF Rcr, Fits, Result
<1>7. QED BY <1>2, <1>3, <1>5, <1>6

LEMMA ShiftFits ==
  ASSUME NEW w \in Nat, w > 0, NEW d \in Words(w), NEW e \in Words(w),
         NEW s \in Nat, NEW f \in Flags, NEW x86 \in BOOLEAN
  PROVE  /\ Fits(w, ShiftUp(w, d, e, s, f, x86))
         /\ Fits(w, ShiftDown(w, d, e, s, f, x86))
         /\ Fits(w, Sar(w, d, s, f))
<1>1. Fits(w, ShiftUp(w, d, e, s, f, x86))
  <2>1. {} \in Words(w) /\ {"PF", "ZF"} \in Flags
    BY DEF Words, Flags, Flag
  <2>2. QED
    BY <2>1, PiecesFit, UnionFits, ConditionalFlag, FlagsFit, ZspFits
       DEF ShiftUp, Fits, Result, Flag
<1>2. Fits(w, ShiftDown(w, d, e, s, f, x86))
  <2>1. {} \in Words(w) /\ {"ZF"} \in Flags /\ {"PF"} \in Flags /\ {} \in Flags
    BY DEF Words, Flags, Flag
  <2>2. QED
    BY <2>1, PiecesFit, UnionFits, ConditionalFlag, FlagsFit, ZspFits
       DEF ShiftDown, Fits, Result, Flag
<1>3. Fits(w, Sar(w, d, s, f))
  <2> DEFINE n == s % w
  <2>1. n \in 0 .. (w - 1)
    BY Reduced
  <2>2. n # 0 => (IF Msb(w) \in d THEN (w - n) .. Msb(w) ELSE {}) \in Words(w)
    BY <2>1 DEF Words, Bits, Msb
  <2>3. QED
    BY <2>2, PiecesFit, UnionFits, ConditionalFlag, FlagsFit, ZspFits
       DEF Sar, Fits, Result, Flag
<1>4. QED BY <1>1, <1>2, <1>3

-----------------------------------------------------------------------------
LEMMA MultiplyFits ==
  ASSUME NEW w \in Nat, NEW d, NEW s
  PROVE  FitsBoth(w, Mul(w, d, s)) /\ FitsBoth(w, Imul(w, d, s))
<1>1. ASSUME NEW p, NEW big \in BOOLEAN
      PROVE  FitsBoth(w, MulResult(w, p, big))
  <2>1. (IF big THEN {"CF", "OF"} ELSE {}) \in Flags
    BY DEF Flags, Flag
  <2>2. QED
    BY <2>1, PiecesFit, ZspFits, ConditionalFlag, FlagsFit DEF MulResult, FitsBoth, Flag
<1>2. QED BY <1>1 DEF Mul, Imul

(* A division is done, with words in both registers, or leaves it at that. *)
LEMMA DivideFits ==
  ASSUME NEW w \in Nat, NEW d, NEW e, NEW s, NEW x86 \in BOOLEAN,
         NEW p \in {Div(w, d, e, s), Idiv(w, d, e, s, x86)}
  PROVE  /\ p.outcome \in {"done", "fault", "trap"}
         /\ p.outcome = "done" => p.lo \in Words(w) /\ p.hi \in Words(w)
<1>1. \A q, m : Done(w, q, m).lo \in Words(w) /\ Done(w, q, m).hi \in Words(w)
                /\ Done(w, q, m).outcome = "done"
  BY PiecesFit DEF Done
<1>2. Fault.outcome = "fault" /\ Trap.outcome = "trap"
  BY DEF Fault, Trap
<1>3. CASE p = Div(w, d, e, s)
  BY <1>1, <1>2, <1>3 DEF Div
<1>4. CASE p = Idiv(w, d, e, s, x86)
  BY <1>1, <1>2, <1>4 DEF Idiv
<1>5. QED BY <1>3, <1>4

LEMMA DecimalFits ==
  ASSUME NEW d, NEW e, NEW base, NEW sign, NEW f \in Flags
  PROVE  /\ Fits(Byte, Daa(d, f)) /\ Fits(Byte, Das(d, f))
         /\ FitsBoth(Byte, AaaAas(f, d, e, sign))
         /\ FitsBoth(Byte, Aad(d, e, base))
         /\ d \in Words(Byte) => FitsBoth(Byte, Aam(d, base))
<1>1. Byte \in Nat
  BY DEF Byte
<1>2. ASSUME NEW n, NEW k PROVE Fits(Byte, DaaDas(f, n, k))
  <2>1. \A r, half, full :
          Update(f, ZspFlags, Zsp(Byte, r)) \cup If(half, "AF") \cup If(full, "CF") \in Flags
    BY ZspFits, ConditionalFlag, FlagsFit DEF Flag
  <2>2. \A m : Bin(Byte, m) \in Words(Byte)
    BY <1>1, PiecesFit
  <2>3. QED BY <2>1, <2>2 DEF DaaDas, Fits, Result
<1>3. Fits(Byte, Daa(d, f)) /\ Fits(Byte, Das(d, f))
  BY <1>2 DEF Daa, Das
<1>4. FitsBoth(Byte, AaaAas(f, d, e, sign))
  <2> DEFINE adjust == Value[d] % 16 > 9 \/ "AF" \in f
             ax == Value[e] * 256 + Value[d] + (IF adjust THEN sign * 262 ELSE 0)
             lo == Bin(Byte, ax % 16)
             hi == Bin(Byte, ax \div 256)
             new == (IF adjust THEN {"CF", "AF"} ELSE {})
                      \cup If(lo = {} /\ hi = {}, "ZF") \cup If(Parity(lo), "PF")
             all == Update(f, {"CF", "AF", "SF", "ZF", "PF"}, new)
  <2>1. (IF adjust THEN {"CF", "AF"} ELSE {}) \in Flags
    BY DEF Flags, Flag
  <2>2. If(lo = {} /\ hi = {}, "ZF") \in Flags /\ If(Parity(lo), "PF") \in Flags
    BY ConditionalFlag DEF Flag
  <2>3. new \in Flags
    <3> HIDE DEF adjust, lo, hi
    <3>1. QED BY <2>1, <2>2, FlagsFit
  <2>4. all \in Flags
    <3> HIDE DEF new
    <3>1. QED BY <2>3, FlagsFit
  <2>5. lo \in Words(Byte) /\ hi \in Words(Byte)
    BY <1>1, PiecesFit, ZenonT(60)
  <2>6. AaaAas(f, d, e, sign) = [lo |-> lo, hi |-> hi, f |-> all]
    BY DEF AaaAas
  <2> HIDE DEF lo, hi, all
  <2>7. QED BY <2>4, <2>5, <2>6 DEF FitsBoth
<1>5. {} \in Words(Byte)
  BY DEF Words
<1>6. FitsBoth(Byte, Aad(d, e, base))
  BY <1>1, <1>5, PiecesFit, ZspFits DEF Aad, FitsBoth
<1>7. ASSUME d \in Words(Byte) PROVE FitsBoth(Byte, Aam(d, base))
  BY <1>1, <1>5, <1>7, PiecesFit, ZspFits, ConditionalFlag, FlagsFit
     DEF Aam, FitsBoth, Flag
<1>8. QED BY <1>3, <1>4, <1>6, <1>7

-----------------------------------------------------------------------------
(* Decimal numbers are calculated with in bytes only. *)
ByteCalc == calc.kind # "none" => size = Byte

IInv == TypeOK /\ ByteCalc

LEMMA SizeFacts ==
  ASSUME TypeOK
  PROVE  size \in Nat /\ size > 0 /\ size >= 4 /\ size <= MaxBits
BY WidthAssumption, ArgAssumption DEF TypeOK

LEMMA OperandFits ==
  ASSUME IInv, NEW s \in Operand
  PROVE  s \in Words(size)
BY SizeFacts, PiecesFit DEF IInv, ByteCalc, Operand, Bcd

LEMMA InitInv == Init => IInv
<1> SUFFICES ASSUME Init PROVE IInv
  OBVIOUS
<1>1. size \in Nat /\ Byte \in Nat
  BY WidthAssumption, ArgAssumption DEF Init, Byte
<1>2. acc \in Words(size)
  BY <1>1, PiecesFit DEF Init, Bcd
<1>3. ext \in Words(size)
  BY <1>1, PiecesFit DEF Init, Words
<1>4. flags \in Flags
  BY ArgAssumption DEF Init, Flags
<1>5. ByteCalc
  BY DEF Init, ByteCalc, NoCalc
<1>6. QED BY <1>2, <1>3, <1>4, <1>5 DEF Init, IInv, TypeOK

(* An instruction that writes what fits *)
LEMMA DoKeeps ==
  ASSUME IInv, NEW op, NEW s, NEW result, Do(op, s, result), Fits(size, result),
         calc'.kind # "none" => calc.kind # "none"
  PROVE  IInv'
BY DEF IInv, TypeOK, ByteCalc, Do, Fits

LEMMA BothKeeps ==
  ASSUME IInv, NEW op, NEW s, NEW result, Both(op, s, result), FitsBoth(size, result)
  PROVE  IInv'
BY DEF IInv, TypeOK, ByteCalc, Both, FitsBoth, NoCalc

(* Only a calculation goes on as one. *)
LEMMA CalcKept ==
  ASSUME NEW op, NEW s, NEW kind \in {"sum", "difference"}
  PROVE  /\ NoCalc.kind = "none"
         /\ Calculated(op, s).kind # "none" => calc.kind # "none"
         /\ Adjusted(kind).kind # "none" => calc.kind # "none"
<1>1. NoCalc.kind = "none"
  BY DEF NoCalc
<1>2. Calculated(op, s).kind # "none" => calc.kind # "none"
  BY <1>1 DEF Calculated
<1>3. Adjusted(kind).kind # "none" => calc.kind # "none"
  BY <1>1 DEF Adjusted
<1>4. QED BY <1>1, <1>2, <1>3

LEMMA StepInv == IInv /\ [Next]_vars => IInv'
<1> SUFFICES ASSUME IInv, [Next]_vars PROVE IInv'
  OBVIOUS
<1> USE SizeFacts DEF IInv
<1>a. acc \in Words(size) /\ ext \in Words(size) /\ flags \in Flags
  BY DEF TypeOK
<1>b. CountArg \subseteq Nat
  BY ArgAssumption
<1>1. ASSUME NEW op \in OpA, NEW s \in Operand, Arithmetic(op, s) PROVE IInv'
  <2>1. Fits(size, ResultA(op, s))
    BY <1>a, OperandFits, ArithmeticFits DEF ResultA, OpA
  <2>2. QED BY <1>1, <2>1, DoKeeps, CalcKept DEF Arithmetic
<1>2. ASSUME NEW op \in OpB, NEW n \in CountArg, NEW x86 \in BOOLEAN, Shift(op, n, x86)
      PROVE  IInv'
  <2>1. {} \in Words(size)
    BY DEF Words
  <2>2. Fits(size, ResultB(op, n, x86))
    BY <1>a, <1>b, <2>1, RotateFits, ShiftFits DEF ResultB, OpB, Shl, Shr
  <2>3. QED BY <1>2, <2>2, DoKeeps, CalcKept DEF Shift
<1>3. ASSUME NEW op \in {"shld", "shrd"}, NEW n \in CountArg, NEW x86 \in BOOLEAN,
             ShiftDouble(op, n, x86)
      PROVE  IInv'
  <2>1. Down(size, ext, size - n) \in Words(size) /\ Up(size, ext, size - n) \in Words(size)
    BY PiecesFit
  <2>2. Fits(size, Shld(size, acc, ext, n, flags, x86))
        /\ Fits(size, Shrd(size, acc, ext, n, flags, x86))
    BY <1>a, <1>b, <2>1, ShiftFits DEF Shld, Shrd
  <2>3. QED BY <1>3, <2>2, DoKeeps, CalcKept DEF ShiftDouble
<1>4. ASSUME NEW op \in OpUnary, Unary(op) PROVE IInv'
  BY <1>4, <1>a, UnaryFits, DoKeeps, CalcKept DEF Unary, OpUnary
<1>5. ASSUME NEW s \in Operand, TestOp(s) PROVE IInv'
  <2>1. Fits(size, Test(size, acc, s, flags))
    BY <1>a, OperandFits, ArithmeticFits
  <2>2. QED BY <1>5, <2>1, DoKeeps, CalcKept DEF TestOp
<1>6. ASSUME NEW op \in {"clc", "stc", "cmc"}, CarryOp(op) PROVE IInv'
  <2> DEFINE set == op = "stc" \/ (op = "cmc" /\ "CF" \notin flags)
  <2>1. Fits(size, Result(acc, Update(flags, {"CF"}, If(set, "CF"))))
    BY <1>a, ConditionalFlag, FlagsFit DEF Fits, Result, Flag
  <2>2. calc'.kind # "none" => calc.kind # "none"
    BY <1>6 DEF CarryOp, NoCalc
  <2>3. QED BY <1>6, <2>1, <2>2, DoKeeps DEF CarryOp
<1>7. ASSUME NEW type \in Condition, SetCc(type) PROVE IInv'
  <2>1. Fits(size, Result(IF Holds(type, flags) THEN {0} ELSE {}, flags))
    BY <1>a DEF Fits, Result, Words, Bits
  <2>2. QED BY <1>7, <2>1, DoKeeps, CalcKept DEF SetCc
<1>8. ASSUME NEW op \in {"mul", "imul"}, NEW s \in Operand, Multiply(op, s) PROVE IInv'
  BY <1>8, MultiplyFits, BothKeeps DEF Multiply
<1>9. ASSUME NEW s \in Operand, MultiplyDirect(s) PROVE IInv'
  <2>1. Fits(size, Result(Imul(size, acc, s).lo, Imul(size, acc, s).f))
    BY MultiplyFits DEF FitsBoth, Fits, Result
  <2>2. QED BY <1>9, <2>1, DoKeeps, CalcKept DEF MultiplyDirect
<1>10. ASSUME NEW op \in {"div", "idiv"}, NEW s \in Operand, NEW x86 \in BOOLEAN,
              Divide(op, s, x86)
       PROVE  IInv'
  <2> DEFINE d == IF op = "div" THEN Div(size, acc, ext, s) ELSE Idiv(size, acc, ext, s, x86)
  <2>1. /\ d.outcome \in {"done", "fault", "trap"}
        /\ d.outcome = "done" => d.lo \in Words(size) /\ d.hi \in Words(size)
    BY DivideFits
  <2>2. /\ outcome' = d.outcome /\ size' = size /\ flags' = flags /\ calc' = NoCalc
        /\ IF d.outcome = "done" THEN acc' = d.lo /\ ext' = d.hi ELSE UNCHANGED <<acc, ext>>
    BY <1>10 DEF Divide
  <2> HIDE DEF d
  <2>3. QED BY <2>1, <2>2, CalcKept DEF TypeOK, ByteCalc
<1>11. ASSUME NEW op \in {"daa", "das"}, DecimalAdjust(op) PROVE IInv'
  BY <1>11, <1>a, DecimalFits, DoKeeps, CalcKept DEF DecimalAdjust
<1>12. ASSUME NEW op \in {"aaa", "aas"}, AsciiAdjust(op) PROVE IInv'
  BY <1>12, <1>a, DecimalFits, BothKeeps DEF AsciiAdjust
<1>13. ASSUME NEW op \in {"aad", "aam"}, NEW base \in BaseArg, NEW x86 \in BOOLEAN,
              BaseAdjust(op, base, x86)
       PROVE  IInv'
  <2>1. CASE op = "aam" /\ base = 0 /\ x86
    BY <1>13, <2>1, CalcKept DEF BaseAdjust, TypeOK, ByteCalc
  <2>2. CASE ~(op = "aam" /\ base = 0 /\ x86)
    BY <1>13, <1>a, <2>2, DecimalFits, BothKeeps DEF BaseAdjust
  <2>3. QED BY <2>1, <2>2
<1>14. ASSUME Reset PROVE IInv'
  BY <1>14, CalcKept DEF Reset, TypeOK, ByteCalc, Words, Flags
<1>15. CASE UNCHANGED vars
  BY <1>15 DEF vars, TypeOK, ByteCalc, Words, Bits
<1>16. QED
  BY <1>1, <1>2, <1>3, <1>4, <1>5, <1>6, <1>7, <1>8, <1>9, <1>10, <1>11, <1>12,
     <1>13, <1>14, <1>15 DEF Next

(* For every operand size, count and operand: registers stay in the        *)
(* operand size and flags are flags, whatever the primitives of prim_ops.c *)
(* are applied to and in whatever order.                                   *)
THEOREM CalcTypeCorrect == Spec => []TypeOK
<1>1. IInv => TypeOK
  BY DEF IInv
<1>2. QED BY InitInv, StepInv, <1>1, PTL DEF Spec

-----------------------------------------------------------------------------
(* A ripple carry adder and subtractor: the carry or borrow into bit i is  *)
(* i \in k, as in the tables of prim_ops.c:49 and prim_ops.c:75.            *)
Ripples(w, d, s, r, k, subtract) ==
  \A i \in Bits(w) :
    LET a == IF subtract THEN i \notin d ELSE i \in d
    IN  /\ i \in r <=> (((i \in d) # (i \in s)) # (i \in k))
        /\ i + 1 \in k <=> (a /\ i \in s) \/ (i \in k /\ (a \/ i \in s))

(* The formulas of prim_ops.c:67 and :94, that find the carries from       *)
(* operands and result, give the carries of a ripple carry adder, bit by   *)
(* bit and for every width; the shorter one of neg_byte() is that of a     *)
(* subtraction from 0.  CF, OF and AF of all sums and differences are      *)
(* bits of these words.                                                    *)
THEOREM CarryChain ==
  ASSUME NEW w \in Nat, NEW d \in Words(w), NEW s \in Words(w), NEW r \in Words(w),
         NEW k \in SUBSET (0 .. w), NEW subtract \in BOOLEAN,
         Ripples(w, d, s, r, k, subtract)
  PROVE  /\ ~subtract => Carries(w, d, s, r) = {i \in Bits(w) : i + 1 \in k}
         /\ subtract  => Borrows(w, d, s, r) = {i \in Bits(w) : i + 1 \in k}
         /\ subtract /\ d = {} => r \cup s = {i \in Bits(w) : i + 1 \in k}
<1>1. d \subseteq Bits(w) /\ s \subseteq Bits(w) /\ r \subseteq Bits(w)
  BY DEF Words
<1>2. ASSUME ~subtract PROVE Carries(w, d, s, r) = {i \in Bits(w) : i + 1 \in k}
  <2>1. \A i \in Bits(w) : i \in Carries(w, d, s, r) <=> i + 1 \in k
    BY <1>2 DEF Carries, Not, Ripples
  <2>2. Carries(w, d, s, r) \subseteq Bits(w)
    BY <1>1 DEF Carries, Not
  <2>3. QED BY <2>1, <2>2
<1>3. ASSUME subtract PROVE Borrows(w, d, s, r) = {i \in Bits(w) : i + 1 \in k}
  <2>1. \A i \in Bits(w) : i \in Borrows(w, d, s, r) <=> i + 1 \in k
    BY <1>3 DEF Borrows, Not, Ripples
  <2>2. Borrows(w, d, s, r) \subseteq Bits(w)
    BY <1>1 DEF Borrows, Not
  <2>3. QED BY <2>1, <2>2
<1>4. ASSUME subtract, d = {} PROVE r \cup s = {i \in Bits(w) : i + 1 \in k}
  BY <1>1, <1>3, <1>4 DEF Borrows, Not
<1>5. QED BY <1>2, <1>3, <1>4

-----------------------------------------------------------------------------
(* Turning a word by n and by w - n positions *)
LEMMA TurnBack ==
  ASSUME NEW w \in Nat, NEW n \in 1 .. (w - 1), NEW d \in Words(w)
  PROVE  LET r == Up(w, d, n) \cup Down(w, d, w - n)
         IN  Up(w, r, w - n) \cup Down(w, r, n) = d
<1> DEFINE r == Up(w, d, n) \cup Down(w, d, w - n)
<1>1. \A i \in Int : i \in r <=> i \in 0 .. (w - 1) /\ (i - n \in d \/ i + (w - n) \in d)
  BY DEF Up, Down, Bits
<1> HIDE DEF r
<1>2. d \subseteq 0 .. (w - 1)
  BY DEF Words, Bits
<1>3. \A i \in 0 .. (w - 1) :
        i \in Up(w, r, w - n) \cup Down(w, r, n) <=> i - (w - n) \in r \/ i + n \in r
  BY DEF Up, Down, Bits
<1>4. \A i \in 0 .. (w - 1) : i - (w - n) \in r \/ i + n \in r <=> i \in d
  <2> TAKE i \in 0 .. (w - 1)
  <2>1. i - (w - n) \in r <=> i - (w - n) >= 0 /\ (i - w \in d \/ i \in d)
    BY <1>1
  <2>2. i + n \in r <=> i + n <= w - 1 /\ (i \in d \/ i + w \in d)
    BY <1>1
  <2>3. QED BY <1>2, <2>1, <2>2
<1>5. Up(w, r, w - n) \cup Down(w, r, n) \subseteq 0 .. (w - 1)
  BY DEF Up, Down, Bits
<1>6. QED BY <1>2, <1>3, <1>4, <1>5 DEF r

(* The words RCL and RCR leave, n the reduced count: n - 1 is the position *)
(* the carry enters on the way up and leaves on the way down, w - n the    *)
(* other way round.                                                        *)
RclWord(w, d, n, f) == Up(w, d, n) \cup Down(w, d, w + 1 - n) \cup {i \in {n - 1} : "CF" \in f}
RcrWord(w, d, n, f) == Down(w, d, n) \cup Up(w, d, w + 1 - n) \cup {i \in {w - n} : "CF" \in f}

LEMMA CarryTurnedBack ==
  ASSUME NEW w \in Nat, NEW n \in 1 .. w, NEW d \in Words(w), NEW f
  PROVE  /\ \A g : ("CF" \in g <=> w - n \in d) => RcrWord(w, RclWord(w, d, n, f), n, g) = d
         /\ n - 1 \in RclWord(w, d, n, f) <=> "CF" \in f
         /\ \A g : ("CF" \in g <=> n - 1 \in d) => RclWord(w, RcrWord(w, d, n, f), n, g) = d
         /\ w - n \in RcrWord(w, d, n, f) <=> "CF" \in f
<1> DEFINE up   == RclWord(w, d, n, f)
           down == RcrWord(w, d, n, f)
           back(g) == RcrWord(w, up, n, g)
           forth(g) == RclWord(w, down, n, g)
<1>1. d \subseteq 0 .. (w - 1)
  BY DEF Words, Bits
<1>2. \A i \in Int : i \in up <=>
        i \in 0 .. (w - 1) /\ (i - n \in d \/ i + (w + 1 - n) \in d \/ (i = n - 1 /\ "CF" \in f))
  BY DEF RclWord, RcrWord, Up, Down, Bits
<1>3. \A i \in Int : i \in down <=>
        i \in 0 .. (w - 1) /\ (i + n \in d \/ i - (w + 1 - n) \in d \/ (i = w - n /\ "CF" \in f))
  BY DEF RclWord, RcrWord, Up, Down, Bits
<1> HIDE DEF up, down
<1>4. \A g : \A i \in 0 .. (w - 1) :
        i \in back(g) <=> i + n \in up \/ i - (w + 1 - n) \in up \/ (i = w - n /\ "CF" \in g)
  BY DEF RcrWord, Up, Down, Bits
<1>5. \A g : \A i \in 0 .. (w - 1) :
        i \in forth(g) <=> i - n \in down \/ i + (w + 1 - n) \in down \/ (i = n - 1 /\ "CF" \in g)
  BY DEF RclWord, Up, Down, Bits
<1>6. \A g : back(g) \subseteq 0 .. (w - 1) /\ forth(g) \subseteq 0 .. (w - 1)
  BY DEF RclWord, RcrWord, Up, Down, Bits
<1> HIDE DEF back, forth
<1>7. ASSUME NEW g, "CF" \in g <=> w - n \in d PROVE back(g) = d
  <2>1. \A i \in 0 .. (w - 1) : i \in back(g) <=> i \in d
    <3> TAKE i \in 0 .. (w - 1)
    <3>1. i + n \in up <=> i + n <= w - 1 /\ (i \in d \/ i + (w + 1) \in d)
      BY <1>2
    <3>2. i - (w + 1 - n) \in up <=> i - (w + 1 - n) >= 0 /\ (i - (w + 1) \in d \/ i \in d)
      BY <1>2
    <3>3. QED BY <1>1, <1>4, <1>7, <3>1, <3>2
  <2>2. QED BY <1>1, <1>6, <2>1
<1>8. ASSUME NEW g, "CF" \in g <=> n - 1 \in d PROVE forth(g) = d
  <2>1. \A i \in 0 .. (w - 1) : i \in forth(g) <=> i \in d
    <3> TAKE i \in 0 .. (w - 1)
    <3>1. i - n \in down <=> i - n >= 0 /\ (i \in d \/ i - (w + 1) \in d)
      BY <1>3
    <3>2. i + (w + 1 - n) \in down <=>
            i + (w + 1 - n) <= w - 1 /\ (i + (w + 1) \in d \/ i \in d)
      BY <1>3
    <3>3. QED BY <1>1, <1>5, <1>8, <3>1, <3>2
  <2>2. QED BY <1>1, <1>6, <2>1
<1>9. n - 1 \in up <=> "CF" \in f
  BY <1>1, <1>2
<1>10. w - n \in down <=> "CF" \in f
  BY <1>1, <1>3
<1>11. QED BY <1>7, <1>8, <1>9, <1>10 DEF back, forth, up, down

LEMMA RotateUndone ==
  ASSUME NEW w \in Nat, w > 0, NEW d \in Words(w), NEW s \in Nat, NEW f, NEW g
  PROVE  /\ Ror(w, Rol(w, d, s, f).r, s, g).r = d
         /\ Rol(w, Ror(w, d, s, f).r, s, g).r = d
<1> DEFINE n == s % w
           rol(e) == IF n = 0 THEN e ELSE Up(w, e, n) \cup Down(w, e, w - n)
           ror(e) == IF n = 0 THEN e ELSE Up(w, e, w - n) \cup Down(w, e, n)
<1>1. n \in 0 .. (w - 1) /\ (s = 0 => n = 0)
  BY Reduced
<1>2. \A e, h : Rol(w, e, s, h).r = rol(e) /\ Ror(w, e, s, h).r = ror(e)
  BY <1>1 DEF Rol, Ror, Result
<1>3. ror(rol(d)) = d /\ rol(ror(d)) = d
  <2>1. CASE n = 0
    BY <2>1
  <2>2. CASE n # 0
    <3> HIDE DEF n
    <3>1. n \in 1 .. (w - 1) /\ w - n \in 1 .. (w - 1) /\ w - (w - n) = n
      BY <1>1, <2>2
    <3>2. ror(rol(d)) = d
      BY <2>2, <3>1, TurnBack
    <3>3. rol(ror(d)) = d
      <4>1. LET r == Up(w, d, w - n) \cup Down(w, d, w - (w - n))
            IN  Up(w, r, w - (w - n)) \cup Down(w, r, w - n) = d
        BY <3>1, TurnBack
      <4>2. QED BY <2>2, <3>1, <4>1
    <3>4. QED BY <3>2, <3>3
  <2>3. QED BY <2>1, <2>2
<1>4. QED BY <1>2, <1>3

LEMMA RotateCarryUndone ==
  ASSUME NEW w \in Nat, NEW d \in Words(w), NEW s \in Nat, NEW f, NEW x86 \in BOOLEAN,
         s % (w + 1) < Wide
  PROVE  /\ LET up == Rcl(w, d, s, f, x86)
                back == Rcr(w, up.r, s, up.f)
            IN  back.r = d /\ ("CF" \in back.f <=> "CF" \in f)
         /\ LET down == Rcr(w, d, s, f)
                back == Rcl(w, down.r, s, down.f, x86)
            IN  back.r = d /\ ("CF" \in back.f <=> "CF" \in f)
<1> DEFINE n == s % (w + 1)
<1>1. n \in 0 .. w /\ HostCount(n, x86) = n
  BY WidthAssumption, Reduced DEF HostCount
<1>2. CASE n = 0
  BY <1>2 DEF Rcl, Rcr, Result
<1>3. CASE n # 0
  <2>1. \A e, h : /\ Rcl(w, e, s, h, x86).r = RclWord(w, e, n, h)
                  /\ "CF" \in Rcl(w, e, s, h, x86).f <=> w - n \in e
    <3> TAKE e, h
    <3> DEFINE r == RclWord(w, e, n, h)
               cf == w - n \in e
               of == n = 1 /\ cf # (Msb(w) \in r)
    <3>1. Rcl(w, e, s, h, x86)
            = [r |-> r, f |-> Update(h, RotateFlags, If(cf, "CF") \cup If(of, "OF"))]
      BY <1>1, <1>3 DEF Rcl, Result, RclWord
    <3>2. "CF" \in Update(h, RotateFlags, If(cf, "CF") \cup If(of, "OF")) <=> cf
      BY DEF Update, RotateFlags, If
    <3> HIDE DEF of, cf
    <3>3. QED BY <3>1, <3>2 DEF cf
  <2>2. \A e, h : /\ Rcr(w, e, s, h).r = RcrWord(w, e, n, h)
                  /\ "CF" \in Rcr(w, e, s, h).f <=> n - 1 \in e
    <3> TAKE e, h
    <3> DEFINE r == RcrWord(w, e, n, h)
               g == IF n = 1 THEN RotateFlags ELSE {"CF"}
               cf == n - 1 \in e
               of == n = 1 /\ ("CF" \in h) # (Msb(w) \in e)
    <3>1. Rcr(w, e, s, h) = [r |-> r, f |-> Update(h, g, If(cf, "CF") \cup If(of, "OF"))]
      BY <1>1, <1>3 DEF Rcr, Result, RcrWord
    <3>2. "CF" \in Update(h, g, If(cf, "CF") \cup If(of, "OF")) <=> cf
      BY DEF Update, RotateFlags, If
    <3> HIDE DEF g, of, cf
    <3>3. QED BY <3>1, <3>2 DEF cf
  <2> HIDE DEF n
  <2>3. n \in 1 .. w
    BY <1>1, <1>3
  <2> DEFINE up == Rcl(w, d, s, f, x86)
             down == Rcr(w, d, s, f)
  <2>4. /\ "CF" \in up.f <=> w - n \in d
        /\ "CF" \in down.f <=> n - 1 \in d
        /\ up.r = RclWord(w, d, n, f) /\ down.r = RcrWord(w, d, n, f)
    BY <2>1, <2>2
  <2> HIDE DEF up, down
  <2>5. /\ RcrWord(w, up.r, n, up.f) = d /\ RclWord(w, down.r, n, down.f) = d
        /\ n - 1 \in up.r <=> "CF" \in f
        /\ w - n \in down.r <=> "CF" \in f
    <3>1. "CF" \in up.f <=> w - n \in d
      BY <2>4
    <3>2. "CF" \in down.f <=> n - 1 \in d
      BY <2>4
    <3>3. RcrWord(w, RclWord(w, d, n, f), n, up.f) = d
      BY <2>3, <3>1, CarryTurnedBack
    <3>4. RclWord(w, RcrWord(w, d, n, f), n, down.f) = d
      BY <2>3, <3>2, CarryTurnedBack
    <3>5. n - 1 \in RclWord(w, d, n, f) <=> "CF" \in f
      BY <2>3, CarryTurnedBack
    <3>6. w - n \in RcrWord(w, d, n, f) <=> "CF" \in f
      BY <2>3, CarryTurnedBack
    <3>7. QED BY <2>4, <3>3, <3>4, <3>5, <3>6
  <2>6. QED BY <2>1, <2>2, <2>5 DEF up, down
<1>4. QED BY <1>2, <1>3

LEMMA StepUndone ==
  ASSUME IInv, Next
  PROVE  LET op == ins'.op
             n  == ins'.s
         IN  op \in DOMAIN Opposite /\ Regular(op, n) /\ Regular(Opposite[op], n) =>
               LET back == StepB(Opposite[op], acc', n, flags')
               IN  back.r = acc /\ (op \in {"rcl", "rcr"} => Carry(back.f) = Carry(flags))
<1> DEFINE op == ins'.op
           n  == ins'.s
           back == StepB(Opposite[op], acc', n, flags')
<1> SUFFICES ASSUME op \in {"rol", "ror", "rcl", "rcr"},
                    Regular(op, n), Regular(Opposite[op], n)
             PROVE  back.r = acc /\ (op \in {"rcl", "rcr"} => Carry(back.f) = Carry(flags))
  BY DEF Opposite
<1>1. size \in Nat /\ size > 0 /\ acc \in Words(size)
  BY SizeFacts DEF IInv, TypeOK
<1>2. PICK x86 \in BOOLEAN : n \in CountArg /\ Shift(op, n, x86)
  BY DEF Next, Arithmetic, Shift, ShiftDouble, Unary, TestOp, CarryOp, SetCc, Multiply,
         MultiplyDirect, Divide, DecimalAdjust, AsciiAdjust, BaseAdjust, Reset, Do, Both,
         OpA, OpB, OpUnary
<1>3. n \in Nat /\ acc' = ResultB(op, n, x86).r /\ flags' = ResultB(op, n, x86).f
  BY <1>2, ArgAssumption DEF Shift, Do
<1>4. op \in {"rcl", "rcr"} => n % (size + 1) < Wide
  BY DEF Regular, Opposite
<1> HIDE DEF op, n
<1>5. CASE op = "rol"
  <2>1. back = Ror(size, acc', n, flags') /\ acc' = Rol(size, acc, n, flags).r
    BY <1>3, <1>5 DEF StepB, Opposite, ResultB
  <2>2. QED BY <1>1, <1>3, <1>5, <2>1, RotateUndone
<1>6. CASE op = "ror"
  <2>1. back = Rol(size, acc', n, flags') /\ acc' = Ror(size, acc, n, flags).r
    BY <1>3, <1>6 DEF StepB, Opposite, ResultB
  <2>2. QED BY <1>1, <1>3, <1>6, <2>1, RotateUndone
<1>7. CASE op = "rcl"
  <2>1. /\ back = Rcr(size, acc', n, flags')
        /\ acc' = Rcl(size, acc, n, flags, x86).r /\ flags' = Rcl(size, acc, n, flags, x86).f
    BY <1>3, <1>7 DEF StepB, Opposite, ResultB
  <2>2. back.r = acc /\ ("CF" \in back.f <=> "CF" \in flags)
    BY <1>1, <1>3, <1>4, <1>7, <2>1, RotateCarryUndone
  <2>3. QED BY <2>2 DEF Carry
<1>8. CASE op = "rcr"
  <2>1. /\ back = Rcl(size, acc', n, flags', FALSE)
        /\ acc' = Rcr(size, acc, n, flags).r /\ flags' = Rcr(size, acc, n, flags).f
    BY <1>3, <1>8 DEF StepB, Opposite, ResultB
  <2>2. LET up   == Rcl(size, acc, n, flags, FALSE)
            down == Rcr(size, acc, n, flags)
            bup  == Rcr(size, up.r, n, up.f)
            bdn  == Rcl(size, down.r, n, down.f, FALSE)
        IN  /\ bup.r = acc /\ ("CF" \in bup.f <=> "CF" \in flags)
            /\ bdn.r = acc /\ ("CF" \in bdn.f <=> "CF" \in flags)
    BY <1>1, <1>3, <1>4, <1>8, RotateCarryUndone
  <2> HIDE DEF back
  <2>3. back.r = acc /\ ("CF" \in back.f <=> "CF" \in flags)
    BY <2>1, <2>2
  <2>4. QED BY <2>3 DEF Carry
<1>9. QED BY <1>5, <1>6, <1>7, <1>8

(* Every rotation, of any operand size and by any count the code accepts,  *)
(* is undone by the opposite rotation with the same count: prim_ops.c:830  *)
(* to 1246 lose no bit, and RCL and RCR do not lose the carry.             *)
THEOREM RotationsAreUndone == Spec => RotationUndone
<1>1. IInv /\ [Next]_vars =>
        [LET op == ins'.op
             n  == ins'.s
         IN  op \in DOMAIN Opposite /\ Regular(op, n) /\ Regular(Opposite[op], n) =>
               LET back == StepB(Opposite[op], acc', n, flags')
               IN  back.r = acc
                   /\ (op \in {"rcl", "rcr"} => Carry(back.f) = Carry(flags))]_vars
  BY StepUndone
<1>2. QED BY InitInv, StepInv, <1>1, PTL DEF Spec, RotationUndone

-----------------------------------------------------------------------------
(* Shifts and rotations one position at a time *)

(* The k bits e turned by n positions, up or down *)
TurnedUp(k, n, e, r)   == \A i \in 0 .. (k - 1) : i \in r <=> i - n \in e \/ i + (k - n) \in e
TurnedDown(k, n, e, r) == \A i \in 0 .. (k - 1) : i \in r <=> i + n \in e \/ i - (k - n) \in e

(* 1 is its own remainder. *)
LEMMA OneModulo ==
  ASSUME NEW k \in Nat, k > 1
  PROVE  1 % k = 1
OBVIOUS

(* A count one higher, modulo k *)
LEMMA NextModulo ==
  ASSUME NEW m \in Nat, NEW k \in Nat, k > 1
  PROVE  /\ m % k \in 0 .. (k - 1) /\ (m + 1) % k \in 0 .. (k - 1)
         /\ (m % k) = k - 1 => (m + 1) % k = 0
         /\ m % k # k - 1 => (m + 1) % k = (m % k) + 1
<1> DEFINE q == m \div k
           n == m % k
<1>1. q \in Int /\ n \in 0 .. (k - 1) /\ m = (k * q) + n
  OBVIOUS
<1>2. \A p \in Int, z \in 0 .. (k - 1) : ((k * p) + z) % k = z
  OBVIOUS
<1> QED BY <1>1, <1>2, SMTT(60)

(* Turned up by 1 and then by m is turned by m + 1, counts modulo k. *)
LEMMA TurnUpStep ==
  ASSUME NEW k \in Nat, k > 1, NEW m \in Nat, NEW e, NEW one, NEW all, NEW rest,
         e \subseteq 0 .. (k - 1), one \subseteq 0 .. (k - 1), all \subseteq 0 .. (k - 1),
         rest \subseteq 0 .. (k - 1),
         TurnedUp(k, 1, e, one), TurnedUp(k, (m + 1) % k, e, all),
         TurnedUp(k, m % k, one, rest)
  PROVE  all = rest
<1> DEFINE n == m % k
           j == (m + 1) % k
<1>1. /\ n \in 0 .. (k - 1) /\ j \in 0 .. (k - 1)
      /\ n = k - 1 => j = 0
      /\ n # k - 1 => j = n + 1
  BY NextModulo
<1>2. TurnedUp(k, j, e, all) /\ TurnedUp(k, n, one, rest)
  OBVIOUS
<1> HIDE DEF n, j
<1>3. ASSUME NEW i \in 0 .. (k - 1) PROVE i \in all <=> i \in rest
  <2>1. i \in rest <=> i - n \in one \/ i + (k - n) \in one
    BY <1>2 DEF TurnedUp
  <2>2. i \in all <=> i - j \in e \/ i + (k - j) \in e
    BY <1>2 DEF TurnedUp
  <2>3. /\ i - n \in one <=> i - n >= 0 /\ (i - n - 1 \in e \/ i - n + (k - 1) \in e)
        /\ i + (k - n) \in one <=>
             i + (k - n) <= k - 1 /\ (i + (k - n) - 1 \in e \/ i + (k - n) + (k - 1) \in e)
    BY <1>1 DEF TurnedUp
  <2>4. CASE n = k - 1
    <3>1. j = 0
      BY <1>1, <2>4
    <3>2. i \in all <=> i \in e
      BY <2>2, <3>1
    <3>3. i - n \in one <=> i = k - 1 /\ i \in e
      BY <2>3, <2>4
    <3>4. i + (k - n) \in one <=> i < k - 1 /\ i \in e
      BY <2>3, <2>4
    <3> QED BY <2>1, <3>2, <3>3, <3>4
  <2>5. CASE n # k - 1
    <3>1. j = n + 1
      BY <1>1, <2>5
    <3> QED BY <1>1, <2>1, <2>2, <2>3, <2>5, <3>1
  <2> QED BY <2>4, <2>5
<1> QED BY <1>3

(* Turned down by 1 and then by m is turned by m + 1, counts modulo k. *)
LEMMA TurnDownStep ==
  ASSUME NEW k \in Nat, k > 1, NEW m \in Nat, NEW e, NEW one, NEW all, NEW rest,
         e \subseteq 0 .. (k - 1), one \subseteq 0 .. (k - 1), all \subseteq 0 .. (k - 1),
         rest \subseteq 0 .. (k - 1),
         TurnedDown(k, 1, e, one), TurnedDown(k, (m + 1) % k, e, all),
         TurnedDown(k, m % k, one, rest)
  PROVE  all = rest
<1> DEFINE n == m % k
           j == (m + 1) % k
<1>1. /\ n \in 0 .. (k - 1) /\ j \in 0 .. (k - 1)
      /\ n = k - 1 => j = 0
      /\ n # k - 1 => j = n + 1
  BY NextModulo
<1>2. TurnedDown(k, j, e, all) /\ TurnedDown(k, n, one, rest)
  OBVIOUS
<1> HIDE DEF n, j
<1>3. ASSUME NEW i \in 0 .. (k - 1) PROVE i \in all <=> i \in rest
  <2>1. i \in rest <=> i + n \in one \/ i - (k - n) \in one
    BY <1>2 DEF TurnedDown
  <2>2. i \in all <=> i + j \in e \/ i - (k - j) \in e
    BY <1>2 DEF TurnedDown
  <2>3. /\ i + n \in one <=> i + n <= k - 1 /\ (i + n + 1 \in e \/ i + n - (k - 1) \in e)
        /\ i - (k - n) \in one <=>
             i - (k - n) >= 0 /\ (i - (k - n) + 1 \in e \/ i - (k - n) - (k - 1) \in e)
    BY <1>1 DEF TurnedDown
  <2>4. CASE n = k - 1
    <3>1. j = 0
      BY <1>1, <2>4
    <3>2. i \in all <=> i \in e
      BY <2>2, <3>1
    <3>3. i + n \in one <=> i = 0 /\ i \in e
      BY <2>3, <2>4
    <3>4. i - (k - n) \in one <=> i > 0 /\ i \in e
      BY <2>3, <2>4
    <3> QED BY <2>1, <3>2, <3>3, <3>4
  <2>5. CASE n # k - 1
    <3>1. j = n + 1
      BY <1>1, <2>5
    <3> QED BY <1>1, <2>1, <2>2, <2>3, <2>5, <3>1
  <2> QED BY <2>4, <2>5
<1> QED BY <1>3

(* The word and the flags of ROL and ROR by more than 0 *)
LEMMA RolIs ==
  ASSUME NEW w \in Nat, w > 1, NEW d \in Words(w), NEW s \in Nat \ {0}, NEW f
  PROVE  LET p == Rol(w, d, s, f)
         IN  /\ p.r \in Words(w)
             /\ TurnedUp(w, s % w, d, p.r)
             /\ "CF" \in p.f <=> 0 \in p.r
             /\ \A x : x \notin {"CF", "OF"} => (x \in p.f <=> x \in f)
<1> DEFINE n == s % w
           r == IF n = 0 THEN d ELSE Up(w, d, n) \cup Down(w, d, w - n)
           g == IF s = 1 THEN RotateFlags ELSE {"CF"}
           of == s = 1 /\ (0 \in r) # (Msb(w) \in r)
           new == If(0 \in r, "CF") \cup If(of, "OF")
<1>1. n \in 0 .. (w - 1) /\ d \subseteq 0 .. (w - 1)
  BY Reduced DEF Words, Bits
<1>2. Rol(w, d, s, f) = [r |-> r, f |-> Update(f, g, new)]
  BY DEF Rol, Result
<1> HIDE DEF n
<1>3. /\ r \in Words(w)
      /\ TurnedUp(w, n, d, r)
  <2>1. CASE n = 0
    BY <1>1, <2>1 DEF Words, Bits, TurnedUp, TurnedDown
  <2>2. CASE n # 0
    BY <1>1, <2>2 DEF Up, Down, Words, Bits, TurnedUp, TurnedDown
  <2> QED BY <2>1, <2>2
<1> HIDE DEF r, of
<1>4. "CF" \in Update(f, g, new) <=> 0 \in r
  BY DEF Update, RotateFlags, If
<1>5. \A x : x \notin {"CF", "OF"} => (x \in Update(f, g, new) <=> x \in f)
  BY DEF Update, RotateFlags, If
<1> HIDE DEF g, new
<1> QED BY <1>2, <1>3, <1>4, <1>5 DEF n

(* ... by ROR: the last bit out is the top one. *)
LEMMA RorIs ==
  ASSUME NEW w \in Nat, w > 1, NEW d \in Words(w), NEW s \in Nat \ {0}, NEW f
  PROVE  LET p == Ror(w, d, s, f)
         IN  /\ p.r \in Words(w)
             /\ TurnedDown(w, s % w, d, p.r)
             /\ "CF" \in p.f <=> w - 1 \in p.r
             /\ \A x : x \notin {"CF", "OF"} => (x \in p.f <=> x \in f)
<1> DEFINE n == s % w
           r == IF n = 0 THEN d ELSE Up(w, d, w - n) \cup Down(w, d, n)
           g == IF s = 1 THEN RotateFlags ELSE {"CF"}
           of == s = 1 /\ (Msb(w) \in r) # (Msb(w) - 1 \in r)
           new == If(Msb(w) \in r, "CF") \cup If(of, "OF")
<1>1. n \in 0 .. (w - 1) /\ d \subseteq 0 .. (w - 1)
  BY Reduced DEF Words, Bits
<1>2. Ror(w, d, s, f) = [r |-> r, f |-> Update(f, g, new)]
  BY DEF Ror, Result
<1> HIDE DEF n
<1>3. /\ r \in Words(w)
      /\ TurnedDown(w, n, d, r)
  <2>1. CASE n = 0
    BY <1>1, <2>1 DEF Words, Bits, TurnedUp, TurnedDown
  <2>2. CASE n # 0
    BY <1>1, <2>2 DEF Up, Down, Words, Bits, TurnedUp, TurnedDown
  <2> QED BY <2>1, <2>2
<1> HIDE DEF r, of
<1>4. "CF" \in Update(f, g, new) <=> w - 1 \in r
  BY DEF Update, RotateFlags, If, Msb
<1>5. \A x : x \notin {"CF", "OF"} => (x \in Update(f, g, new) <=> x \in f)
  BY DEF Update, RotateFlags, If
<1> HIDE DEF g, new
<1> QED BY <1>2, <1>3, <1>4, <1>5 DEF n

(* The same word and flags, OF set aside *)
SameStep(p, q) == p.r = q.r /\ p.f \ {"OF"} = q.f \ {"OF"}

(* ROL by 1 and then by m is ROL by m + 1. *)
LEMMA RolStep ==
  ASSUME NEW w \in Nat, w > 1, NEW d \in Words(w), NEW m \in Nat \ {0}, NEW f
  PROVE  LET one == Rol(w, d, 1, f)
         IN  SameStep(Rol(w, d, m + 1, f), Rol(w, one.r, m, one.f))
<1> DEFINE one == Rol(w, d, 1, f)
           all == Rol(w, d, m + 1, f)
           rest == Rol(w, one.r, m, one.f)
<1>1. 1 \in Nat \ {0} /\ m + 1 \in Nat \ {0} /\ 1 % w = 1
  BY OneModulo
<1>2. one.r \in Words(w) /\ TurnedUp(w, 1, d, one.r)
      /\ \A x : x \notin {"CF", "OF"} => (x \in one.f <=> x \in f)
  BY <1>1, RolIs
<1>3. all.r \in Words(w) /\ TurnedUp(w, (m + 1) % w, d, all.r)
      /\ ("CF" \in all.f <=> 0 \in all.r)
      /\ \A x : x \notin {"CF", "OF"} => (x \in all.f <=> x \in f)
  BY <1>1, RolIs
<1>4. rest.r \in Words(w) /\ TurnedUp(w, m % w, one.r, rest.r)
      /\ ("CF" \in rest.f <=> 0 \in rest.r)
      /\ \A x : x \notin {"CF", "OF"} => (x \in rest.f <=> x \in one.f)
  BY <1>2, RolIs
<1> HIDE DEF one, all, rest
<1>5. \A e \in Words(w) : e \subseteq 0 .. (w - 1)
  BY DEF Words, Bits
<1>6. all.r = rest.r
  BY <1>2, <1>3, <1>4, <1>5, TurnUpStep
<1>7. \A x : x # "OF" => (x \in all.f <=> x \in rest.f)
  BY <1>2, <1>3, <1>4, <1>6
<1> QED BY <1>6, <1>7 DEF SameStep, all, rest, one

(* ROR by 1 and then by m is ROR by m + 1. *)
LEMMA RorStep ==
  ASSUME NEW w \in Nat, w > 1, NEW d \in Words(w), NEW m \in Nat \ {0}, NEW f
  PROVE  LET one == Ror(w, d, 1, f)
         IN  SameStep(Ror(w, d, m + 1, f), Ror(w, one.r, m, one.f))
<1> DEFINE one == Ror(w, d, 1, f)
           all == Ror(w, d, m + 1, f)
           rest == Ror(w, one.r, m, one.f)
<1>1. 1 \in Nat \ {0} /\ m + 1 \in Nat \ {0} /\ 1 % w = 1
  BY OneModulo
<1>2. one.r \in Words(w) /\ TurnedDown(w, 1, d, one.r)
      /\ \A x : x \notin {"CF", "OF"} => (x \in one.f <=> x \in f)
  BY <1>1, RorIs
<1>3. all.r \in Words(w) /\ TurnedDown(w, (m + 1) % w, d, all.r)
      /\ ("CF" \in all.f <=> w - 1 \in all.r)
      /\ \A x : x \notin {"CF", "OF"} => (x \in all.f <=> x \in f)
  BY <1>1, RorIs
<1>4. rest.r \in Words(w) /\ TurnedDown(w, m % w, one.r, rest.r)
      /\ ("CF" \in rest.f <=> w - 1 \in rest.r)
      /\ \A x : x \notin {"CF", "OF"} => (x \in rest.f <=> x \in one.f)
  BY <1>2, RorIs
<1> HIDE DEF one, all, rest
<1>5. \A e \in Words(w) : e \subseteq 0 .. (w - 1)
  BY DEF Words, Bits
<1>6. all.r = rest.r
  BY <1>2, <1>3, <1>4, <1>5, TurnDownStep
<1>7. \A x : x # "OF" => (x \in all.f <=> x \in rest.f)
  BY <1>2, <1>3, <1>4, <1>6
<1> QED BY <1>6, <1>7 DEF SameStep, all, rest, one

(* RCL and RCR turn the word with the carry as the bit above it. *)
WithCarry(w, p) == p.r \cup {i \in {w} : "CF" \in p.f}

(* The bit above the word, turned with it *)
LEMMA TopUp ==
  ASSUME NEW w \in Nat, NEW n \in 0 .. w, NEW e, NEW r,
         \A i \in 0 .. (w - 1) : i \in r <=> i - n \in e \/ i + (w + 1 - n) \in e,
         w \in r <=> w - n \in e \/ w + (w + 1 - n) \in e
  PROVE  TurnedUp(w + 1, n, e, r)
<1>1. ASSUME NEW i \in 0 .. ((w + 1) - 1)
      PROVE  i \in r <=> i - n \in e \/ i + ((w + 1) - n) \in e
  <2>1. CASE i = w
    BY <2>1
  <2>2. CASE i # w
    BY <2>2
  <2> QED BY <2>1, <2>2
<1> QED BY <1>1 DEF TurnedUp

(* ... and on the way down *)
LEMMA TopDown ==
  ASSUME NEW w \in Nat, NEW n \in 0 .. w, NEW e, NEW r,
         \A i \in 0 .. (w - 1) : i \in r <=> i + n \in e \/ i - (w + 1 - n) \in e,
         w \in r <=> w + n \in e \/ w - (w + 1 - n) \in e
  PROVE  TurnedDown(w + 1, n, e, r)
<1>1. ASSUME NEW i \in 0 .. ((w + 1) - 1)
      PROVE  i \in r <=> i + n \in e \/ i - ((w + 1) - n) \in e
  <2>1. CASE i = w
    BY <2>1
  <2>2. CASE i # w
    BY <2>2
  <2> QED BY <2>1, <2>2
<1> QED BY <1>1 DEF TurnedDown

(* The word and the carry are told apart again. *)
LEMMA CarryApart ==
  ASSUME NEW w \in Nat, NEW p, NEW q, p.r \in Words(w), q.r \in Words(w),
         WithCarry(w, p) = WithCarry(w, q)
  PROVE  p.r = q.r /\ ("CF" \in p.f <=> "CF" \in q.f)
<1>1. p.r \subseteq 0 .. (w - 1) /\ q.r \subseteq 0 .. (w - 1)
  BY DEF Words, Bits
<1>2. w \notin p.r /\ w \notin q.r
  BY <1>1
<1>3. /\ \A i : i \in WithCarry(w, p) <=> i \in p.r \/ (i = w /\ "CF" \in p.f)
      /\ \A i : i \in WithCarry(w, p) <=> i \in q.r \/ (i = w /\ "CF" \in q.f)
  BY DEF WithCarry
<1>4. \A i : i \in p.r <=> i \in q.r
  BY <1>2, <1>3
<1>5. p.r = q.r
  BY <1>4
<1>6. "CF" \in p.f <=> "CF" \in q.f
  BY <1>2, <1>3
<1> QED BY <1>5, <1>6

(* RCL turns the word and the carry up, one bit wider than the word. *)
LEMMA RclIs ==
  ASSUME NEW w \in Nat, w > 1, NEW d \in Words(w), NEW s \in Nat, NEW f, NEW x86 \in BOOLEAN,
         ~x86 \/ s % (w + 1) < Wide
  PROVE  LET p == Rcl(w, d, s, f, x86)
         IN  /\ p.r \in Words(w)
             /\ TurnedUp(w + 1, s % (w + 1), WithCarry(w, Result(d, f)), WithCarry(w, p))
             /\ \A x : x \notin {"CF", "OF"} => (x \in p.f <=> x \in f)
<1> DEFINE n == s % (w + 1)
           p == Rcl(w, d, s, f, x86)
           e == WithCarry(w, Result(d, f))
<1>1. n \in 0 .. w /\ d \subseteq 0 .. (w - 1)
  BY Reduced DEF Words, Bits
<1>2. \A i : i \in e <=> i \in d \/ (i = w /\ "CF" \in f)
  BY DEF WithCarry, Result
<1> SUFFICES /\ p.r \in Words(w)
             /\ TurnedUp(w + 1, n, e, WithCarry(w, p))
             /\ \A x : x \notin {"CF", "OF"} => (x \in p.f <=> x \in f)
  OBVIOUS
<1>3. CASE n = 0
  <2>1. p = Result(d, f)
    BY <1>3 DEF Rcl
  <2>2. p.r \in Words(w) /\ p.f = f /\ WithCarry(w, p) = e
    BY <2>1 DEF Result
  <2> HIDE DEF p, n, e
  <2>3. TurnedUp(w + 1, n, e, e)
    BY <1>1, <1>2, <1>3 DEF TurnedUp
  <2> QED BY <2>2, <2>3
<1>4. CASE n # 0
  <2> DEFINE r == RclWord(w, d, n, f)
             g == IF n = 1 THEN RotateFlags ELSE {"CF"}
             cf == w - n \in d
             of == n = 1 /\ cf # (Msb(w) \in r)
             new == If(cf, "CF") \cup If(of, "OF")
  <2>0. HostCount(n, x86) = n
    BY <1>1, WidthAssumption DEF HostCount
  <2>1. p = [r |-> r, f |-> Update(f, RotateFlags, new)]
    BY <1>4, <2>0 DEF Rcl, Result, RclWord
  <2> HIDE DEF n
  <2>2. /\ r \in Words(w)
        /\ \A i \in 0 .. (w - 1) : i \in r <=>
             i - n \in d \/ i + (w + 1 - n) \in d \/ (i = n - 1 /\ "CF" \in f)
    BY <1>1, <1>4 DEF RclWord, Up, Down, Words, Bits
  <2> HIDE DEF r, of
  <2>3. /\ "CF" \in Update(f, RotateFlags, new) <=> cf
        /\ \A x : x \notin {"CF", "OF"} =>
             (x \in Update(f, RotateFlags, new) <=> x \in f)
    BY DEF Update, RotateFlags, If
  <2> HIDE DEF g, new, cf, e
  <2>4. /\ p.r = r /\ p.f = Update(f, RotateFlags, new)
    BY <2>1
  <2> HIDE DEF p
  <2>5. \A i : i \in WithCarry(w, p) <=> i \in r \/ (i = w /\ w - n \in d)
    BY <2>3, <2>4 DEF WithCarry, cf
  <2>6. TurnedUp(w + 1, n, e, WithCarry(w, p))
    <3>1. ASSUME NEW i \in 0 .. (w - 1)
          PROVE  i \in WithCarry(w, p) <=>
                   i - n \in e \/ i + (w + 1 - n) \in e
      BY <1>1, <1>2, <1>4, <2>2, <2>5
    <3>2. w \in WithCarry(w, p) <=> w - n \in e \/ w + (w + 1 - n) \in e
      BY <1>1, <1>2, <1>4, <2>2, <2>5 DEF Words, Bits
    <3> QED BY <1>1, <3>1, <3>2, TopUp
  <2> QED BY <2>2, <2>3, <2>4, <2>6
<1> QED BY <1>3, <1>4

(* RCR turns them down. *)
LEMMA RcrIs ==
  ASSUME NEW w \in Nat, w > 1, NEW d \in Words(w), NEW s \in Nat, NEW f
  PROVE  LET p == Rcr(w, d, s, f)
         IN  /\ p.r \in Words(w)
             /\ TurnedDown(w + 1, s % (w + 1), WithCarry(w, Result(d, f)), WithCarry(w, p))
             /\ \A x : x \notin {"CF", "OF"} => (x \in p.f <=> x \in f)
<1> DEFINE n == s % (w + 1)
           p == Rcr(w, d, s, f)
           e == WithCarry(w, Result(d, f))
<1>1. n \in 0 .. w /\ d \subseteq 0 .. (w - 1)
  BY Reduced DEF Words, Bits
<1>2. \A i : i \in e <=> i \in d \/ (i = w /\ "CF" \in f)
  BY DEF WithCarry, Result
<1> SUFFICES /\ p.r \in Words(w)
             /\ TurnedDown(w + 1, n, e, WithCarry(w, p))
             /\ \A x : x \notin {"CF", "OF"} => (x \in p.f <=> x \in f)
  OBVIOUS
<1>3. CASE n = 0
  <2>1. p = Result(d, f)
    BY <1>3 DEF Rcr
  <2>2. p.r \in Words(w) /\ p.f = f /\ WithCarry(w, p) = e
    BY <2>1 DEF Result
  <2> HIDE DEF p, n, e
  <2>3. TurnedDown(w + 1, n, e, e)
    BY <1>1, <1>2, <1>3 DEF TurnedDown
  <2> QED BY <2>2, <2>3
<1>4. CASE n # 0
  <2> DEFINE r == RcrWord(w, d, n, f)
             g == IF n = 1 THEN RotateFlags ELSE {"CF"}
             cf == n - 1 \in d
             of == n = 1 /\ ("CF" \in f) # (Msb(w) \in d)
             new == If(cf, "CF") \cup If(of, "OF")
  <2>1. p = [r |-> r, f |-> Update(f, g, new)]
    BY <1>1, <1>4 DEF Rcr, Result, RcrWord
  <2> HIDE DEF n
  <2>2. /\ r \in Words(w)
        /\ \A i \in 0 .. (w - 1) : i \in r <=>
             i + n \in d \/ i - (w + 1 - n) \in d \/ (i = w - n /\ "CF" \in f)
    BY <1>1, <1>4 DEF RcrWord, Up, Down, Words, Bits
  <2> HIDE DEF r, of
  <2>3. /\ "CF" \in Update(f, g, new) <=> cf
        /\ \A x : x \notin {"CF", "OF"} =>
             (x \in Update(f, g, new) <=> x \in f)
    BY DEF Update, RotateFlags, If
  <2> HIDE DEF g, new, cf, e
  <2>4. /\ p.r = r /\ p.f = Update(f, g, new)
    BY <2>1
  <2> HIDE DEF p
  <2>5. \A i : i \in WithCarry(w, p) <=> i \in r \/ (i = w /\ n - 1 \in d)
    BY <2>3, <2>4 DEF WithCarry, cf
  <2>6. TurnedDown(w + 1, n, e, WithCarry(w, p))
    <3>1. ASSUME NEW i \in 0 .. (w - 1)
          PROVE  i \in WithCarry(w, p) <=>
                   i + n \in e \/ i - (w + 1 - n) \in e
      BY <1>1, <1>2, <1>4, <2>2, <2>5
    <3>2. w \in WithCarry(w, p) <=> w + n \in e \/ w - (w + 1 - n) \in e
      BY <1>1, <1>2, <1>4, <2>2, <2>5 DEF Words, Bits
    <3> QED BY <1>1, <3>1, <3>2, TopDown
  <2> QED BY <2>2, <2>3, <2>4, <2>6
<1> QED BY <1>3, <1>4

(* RCL by 1 and then by m is RCL by m + 1. *)
LEMMA RclStep ==
  ASSUME NEW w \in Nat, w > 1, NEW d \in Words(w), NEW m \in Nat \ {0}, NEW f,
         NEW x86 \in BOOLEAN, (m + 1) % (w + 1) < Wide
  PROVE  LET one == Rcl(w, d, 1, f, FALSE)
         IN  SameStep(Rcl(w, d, m + 1, f, x86), Rcl(w, one.r, m, one.f, FALSE))
<1> DEFINE one == Rcl(w, d, 1, f, FALSE)
           all == Rcl(w, d, m + 1, f, x86)
           rest == Rcl(w, one.r, m, one.f, FALSE)
           e == WithCarry(w, Result(d, f))
<1>1. 1 \in Nat /\ m + 1 \in Nat /\ 1 % (w + 1) = 1
  <2>1. w + 1 \in Nat /\ w + 1 > 1
    OBVIOUS
  <2>2. 1 % (w + 1) = 1
    BY <2>1, OneModulo
  <2> QED BY <2>1, <2>2
<1>2. one.r \in Words(w) /\ TurnedUp(w + 1, 1, e, WithCarry(w, one))
      /\ \A x : x \notin {"CF", "OF"} => (x \in one.f <=> x \in f)
  <2>1. one.r \in Words(w) /\ TurnedUp(w + 1, 1 % (w + 1), e, WithCarry(w, one))
        /\ \A x : x \notin {"CF", "OF"} => (x \in one.f <=> x \in f)
    <3>1. 1 \in Nat /\ FALSE \in BOOLEAN /\ ~FALSE
      BY <1>1
    <3> QED BY <3>1, RclIs
  <2> QED BY <1>1, <2>1
<1>3. all.r \in Words(w) /\ TurnedUp(w + 1, (m + 1) % (w + 1), e, WithCarry(w, all))
      /\ \A x : x \notin {"CF", "OF"} => (x \in all.f <=> x \in f)
  BY <1>1, RclIs
<1>4. rest.r \in Words(w)
      /\ TurnedUp(w + 1, m % (w + 1), WithCarry(w, Result(one.r, one.f)), WithCarry(w, rest))
      /\ \A x : x \notin {"CF", "OF"} => (x \in rest.f <=> x \in one.f)
  BY <1>2, RclIs
<1>5. WithCarry(w, Result(one.r, one.f)) = WithCarry(w, one)
  BY DEF WithCarry, Result
<1>6. \A p : p.r \in Words(w) => WithCarry(w, p) \subseteq 0 .. w
  BY DEF Words, Bits, WithCarry
<1>7. e \subseteq 0 .. w
  <2>1. Result(d, f).r \in Words(w)
    BY DEF Result
  <2> QED BY <1>6, <2>1
<1> HIDE DEF one, all, rest, e
<1>8. WithCarry(w, all) = WithCarry(w, rest)
  <2>1. w + 1 \in Nat /\ w + 1 > 1 /\ (w + 1) - 1 = w
    OBVIOUS
  <2>2. /\ WithCarry(w, one) \subseteq 0 .. w /\ WithCarry(w, all) \subseteq 0 .. w
        /\ WithCarry(w, rest) \subseteq 0 .. w
    BY <1>2, <1>3, <1>4, <1>6
  <2> QED BY <1>2, <1>3, <1>4, <1>5, <1>7, <2>1, <2>2, TurnUpStep
<1>9. all.r = rest.r /\ ("CF" \in all.f <=> "CF" \in rest.f)
  BY <1>3, <1>4, <1>8, CarryApart
<1>10. \A x : x # "OF" => (x \in all.f <=> x \in rest.f)
  BY <1>2, <1>3, <1>4, <1>9
<1> QED BY <1>9, <1>10 DEF SameStep, all, rest, one

(* RCR by 1 and then by m is RCR by m + 1. *)
LEMMA RcrStep ==
  ASSUME NEW w \in Nat, w > 1, NEW d \in Words(w), NEW m \in Nat \ {0}, NEW f
  PROVE  LET one == Rcr(w, d, 1, f)
         IN  SameStep(Rcr(w, d, m + 1, f), Rcr(w, one.r, m, one.f))
<1> DEFINE one == Rcr(w, d, 1, f)
           all == Rcr(w, d, m + 1, f)
           rest == Rcr(w, one.r, m, one.f)
           e == WithCarry(w, Result(d, f))
<1>1. 1 \in Nat /\ m + 1 \in Nat /\ 1 % (w + 1) = 1
  <2>1. w + 1 \in Nat /\ w + 1 > 1
    OBVIOUS
  <2>2. 1 % (w + 1) = 1
    BY <2>1, OneModulo
  <2> QED BY <2>1, <2>2
<1>2. one.r \in Words(w) /\ TurnedDown(w + 1, 1, e, WithCarry(w, one))
      /\ \A x : x \notin {"CF", "OF"} => (x \in one.f <=> x \in f)
  BY <1>1, RcrIs
<1>3. all.r \in Words(w) /\ TurnedDown(w + 1, (m + 1) % (w + 1), e, WithCarry(w, all))
      /\ \A x : x \notin {"CF", "OF"} => (x \in all.f <=> x \in f)
  BY <1>1, RcrIs
<1>4. rest.r \in Words(w)
      /\ TurnedDown(w + 1, m % (w + 1), WithCarry(w, Result(one.r, one.f)), WithCarry(w, rest))
      /\ \A x : x \notin {"CF", "OF"} => (x \in rest.f <=> x \in one.f)
  BY <1>2, RcrIs
<1>5. WithCarry(w, Result(one.r, one.f)) = WithCarry(w, one)
  BY DEF WithCarry, Result
<1>6. \A p : p.r \in Words(w) => WithCarry(w, p) \subseteq 0 .. w
  BY DEF Words, Bits, WithCarry
<1>7. e \subseteq 0 .. w
  <2>1. Result(d, f).r \in Words(w)
    BY DEF Result
  <2> QED BY <1>6, <2>1
<1> HIDE DEF one, all, rest, e
<1>8. WithCarry(w, all) = WithCarry(w, rest)
  <2>1. w + 1 \in Nat /\ w + 1 > 1 /\ (w + 1) - 1 = w
    OBVIOUS
  <2>2. /\ WithCarry(w, one) \subseteq 0 .. w /\ WithCarry(w, all) \subseteq 0 .. w
        /\ WithCarry(w, rest) \subseteq 0 .. w
    BY <1>2, <1>3, <1>4, <1>6
  <2> QED BY <1>2, <1>3, <1>4, <1>5, <1>7, <2>1, <2>2, TurnDownStep
<1>9. all.r = rest.r /\ ("CF" \in all.f <=> "CF" \in rest.f)
  BY <1>3, <1>4, <1>8, CarryApart
<1>10. \A x : x # "OF" => (x \in all.f <=> x \in rest.f)
  BY <1>2, <1>3, <1>4, <1>9
<1> QED BY <1>9, <1>10 DEF SameStep, all, rest, one

-----------------------------------------------------------------------------
(* The flags behind a shift that moved bit c of d into the carry *)
Moved(w, d, f, c, p) ==
  /\ "CF" \in p.f <=> c \in d
  /\ \A x \in ZspFlags : x \in p.f <=> x \in Zsp(w, p.r)
  /\ \A x : x \notin ShiftFlags => (x \in p.f <=> x \in f)

(* Equal words and the same bit out leave the same flags. *)
LEMMA MovedAlike ==
  ASSUME NEW w, NEW d, NEW e, NEW f, NEW g, NEW c, NEW b, NEW p, NEW q,
         Moved(w, d, f, c, p), Moved(w, e, g, b, q), p.r = q.r, c \in d <=> b \in e,
         \A x : x \notin ShiftFlags => (x \in f <=> x \in g)
  PROVE  SameStep(p, q)
<1>1. \A x : x # "OF" => (x \in p.f <=> x \in q.f)
  BY DEF Moved, ShiftFlags
<1> QED BY <1>1 DEF SameStep

(* Zsp says of a word of 0 bits what the code sets. *)
LEMMA ZspOfZero ==
  ASSUME NEW w
  PROVE  Zsp(w, {}) = {"ZF", "PF"}
<1>1. Parity({})
  <2>1. {} \cap Bits(Byte) = {}
    OBVIOUS
  <2> QED BY <2>1, FS_EmptySet DEF Parity
<1> QED BY <1>1 DEF Zsp, If

(* The flags of a shift, as the primitives put them together *)
LEMMA MovedBy ==
  ASSUME NEW w, NEW d, NEW f, NEW c, NEW r, NEW g, NEW rest,
         g \cup {"OF"} = ShiftFlags, rest \subseteq {"OF"}
  PROVE  Moved(w, d, f, c, Result(r, Update(f, g, If(c \in d, "CF") \cup Zsp(w, r) \cup rest)))
<1> DEFINE new == If(c \in d, "CF") \cup Zsp(w, r) \cup rest
           p == Result(r, Update(f, g, new))
<1>1. Zsp(w, r) \subseteq ZspFlags
  BY DEF Zsp, If, ZspFlags
<1>2. /\ "CF" \in new <=> c \in d
      /\ \A x \in ZspFlags : x \in new <=> x \in Zsp(w, r)
      /\ \A x : x \notin ShiftFlags => x \notin new
  BY <1>1 DEF If, ZspFlags, ShiftFlags
<1> HIDE DEF new
<1>3. p.r = r /\ \A x : x \in p.f <=> (x \in f /\ x \notin g) \/ x \in new
  BY DEF Result, Update
<1> HIDE DEF p
<1>4. "CF" \in g /\ ZspFlags \subseteq g
  BY DEF ShiftFlags, ZspFlags
<1>5. "CF" \in p.f <=> c \in d
  BY <1>2, <1>3, <1>4
<1>6. \A x \in ZspFlags : x \in p.f <=> x \in Zsp(w, p.r)
  BY <1>2, <1>3, <1>4
<1>7. \A x : x \notin ShiftFlags => (x \in p.f <=> x \in f)
  BY <1>2, <1>3
<1>8. Moved(w, d, f, c, p)
  BY <1>5, <1>6, <1>7 DEF Moved
<1> QED BY <1>8 DEF p, new

(* SHL by more than 0, up to the width of the C type *)
LEMMA ShlIs ==
  ASSUME NEW w \in 2 .. Wide, NEW d \in Words(w), NEW s \in 1 .. Wide, NEW f, NEW x86
  PROVE  LET p == Shl(w, d, s, f, x86)
         IN  p.r = Up(w, d, s) /\ Moved(w, d, f, w - s, p)
<1> DEFINE p == Shl(w, d, s, f, x86)
           cf == w - s \in d
           of == If(s = 1 /\ cf # (Msb(w) \in Up(w, d, s)), "OF")
<1>1. Wide \in Nat
  BY WidthAssumption
<1>2. CASE s < w
  <2>1. p = Result(Up(w, d, s),
                   Update(f, ShiftFlags, If(cf, "CF") \cup Zsp(w, Up(w, d, s)) \cup of))
    <3>1. Up(w, d, s) \cup {} = Up(w, d, s) /\ s # 0
      BY <1>1
    <3> QED BY <1>2, <3>1 DEF Shl, ShiftUp
  <2>2. of \subseteq {"OF"}
    BY DEF If
  <2> HIDE DEF of, p
  <2>3. ShiftFlags \cup {"OF"} = ShiftFlags
    BY DEF ShiftFlags
  <2>4. Moved(w, d, f, w - s, p)
    BY <2>1, <2>2, <2>3, MovedBy
  <2>5. p.r = Up(w, d, s)
    BY <2>1 DEF Result
  <2> QED BY <2>4, <2>5 DEF p
<1>3. CASE s >= w
  <2>1. HostCount(s - 1, x86) = s - 1 /\ Msb(w) - (s - 1) = w - s /\ s # 0 /\ ~(s < w)
    BY <1>1, <1>3 DEF HostCount, Msb
  <2>2. Up(w, d, s) = {}
    BY <1>1, <1>3 DEF Up, Words, Bits
  <2>3. p = Result({}, Update(f, ShiftFlags, {"PF", "ZF"} \cup If(cf, "CF")))
    BY <2>1 DEF Shl, ShiftUp
  <2>4. {"PF", "ZF"} \cup If(cf, "CF") = If(cf, "CF") \cup Zsp(w, {}) \cup {}
    BY ZspOfZero
  <2> HIDE DEF p
  <2>5. ShiftFlags \cup {"OF"} = ShiftFlags
    BY DEF ShiftFlags
  <2>6. Moved(w, d, f, w - s,
              Result({}, Update(f, ShiftFlags, If(w - s \in d, "CF") \cup Zsp(w, {}) \cup {})))
    BY <2>5, MovedBy
  <2>7. Moved(w, d, f, w - s, p)
    BY <2>3, <2>4, <2>6
  <2>8. p.r = Up(w, d, s)
    BY <2>2, <2>3 DEF Result
  <2> QED BY <2>7, <2>8 DEF p
<1> QED BY <1>1, <1>2, <1>3

(* SHR by less than the width, the byte form by more, too *)
LEMMA ShrIs ==
  ASSUME NEW w \in 2 .. Wide, NEW d \in Words(w), NEW s \in 1 .. Wide, NEW f, NEW x86,
         s < w \/ w = Byte
  PROVE  LET p == Shr(w, d, s, f, x86)
         IN  p.r = Down(w, d, s) /\ Moved(w, d, f, s - 1, p)
<1> DEFINE p == Shr(w, d, s, f, x86)
           cf == s - 1 \in d
           of == If(s = 1 /\ (Msb(w) \in Down(w, d, s)) # (Msb(w) - 1 \in Down(w, d, s)), "OF")
<1>1. Wide \in Nat
  BY WidthAssumption
<1>2. CASE s < w
  <2>1. p = Result(Down(w, d, s),
                   Update(f, ShiftFlags, If(cf, "CF") \cup Zsp(w, Down(w, d, s)) \cup of))
    <3>1. Down(w, d, s) \cup {} = Down(w, d, s) /\ s # 0
      BY <1>1
    <3> QED BY <1>2, <3>1 DEF Shr, ShiftDown
  <2>2. of \subseteq {"OF"}
    BY DEF If
  <2> HIDE DEF of, p
  <2>3. ShiftFlags \cup {"OF"} = ShiftFlags
    BY DEF ShiftFlags
  <2>4. Moved(w, d, f, s - 1, p)
    BY <2>1, <2>2, <2>3, MovedBy
  <2>5. p.r = Down(w, d, s)
    BY <2>1 DEF Result
  <2> QED BY <2>4, <2>5 DEF p
<1>3. CASE s >= w
  <2>1. HostCount(s - 1, x86) = s - 1 /\ s # 0 /\ ~(s < w) /\ w = Byte
    BY <1>1, <1>3 DEF HostCount
  <2>2. Down(w, d, s) = {}
    BY <1>1, <1>3 DEF Down, Words, Bits
  <2>3. p = Result({}, Update(f, ShiftFlags, {"ZF"} \cup ({"PF"} \cup If(cf, "CF"))))
    BY <2>1 DEF Shr, ShiftDown
  <2>4. {"ZF"} \cup ({"PF"} \cup If(cf, "CF")) = If(cf, "CF") \cup Zsp(w, {}) \cup {}
    BY ZspOfZero
  <2> HIDE DEF p
  <2>5. ShiftFlags \cup {"OF"} = ShiftFlags
    BY DEF ShiftFlags
  <2>6. Moved(w, d, f, s - 1,
              Result({}, Update(f, ShiftFlags, If(s - 1 \in d, "CF") \cup Zsp(w, {}) \cup {})))
    BY <2>5, MovedBy
  <2>7. Moved(w, d, f, s - 1, p)
    BY <2>3, <2>4, <2>6
  <2>8. p.r = Down(w, d, s)
    BY <2>2, <2>3 DEF Result
  <2> QED BY <2>7, <2>8 DEF p
<1> QED BY <1>1, <1>2, <1>3

(* The word SAR leaves: copies of the sign enter at the top. *)
SarWord(w, d, n) == Down(w, d, n) \cup (IF Msb(w) \in d THEN (w - n) .. Msb(w) ELSE {})

(* SAR by less than the width *)
LEMMA SarIs ==
  ASSUME NEW w \in 2 .. Wide, NEW d \in Words(w), NEW s \in 1 .. (w - 1), NEW f
  PROVE  LET p == Sar(w, d, s, f)
         IN  p.r = SarWord(w, d, s) /\ Moved(w, d, f, s - 1, p)
<1> DEFINE p == Sar(w, d, s, f)
           g == {"CF"} \cup ZspFlags
<1>1. Wide \in Nat
  BY WidthAssumption
<1>2. s % w = s /\ s # 0
  BY <1>1
<1>3. p = Result(SarWord(w, d, s),
                 Update(f, g, If(s - 1 \in d, "CF") \cup Zsp(w, SarWord(w, d, s)) \cup {}))
  <2>1. \A a : a \cup {} = a
    OBVIOUS
  <2> QED BY <1>2, <2>1 DEF Sar, SarWord
<1>4. g \cup {"OF"} = ShiftFlags
  BY DEF ShiftFlags
<1> HIDE DEF p, g
<1>5. Moved(w, d, f, s - 1, p)
  BY <1>3, <1>4, MovedBy
<1>6. p.r = SarWord(w, d, s)
  BY <1>3 DEF Result
<1> QED BY <1>5, <1>6 DEF p

(* SHL by 1 and then by m is SHL by m + 1. *)
LEMMA ShlStep ==
  ASSUME NEW w \in 2 .. Wide, NEW d \in Words(w), NEW m \in 1 .. (Wide - 1), NEW f, NEW x86
  PROVE  LET one == Shl(w, d, 1, f, FALSE)
         IN  SameStep(Shl(w, d, m + 1, f, x86), Shl(w, one.r, m, one.f, FALSE))
<1> DEFINE one == Shl(w, d, 1, f, FALSE)
           all == Shl(w, d, m + 1, f, x86)
           rest == Shl(w, one.r, m, one.f, FALSE)
<1>1. w \in Nat /\ Wide \in Nat /\ 1 \in 1 .. Wide /\ m + 1 \in 1 .. Wide /\ m \in 1 .. Wide
  BY WidthAssumption
<1>2. one.r = Up(w, d, 1) /\ Moved(w, d, f, w - 1, one)
  BY <1>1, ShlIs
<1>3. one.r \in Words(w)
  BY <1>1, <1>2, PiecesFit
<1>4. all.r = Up(w, d, m + 1) /\ Moved(w, d, f, w - (m + 1), all)
  BY <1>1, ShlIs
<1>5. rest.r = Up(w, one.r, m) /\ Moved(w, one.r, one.f, w - m, rest)
  BY <1>1, <1>3, ShlIs
<1> HIDE DEF one, all, rest
<1>6. \A i \in Int : i \in one.r <=> i \in 0 .. (w - 1) /\ i - 1 \in d
  BY <1>2 DEF Up, Bits
<1>7. d \subseteq 0 .. (w - 1)
  BY DEF Words, Bits
<1>8. Up(w, d, m + 1) = Up(w, one.r, m)
  <2>1. ASSUME NEW i \in 0 .. (w - 1) PROVE i - (m + 1) \in d <=> i - m \in one.r
    BY <1>1, <1>6, <1>7
  <2> QED BY <2>1 DEF Up, Bits
<1>9. w - (m + 1) \in d <=> w - m \in one.r
  BY <1>1, <1>6, <1>7
<1>10. \A x : x \notin ShiftFlags => (x \in f <=> x \in one.f)
  BY <1>2 DEF Moved
<1>11. SameStep(all, rest)
  BY <1>4, <1>5, <1>8, <1>9, <1>10, MovedAlike
<1> QED BY <1>11 DEF one, all, rest

(* SHR by 1 and then by m is SHR by m + 1. *)
LEMMA ShrStep ==
  ASSUME NEW w \in 2 .. Wide, NEW d \in Words(w), NEW m \in 1 .. (Wide - 1), NEW f, NEW x86,
         m + 1 < w \/ w = Byte
  PROVE  LET one == Shr(w, d, 1, f, FALSE)
         IN  SameStep(Shr(w, d, m + 1, f, x86), Shr(w, one.r, m, one.f, FALSE))
<1> DEFINE one == Shr(w, d, 1, f, FALSE)
           all == Shr(w, d, m + 1, f, x86)
           rest == Shr(w, one.r, m, one.f, FALSE)
<1>1. /\ w \in Nat /\ Wide \in Nat /\ 1 < w
      /\ 1 \in 1 .. Wide /\ m + 1 \in 1 .. Wide /\ m \in 1 .. Wide
      /\ (m < w \/ w = Byte)
  BY WidthAssumption
<1>2. one.r = Down(w, d, 1) /\ Moved(w, d, f, 1 - 1, one)
  BY <1>1, ShrIs
<1>3. one.r \in Words(w)
  BY <1>1, <1>2, PiecesFit
<1>4. all.r = Down(w, d, m + 1) /\ Moved(w, d, f, (m + 1) - 1, all)
  BY <1>1, ShrIs
<1>5. rest.r = Down(w, one.r, m) /\ Moved(w, one.r, one.f, m - 1, rest)
  BY <1>1, <1>3, ShrIs
<1> HIDE DEF one, all, rest
<1>6. \A i \in Int : i \in one.r <=> i \in 0 .. (w - 1) /\ i + 1 \in d
  BY <1>2 DEF Down, Bits
<1>7. d \subseteq 0 .. (w - 1)
  BY DEF Words, Bits
<1>8. Down(w, d, m + 1) = Down(w, one.r, m)
  <2>1. ASSUME NEW i \in 0 .. (w - 1) PROVE i + (m + 1) \in d <=> i + m \in one.r
    BY <1>1, <1>6, <1>7
  <2> QED BY <2>1 DEF Down, Bits
<1>9. (m + 1) - 1 \in d <=> m - 1 \in one.r
  BY <1>1, <1>6, <1>7
<1>10. \A x : x \notin ShiftFlags => (x \in f <=> x \in one.f)
  BY <1>2 DEF Moved
<1>11. SameStep(all, rest)
  BY <1>4, <1>5, <1>8, <1>9, <1>10, MovedAlike
<1> QED BY <1>11 DEF one, all, rest

(* SAR by 1 and then by m is SAR by m + 1. *)
LEMMA SarStep ==
  ASSUME NEW w \in 2 .. Wide, NEW d \in Words(w), NEW m \in 1 .. (w - 2), NEW f
  PROVE  LET one == Sar(w, d, 1, f)
         IN  SameStep(Sar(w, d, m + 1, f), Sar(w, one.r, m, one.f))
<1> DEFINE one == Sar(w, d, 1, f)
           all == Sar(w, d, m + 1, f)
           rest == Sar(w, one.r, m, one.f)
<1>1. /\ w \in Nat /\ 1 \in 1 .. (w - 1) /\ m + 1 \in 1 .. (w - 1) /\ m \in 1 .. (w - 1)
  BY WidthAssumption
<1>2. one.r = SarWord(w, d, 1) /\ Moved(w, d, f, 1 - 1, one)
  BY <1>1, SarIs
<1>3. d \subseteq 0 .. (w - 1) /\ Msb(w) = w - 1
  BY DEF Words, Bits, Msb
<1>4. \A e, n, i \in Int : i \in SarWord(w, e, n) <=>
        (i \in 0 .. (w - 1) /\ i + n \in e) \/ (w - 1 \in e /\ i \in (w - n) .. (w - 1))
  BY <1>1 DEF SarWord, Down, Bits, Msb
<1>5. one.r \in Words(w)
  <2>1. one.r \subseteq 0 .. (w - 1)
    BY <1>1, <1>2 DEF SarWord, Down, Bits, Msb
  <2> QED BY <2>1 DEF Words, Bits
<1>6. all.r = SarWord(w, d, m + 1) /\ Moved(w, d, f, (m + 1) - 1, all)
  BY <1>1, SarIs
<1>7. rest.r = SarWord(w, one.r, m) /\ Moved(w, one.r, one.f, m - 1, rest)
  BY <1>1, <1>5, SarIs
<1> HIDE DEF one, all, rest
<1>8. \A i \in Int : i \in one.r <=>
        (i \in 0 .. (w - 1) /\ i + 1 \in d) \/ (w - 1 \in d /\ i = w - 1)
  BY <1>1, <1>2 DEF SarWord, Down, Bits, Msb
<1>9. w - 1 \in one.r <=> w - 1 \in d
  BY <1>1, <1>3, <1>8
<1>10. SarWord(w, d, m + 1) = SarWord(w, one.r, m)
  <2>1. ASSUME NEW i \in 0 .. (w - 1)
        PROVE  i + (m + 1) \in d \/ (w - 1 \in d /\ i \in (w - (m + 1)) .. (w - 1)) <=>
               i + m \in one.r \/ (w - 1 \in one.r /\ i \in (w - m) .. (w - 1))
    BY <1>1, <1>3, <1>8, <1>9
  <2>2. /\ SarWord(w, d, m + 1) \subseteq 0 .. (w - 1)
        /\ SarWord(w, one.r, m) \subseteq 0 .. (w - 1)
    BY <1>1 DEF SarWord, Down, Bits, Msb
  <2>3. ASSUME NEW i \in 0 .. (w - 1)
        PROVE  /\ i \in SarWord(w, d, m + 1) <=>
                    i + (m + 1) \in d \/ (w - 1 \in d /\ i \in (w - (m + 1)) .. (w - 1))
               /\ i \in SarWord(w, one.r, m) <=>
                    i + m \in one.r \/ (w - 1 \in one.r /\ i \in (w - m) .. (w - 1))
    BY DEF SarWord, Down, Bits, Msb
  <2> QED BY <2>1, <2>2, <2>3
<1>11. (m + 1) - 1 \in d <=> m - 1 \in one.r
  BY <1>1, <1>3, <1>8
<1>12. \A x : x \notin ShiftFlags => (x \in f <=> x \in one.f)
  BY <1>2 DEF Moved
<1>13. SameStep(all, rest)
  BY <1>6, <1>7, <1>10, <1>11, <1>12, MovedAlike
<1> QED BY <1>13 DEF one, all, rest

(* One step of the machine: the count is taken apart. *)
LEMMA StepStepwise ==
  ASSUME IInv, Next
  PROVE  LET op == ins'.op
             n  == ins'.s
             one  == StepB(op, acc, 1, flags)
             rest == StepB(op, one.r, n - 1, one.f)
         IN  op \in OpB /\ n > 1 /\ Regular(op, n) =>
               acc' = rest.r /\ flags' \ {"OF"} = rest.f \ {"OF"}
<1> DEFINE op == ins'.op
           n  == ins'.s
           m  == n - 1
           one  == StepB(op, acc, 1, flags)
           rest == StepB(op, one.r, m, one.f)
<1> SUFFICES ASSUME op \in OpB, n > 1, Regular(op, n)
             PROVE  acc' = rest.r /\ flags' \ {"OF"} = rest.f \ {"OF"}
  OBVIOUS
<1>1. PICK x86 \in BOOLEAN : n \in CountArg /\ Shift(op, n, x86)
  BY DEF Next, Arithmetic, Shift, ShiftDouble, Unary, TestOp, CarryOp, SetCc, Multiply,
         MultiplyDirect, Divide, DecimalAdjust, AsciiAdjust, BaseAdjust, Reset, Do, Both,
         OpA, OpB, OpUnary
<1> DEFINE all == ResultB(op, n, x86)
<1>2. n \in Nat /\ acc' = all.r /\ flags' = all.f
  BY <1>1, ArgAssumption DEF Shift, Do
<1>3. /\ size \in Nat /\ size > 1 /\ size \in 2 .. Wide /\ acc \in Words(size)
      /\ Wide \in Nat
  BY SizeFacts, WidthAssumption DEF IInv, TypeOK
<1> SUFFICES SameStep(all, rest)
  BY <1>2 DEF SameStep
<1> HIDE DEF op, n
<1>4. m \in Nat \ {0} /\ m + 1 = n
  BY <1>2
<1> HIDE DEF m
<1>5. CASE op = "rol"
  <2>1. SameStep(Rol(size, acc, n, flags),
                 Rol(size, Rol(size, acc, 1, flags).r, m, Rol(size, acc, 1, flags).f))
    BY <1>3, <1>4, RolStep
  <2> QED BY <1>5, <2>1 DEF StepB, ResultB
<1>6. CASE op = "ror"
  <2>1. SameStep(Ror(size, acc, n, flags),
                 Ror(size, Ror(size, acc, 1, flags).r, m, Ror(size, acc, 1, flags).f))
    BY <1>3, <1>4, RorStep
  <2> QED BY <1>6, <2>1 DEF StepB, ResultB
<1>7. CASE op = "rcl"
  <2>1. n % (size + 1) < Wide
    BY <1>7 DEF Regular
  <2>2. LET o == Rcl(size, acc, 1, flags, FALSE)
        IN  SameStep(Rcl(size, acc, n, flags, x86), Rcl(size, o.r, m, o.f, FALSE))
    BY <1>3, <1>4, <2>1, RclStep
  <2> QED BY <1>7, <2>2 DEF StepB, ResultB
<1>8. CASE op = "rcr"
  <2>1. LET o == Rcr(size, acc, 1, flags)
        IN  SameStep(Rcr(size, acc, n, flags), Rcr(size, o.r, m, o.f))
    BY <1>3, <1>4, RcrStep
  <2> QED BY <1>8, <2>1 DEF StepB, ResultB
<1>9. CASE op = "shl"
  <2>1. m \in 1 .. (Wide - 1)
    BY <1>3, <1>4, <1>9 DEF Regular
  <2>2. LET o == Shl(size, acc, 1, flags, FALSE)
        IN  SameStep(Shl(size, acc, n, flags, x86), Shl(size, o.r, m, o.f, FALSE))
    BY <1>3, <1>4, <2>1, ShlStep
  <2> QED BY <1>9, <2>2 DEF StepB, ResultB
<1>10. CASE op = "shr"
  <2>1. m \in 1 .. (Wide - 1) /\ (m + 1 < size \/ size = Byte)
    BY <1>3, <1>4, <1>10 DEF Regular
  <2>2. LET o == Shr(size, acc, 1, flags, FALSE)
        IN  SameStep(Shr(size, acc, n, flags, x86), Shr(size, o.r, m, o.f, FALSE))
    BY <1>3, <1>4, <2>1, ShrStep
  <2> QED BY <1>10, <2>2 DEF StepB, ResultB
<1>11. CASE op = "sar"
  <2>1. m \in 1 .. (size - 2)
    BY <1>3, <1>4, <1>11 DEF Regular
  <2>2. LET o == Sar(size, acc, 1, flags)
        IN  SameStep(Sar(size, acc, n, flags), Sar(size, o.r, m, o.f))
    BY <1>3, <1>4, <2>1, SarStep
  <2> QED BY <1>11, <2>2 DEF StepB, ResultB
<1> QED BY <1>5, <1>6, <1>7, <1>8, <1>9, <1>10, <1>11 DEF op, OpB

(* A shift or rotation by n, of any operand size, is one by 1 followed by  *)
(* one by n - 1: the closed formulas of prim_ops.c:830 to 1500 and their   *)
(* counts modulo the width, or the width plus 1, move every bit, the carry *)
(* and the flags of the result as single steps would.                      *)
THEOREM ShiftsAreStepwise == Spec => ShiftsStepwise
<1>1. IInv /\ [Next]_vars =>
        [LET op == ins'.op
             n  == ins'.s
             one  == StepB(op, acc, 1, flags)
             rest == StepB(op, one.r, n - 1, one.f)
         IN  op \in OpB /\ n > 1 /\ Regular(op, n) =>
               acc' = rest.r /\ flags' \ {"OF"} = rest.f \ {"OF"}]_vars
  BY StepStepwise
<1> QED BY InitInv, StepInv, <1>1, PTL DEF Spec, ShiftsStepwise

-----------------------------------------------------------------------------
(* Words as numbers: Value and Bin convert between the two. *)
LEMMA ValueIs ==
  ASSUME NEW w \in Nat, w <= MaxBits, NEW d \in Words(w)
  PROVE  Value[d] = Num(d) /\ Num(d) \in 0 .. (2 ^ w - 1)
<1>1. d \in SUBSET (0 .. (w - 1)) /\ d \in SUBSET (0 .. (MaxBits - 1))
  BY WidthAssumption DEF Words, Bits
<1>2. IsFiniteSet(d) /\ d \subseteq Nat
  BY <1>1, WordsFinite
<1>3. Value[d] = ValueOf(d)
  BY <1>1 DEF Value
<1>4. ValueOf(d) = Num(d)
  BY <1>2, SumOfPowers DEF ValueOf, Num
<1>5. Num(d) \in 0 .. (2 ^ w - 1)
  BY <1>1, NumBelow
<1> QED BY <1>3, <1>4, <1>5

(* Bin() finds the bits of a number, modulo the word.                      *)
LEMMA BinIs ==
  ASSUME NEW w \in Nat, NEW n \in Int
  PROVE  Bin(w, n) = BitsOf(w, n) /\ Num(Bin(w, n)) = n % 2 ^ w
<1>1. Bin(w, n) = BitsOf(w, n)
  BY DEF Bin, BitsOf, Bits
<1> QED BY <1>1, NumOfBits

(* Twice a number and a little: odd when the little is *)
LEMMA OddAbove ==
  ASSUME NEW H \in Int, NEW u \in -2 .. 3
  PROVE  (2 * H + u) % 2 = 1 <=> u \in {-1, 1, 3}
<1>2. \A h \in Int : (2 * h + 0) % 2 = 0 /\ (2 * h + 1) % 2 = 1
  <2>1. 2 \in Nat \ {0} /\ 0 \in 0 .. (2 - 1) /\ 1 \in 0 .. (2 - 1)
    OBVIOUS
  <2> QED BY <2>1, DivModUnique
<1>3. CASE u \in {-2, 0, 2}
  <2>1. CASE u = -2
    <3>1. 2 * H + u = 2 * (H - 1) + 0 /\ H - 1 \in Int
      BY <2>1
    <3> QED BY <1>2, <2>1, <3>1
  <2>2. CASE u = 0
    BY <1>2, <2>2
  <2>3. CASE u = 2
    <3>1. 2 * H + u = 2 * (H + 1) + 0 /\ H + 1 \in Int
      BY <2>3
    <3> QED BY <1>2, <2>3, <3>1
  <2> QED BY <1>3, <2>1, <2>2, <2>3
<1>4. CASE u \in {-1, 1, 3}
  <2>1. CASE u = -1
    <3>1. 2 * H + u = 2 * (H - 1) + 1 /\ H - 1 \in Int
      BY <2>1
    <3> QED BY <1>2, <2>1, <3>1
  <2>2. CASE u = 1
    BY <1>2, <2>2
  <2>3. CASE u = 3
    <3>1. 2 * H + u = 2 * (H + 1) + 1 /\ H + 1 \in Int
      BY <2>3
    <3> QED BY <1>2, <2>3, <3>1
  <2> QED BY <1>4, <2>1, <2>2, <2>3
<1> QED BY <1>3, <1>4

(* A word at bit i: what is below, the bit, the next bit's share *)
LEMMA WordAt ==
  ASSUME NEW w \in Nat, NEW d \in Words(w), NEW i \in Nat
  PROVE  /\ Num(Low(d, i)) \in 0 .. (2 ^ i - 1)
         /\ Num(Low(d, i + 1)) = Num(Low(d, i)) + OneAt(d, i) * 2 ^ i
         /\ OneAt(d, i) \in 0 .. 1 /\ (i \in d <=> OneAt(d, i) = 1)
         /\ \E G \in Nat : Num(d) = 2 ^ i * (2 * G + OneAt(d, i)) + Num(Low(d, i))
         /\ Num(d) % 2 ^ i = Num(Low(d, i))
<1>1. d \in SUBSET (0 .. (w - 1))
  BY DEF Words, Bits
<1>2. OneAt(d, i) \in 0 .. 1 /\ (i \in d <=> OneAt(d, i) = 1)
  BY DEF OneAt
<1> QED BY <1>1, <1>2, NumBits

CarryInto(w, d, s, c)  == {i \in 0 .. w : Num(Low(d, i)) + Num(Low(s, i)) + c >= 2 ^ i}
BorrowInto(w, d, s, c) == {i \in 0 .. w : Num(Low(d, i)) < Num(Low(s, i)) + c}

(* One position of an adder; x, y are the bits, D and S what is below. *)
Adds(n, P, D, S, c, x, y) ==
  /\ (n \div P) % 2 = 1 <=> (((x = 1) # (y = 1)) # (D + S + c >= P))
  /\ (D + x * P) + (S + y * P) + c >= 2 * P <=>
       (x = 1 /\ y = 1) \/ (D + S + c >= P /\ (x = 1 \/ y = 1))

Subtracts(n, P, D, S, c, x, y) ==
  /\ (n \div P) % 2 = 1 <=> (((x = 1) # (y = 1)) # (D < S + c))
  /\ (D + x * P) < (S + y * P) + c <=>
       (x # 1 /\ y = 1) \/ (D < S + c /\ (x # 1 \/ y = 1))

(* One column of an addition: digit and carry.                             *)
LEMMA AddAt ==
  ASSUME NEW P \in Nat \ {0}, NEW D \in 0 .. (P - 1), NEW S \in 0 .. (P - 1),
         NEW c \in 0 .. 1, NEW x \in 0 .. 1, NEW y \in 0 .. 1, NEW H \in Int,
         NEW n, n = P * (2 * H + (x + y)) + (D + S + c)
  PROVE  Adds(n, P, D, S, c, x, y)
<1>1. CASE D + S + c >= P
  <2> DEFINE z == D + S + c - P
             u == x + y + 1
  <2>1. z \in 0 .. (P - 1) /\ u \in -2 .. 3
    BY <1>1
  <2>2. n = P * (2 * H + u) + z
    <3>1. \A h, p, t \in Int :
            p * (2 * h + t) + (D + S + c) = p * (2 * h + (t + 1)) + (D + S + c - p)
      BY SMT
    <3> QED BY <3>1
  <2>3. (n \div P) % 2 = 1 <=> u \in {-1, 1, 3}
    <3> HIDE DEF z, u
    <3>1. n \div P = 2 * H + u
      <4>1. 2 * H + u \in Int
        BY <2>1
      <4> QED BY <2>1, <2>2, <4>1, DivModUnique
    <3> QED BY <2>1, <3>1, OddAbove
  <2>4. (D + x * P) + (S + y * P) + c >= 2 * P <=> x = 1 \/ y = 1
    BY <1>1, SMT
  <2> QED BY <1>1, <2>3, <2>4 DEF Adds
<1>2. CASE ~ (D + S + c >= P)
  <2> DEFINE z == D + S + c
             u == x + y
  <2>1. z \in 0 .. (P - 1) /\ u \in -2 .. 3
    BY <1>2
  <2>3. (n \div P) % 2 = 1 <=> u \in {-1, 1, 3}
    <3> HIDE DEF z, u
    <3>1. n = P * (2 * H + u) + z
      BY DEF z, u
    <3>2. n \div P = 2 * H + u
      <4>1. 2 * H + u \in Int
        BY <2>1
      <4> QED BY <2>1, <3>1, <4>1, DivModUnique
    <3> QED BY <2>1, <3>2, OddAbove
  <2>4. (D + x * P) + (S + y * P) + c >= 2 * P <=> x = 1 /\ y = 1
    BY <1>2, SMT
  <2> QED BY <1>2, <2>3, <2>4 DEF Adds
<1> QED BY <1>1, <1>2

(* One column of a subtraction: digit and borrow.                          *)
LEMMA SubAt ==
  ASSUME NEW P \in Nat \ {0}, NEW D \in 0 .. (P - 1), NEW S \in 0 .. (P - 1),
         NEW c \in 0 .. 1, NEW x \in 0 .. 1, NEW y \in 0 .. 1, NEW H \in Int,
         NEW n, n = P * (2 * H + (x - y)) + (D - S - c)
  PROVE  Subtracts(n, P, D, S, c, x, y)
<1>1. CASE D < S + c
  <2> DEFINE z == D - S - c + P
             u == x - y - 1
  <2>1. z \in 0 .. (P - 1) /\ u \in -2 .. 3
    BY <1>1
  <2>2. n = P * (2 * H + u) + z
    <3>1. \A h, p, t \in Int :
            p * (2 * h + t) + (D - S - c) = p * (2 * h + (t - 1)) + (D - S - c + p)
      BY SMT
    <3> QED BY <3>1
  <2>3. (n \div P) % 2 = 1 <=> u \in {-1, 1, 3}
    <3> HIDE DEF z, u
    <3>1. n \div P = 2 * H + u
      <4>1. 2 * H + u \in Int
        BY <2>1
      <4> QED BY <2>1, <2>2, <4>1, DivModUnique
    <3> QED BY <2>1, <3>1, OddAbove
  <2>4. (D + x * P) < (S + y * P) + c <=> x # 1 \/ y = 1
    BY <1>1, SMT
  <2> QED BY <1>1, <2>3, <2>4 DEF Subtracts
<1>2. CASE ~ (D < S + c)
  <2> DEFINE z == D - S - c
             u == x - y
  <2>1. z \in 0 .. (P - 1) /\ u \in -2 .. 3
    BY <1>2
  <2>3. (n \div P) % 2 = 1 <=> u \in {-1, 1, 3}
    <3> HIDE DEF z, u
    <3>1. n = P * (2 * H + u) + z
      BY DEF z, u
    <3>2. n \div P = 2 * H + u
      <4>1. 2 * H + u \in Int
        BY <2>1
      <4> QED BY <2>1, <3>1, <4>1, DivModUnique
    <3> QED BY <2>1, <3>2, OddAbove
  <2>4. (D + x * P) < (S + y * P) + c <=> x # 1 /\ y = 1
    BY <1>2, SMT
  <2> QED BY <1>2, <2>3, <2>4 DEF Subtracts
<1> QED BY <1>1, <1>2

(* The carries and borrows of the numbers below each bit ripple. *)
LEMMA SumRipples ==
  ASSUME NEW w \in Nat, NEW d \in Words(w), NEW s \in Words(w), NEW c \in 0 .. 1
  PROVE  Ripples(w, d, s, Bin(w, Num(d) + Num(s) + c), CarryInto(w, d, s, c), FALSE)
<1> DEFINE n == Num(d) + Num(s) + c
           r == Bin(w, n)
           k == CarryInto(w, d, s, c)
<1>1. ASSUME NEW i \in Bits(w)
      PROVE  /\ i \in r <=> (((i \in d) # (i \in s)) # (i \in k))
             /\ i + 1 \in k <=> (i \in d /\ i \in s) \/ (i \in k /\ (i \in d \/ i \in s))
  <2> DEFINE P == 2 ^ i
             D == Num(Low(d, i))
             S == Num(Low(s, i))
             x == OneAt(d, i)
             y == OneAt(s, i)
  <2>1. i \in Nat /\ i \in 0 .. w /\ i + 1 \in 0 .. w
    BY DEF Bits
  <2>2. P \in Nat \ {0} /\ 2 ^ (i + 1) = 2 * P
    BY <2>1, PowerIsNat, PowerNext
  <2>3. /\ D \in 0 .. (P - 1) /\ Num(Low(d, i + 1)) = D + x * P
        /\ x \in 0 .. 1 /\ (i \in d <=> x = 1)
        /\ \E G \in Nat : Num(d) = P * (2 * G + x) + D
    BY <2>1, WordAt
  <2>4. /\ S \in 0 .. (P - 1) /\ Num(Low(s, i + 1)) = S + y * P
        /\ y \in 0 .. 1 /\ (i \in s <=> y = 1)
        /\ \E G \in Nat : Num(s) = P * (2 * G + y) + S
    BY <2>1, WordAt
  <2>5. i \in r <=> (n \div P) % 2 = 1
    BY DEF Bin
  <2>6. i \in k <=> D + S + c >= P
    BY <2>1 DEF CarryInto
  <2>7. i + 1 \in k <=> (D + x * P) + (S + y * P) + c >= 2 * P
    <3>1. i + 1 \in k <=> Num(Low(d, i + 1)) + Num(Low(s, i + 1)) + c >= 2 ^ (i + 1)
      BY <2>1 DEF CarryInto
    <3> HIDE DEF k, D, S, x, y, P
    <3> QED BY <2>2, <2>3, <2>4, <3>1
  <2> HIDE DEF P, D, S, x, y, r, k
  <2>8. PICK G \in Nat : Num(d) = P * (2 * G + x) + D
    BY <2>3
  <2>9. PICK H \in Nat : Num(s) = P * (2 * H + y) + S
    BY <2>4
  <2>10. n = P * (2 * (G + H) + (x + y)) + (D + S + c) /\ G + H \in Int
    <3>1. \A p, g, h, a, b, e, f \in Int :
             (p * (2 * g + a) + e) + (p * (2 * h + b) + f) + c
               = p * (2 * (g + h) + (a + b)) + (e + f + c)
      BY SMT
    <3>2. D \in Int /\ S \in Int /\ P \in Int /\ x \in Int /\ y \in Int
      BY <2>2, <2>3, <2>4
    <3> QED BY <2>8, <2>9, <3>1, <3>2
  <2> HIDE DEF n
  <2>11. Adds(n, P, D, S, c, x, y)
    BY <2>2, <2>3, <2>4, <2>10, AddAt
  <2> QED BY <2>3, <2>4, <2>5, <2>6, <2>7, <2>11 DEF Adds
<1> HIDE DEF r, k
<1>2. Ripples(w, d, s, r, k, FALSE)
  BY <1>1 DEF Ripples
<1> QED BY <1>2 DEF r, k

(* The bits of a difference ripple through the borrows.                    *)
LEMMA DifferenceRipples ==
  ASSUME NEW w \in Nat, NEW d \in Words(w), NEW s \in Words(w), NEW c \in 0 .. 1
  PROVE  Ripples(w, d, s, Bin(w, Num(d) - Num(s) - c), BorrowInto(w, d, s, c), TRUE)
<1> DEFINE n == Num(d) - Num(s) - c
           r == Bin(w, n)
           k == BorrowInto(w, d, s, c)
<1>1. ASSUME NEW i \in Bits(w)
      PROVE  /\ i \in r <=> (((i \in d) # (i \in s)) # (i \in k))
             /\ i + 1 \in k <=> (i \notin d /\ i \in s) \/ (i \in k /\ (i \notin d \/ i \in s))
  <2> DEFINE P == 2 ^ i
             D == Num(Low(d, i))
             S == Num(Low(s, i))
             x == OneAt(d, i)
             y == OneAt(s, i)
  <2>1. i \in Nat /\ i \in 0 .. w /\ i + 1 \in 0 .. w
    BY DEF Bits
  <2>2. P \in Nat \ {0} /\ 2 ^ (i + 1) = 2 * P
    BY <2>1, PowerIsNat, PowerNext
  <2>3. /\ D \in 0 .. (P - 1) /\ Num(Low(d, i + 1)) = D + x * P
        /\ x \in 0 .. 1 /\ (i \in d <=> x = 1)
        /\ \E G \in Nat : Num(d) = P * (2 * G + x) + D
    BY <2>1, WordAt
  <2>4. /\ S \in 0 .. (P - 1) /\ Num(Low(s, i + 1)) = S + y * P
        /\ y \in 0 .. 1 /\ (i \in s <=> y = 1)
        /\ \E G \in Nat : Num(s) = P * (2 * G + y) + S
    BY <2>1, WordAt
  <2>5. i \in r <=> (n \div P) % 2 = 1
    BY DEF Bin
  <2>6. i \in k <=> D < S + c
    BY <2>1 DEF BorrowInto
  <2>7. i + 1 \in k <=> (D + x * P) < (S + y * P) + c
    <3>1. i + 1 \in k <=> Num(Low(d, i + 1)) < Num(Low(s, i + 1)) + c
      BY <2>1 DEF BorrowInto
    <3> HIDE DEF k, D, S, x, y, P
    <3> QED BY <2>2, <2>3, <2>4, <3>1
  <2> HIDE DEF P, D, S, x, y, r, k
  <2>8. PICK G \in Nat : Num(d) = P * (2 * G + x) + D
    BY <2>3
  <2>9. PICK H \in Nat : Num(s) = P * (2 * H + y) + S
    BY <2>4
  <2>10. n = P * (2 * (G - H) + (x - y)) + (D - S - c) /\ G - H \in Int
    <3>1. \A p, g, h, a, b, e, f \in Int :
             (p * (2 * g + a) + e) - (p * (2 * h + b) + f) - c
               = p * (2 * (g - h) + (a - b)) + (e - f - c)
      BY SMT
    <3>2. D \in Int /\ S \in Int /\ P \in Int /\ x \in Int /\ y \in Int
      BY <2>2, <2>3, <2>4
    <3> QED BY <2>8, <2>9, <3>1, <3>2
  <2> HIDE DEF n
  <2>11. Subtracts(n, P, D, S, c, x, y)
    BY <2>2, <2>3, <2>4, <2>10, SubAt
  <2> QED BY <2>3, <2>4, <2>5, <2>6, <2>7, <2>11 DEF Subtracts
<1> HIDE DEF r, k
<1>2. Ripples(w, d, s, r, k, TRUE)
  BY <1>1 DEF Ripples
<1> QED BY <1>2 DEF r, k

-----------------------------------------------------------------------------
(* c holds the carries out of the positions, k those into them. *)
CarriedOut(w, c, k) == \A i : i \in c <=> i \in Bits(w) /\ i + 1 \in k

(* The carry chain of the code marks the carries.                          *)
LEMMA RippledSum ==
  ASSUME NEW w \in Nat, NEW d \in Words(w), NEW s \in Words(w), NEW r \in Words(w),
         NEW k \in SUBSET (0 .. w), Ripples(w, d, s, r, k, FALSE)
  PROVE  CarriedOut(w, Carries(w, d, s, r), k)
<1>1. d \subseteq Bits(w) /\ s \subseteq Bits(w) /\ r \subseteq Bits(w)
  BY DEF Words
<1>2. \A i \in Bits(w) : i \in Carries(w, d, s, r) <=> i + 1 \in k
  BY DEF Carries, Not, Ripples
<1>3. Carries(w, d, s, r) \subseteq Bits(w)
  BY <1>1 DEF Carries, Not
<1> QED BY <1>2, <1>3 DEF CarriedOut

(* The borrow chain of the code marks the borrows.                         *)
LEMMA RippledDifference ==
  ASSUME NEW w \in Nat, NEW d \in Words(w), NEW s \in Words(w), NEW r \in Words(w),
         NEW k \in SUBSET (0 .. w), Ripples(w, d, s, r, k, TRUE)
  PROVE  /\ CarriedOut(w, Borrows(w, d, s, r), k)
         /\ d = {} => CarriedOut(w, r \cup s, k)
<1>1. d \subseteq Bits(w) /\ s \subseteq Bits(w) /\ r \subseteq Bits(w)
  BY DEF Words
<1>2. \A i \in Bits(w) : i \in Borrows(w, d, s, r) <=> i + 1 \in k
  BY DEF Borrows, Not, Ripples
<1>3. Borrows(w, d, s, r) \subseteq Bits(w)
  BY <1>1 DEF Borrows, Not
<1>4. CarriedOut(w, Borrows(w, d, s, r), k)
  BY <1>2, <1>3 DEF CarriedOut
<1>5. ASSUME d = {} PROVE r \cup s = Borrows(w, d, s, r)
  BY <1>1, <1>5 DEF Borrows, Not
<1> QED BY <1>4, <1>5

(* The top bit and the rest of a word.                                     *)
LEMMA WordTop ==
  ASSUME NEW w \in Nat \ {0}, NEW d \in Words(w)
  PROVE  /\ 2 ^ (w - 1) \in Nat \ {0} /\ 2 ^ w = 2 * 2 ^ (w - 1)
         /\ Low(d, w) = d
         /\ Num(d) = Num(Low(d, w - 1)) + OneAt(d, w - 1) * 2 ^ (w - 1)
         /\ Num(Low(d, w - 1)) \in 0 .. (2 ^ (w - 1) - 1)
         /\ OneAt(d, w - 1) \in 0 .. 1 /\ (w - 1 \in d <=> OneAt(d, w - 1) = 1)
<1>1. w - 1 \in Nat /\ (w - 1) + 1 = w
  OBVIOUS
<1>2. 2 ^ (w - 1) \in Nat \ {0} /\ 2 ^ w = 2 * 2 ^ (w - 1)
  BY <1>1, PowerIsNat, PowerNext
<1>3. Low(d, w) = d
  <2>1. \A j \in d : j < w
    BY DEF Words, Bits
  <2> QED BY <2>1 DEF Low
<1>4. /\ Num(Low(d, w - 1)) \in 0 .. (2 ^ (w - 1) - 1)
      /\ Num(Low(d, (w - 1) + 1)) = Num(Low(d, w - 1)) + OneAt(d, w - 1) * 2 ^ (w - 1)
      /\ OneAt(d, w - 1) \in 0 .. 1 /\ (w - 1 \in d <=> OneAt(d, w - 1) = 1)
  BY <1>1, WordAt
<1> QED BY <1>1, <1>2, <1>3, <1>4

(* ZF and SF of a result *)
LEMMA ZspIs ==
  ASSUME NEW w \in Nat \ {0}, NEW n \in Int
  PROVE  /\ Bin(w, n) = {} <=> n % 2 ^ w = 0
         /\ Msb(w) \in Bin(w, n) <=> n % 2 ^ w >= 2 ^ (w - 1)
<1> DEFINE r == Bin(w, n)
<1>1. r \in Words(w) /\ r \in SUBSET (0 .. (w - 1)) /\ w \in Nat
  BY DEF Bin, Words, Bits
<1>2. Num(r) = n % 2 ^ w
  BY <1>1, BinIs
<1> HIDE DEF r
<1>4. r = {} <=> Num(r) = 0
  BY <1>1, EmptyIsZero
<1>5. w - 1 \in r <=> Num(r) >= 2 ^ (w - 1)
  <2> DEFINE Q == 2 ^ (w - 1)
             L == Num(Low(r, w - 1))
             b == OneAt(r, w - 1)
  <2>1. /\ Q \in Nat \ {0} /\ Num(r) = L + b * Q
        /\ L \in 0 .. (Q - 1) /\ b \in 0 .. 1 /\ (w - 1 \in r <=> b = 1)
    BY <1>1, WordTop
  <2> HIDE DEF Q, L, b
  <2>2. CASE b = 1
    <3>1. Num(r) = L + Q
      BY <2>1, <2>2
    <3> QED BY <2>1, <2>2, <3>1 DEF Q
  <2>3. CASE b = 0
    <3>1. Num(r) = L
      BY <2>1, <2>3
    <3> QED BY <2>1, <2>3, <3>1 DEF Q
  <2> QED BY <2>1, <2>2, <2>3
<1> QED BY <1>2, <1>4, <1>5 DEF r, Msb

(* What the most significant bit of a word is worth *)
Top(w, d) == IF Msb(w) \in d THEN 2 ^ w ELSE 0

(* A carry chain tells when the result of n units, of sn units with sign   *)
(* and of ln units in the low digit does not fit.                          *)
Chained(w, k, n, sn, ln) ==
  /\ Msb(w) \in k <=> n \notin 0 .. (2 ^ w - 1)
  /\ ((Msb(w) \in k) # (Msb(w) - 1 \in k)) <=> sn \notin -(2 ^ (w - 1)) .. (2 ^ (w - 1) - 1)
  /\ 3 \in k <=> ln \notin 0 .. 15

(* Carry into and out of the top bit differ: overflow.                     *)
LEMMA SignedSum ==
  ASSUME NEW Q \in Nat \ {0}, NEW D \in 0 .. (Q - 1), NEW S \in 0 .. (Q - 1), NEW c \in 0 .. 1,
         NEW x \in 0 .. 1, NEW y \in 0 .. 1
  PROVE  ((((D + x * Q) + (S + y * Q) + c) >= 2 * Q) # ((D + S + c) >= Q)) <=>
         ((D + x * Q) + (S + y * Q) + c) - x * (2 * Q) - y * (2 * Q) \notin -Q .. (Q - 1)
<1>1. CASE x = 0 /\ y = 0
  BY <1>1, SMT
<1>2. CASE x = 0 /\ y = 1
  BY <1>2, SMT
<1>3. CASE x = 1 /\ y = 0
  BY <1>3, SMT
<1>4. CASE x = 1 /\ y = 1
  BY <1>4, SMT
<1> QED BY <1>1, <1>2, <1>3, <1>4

(* Borrow into and out of the top bit differ: overflow.                    *)
LEMMA SignedDifference ==
  ASSUME NEW Q \in Nat \ {0}, NEW D \in 0 .. (Q - 1), NEW S \in 0 .. (Q - 1), NEW c \in 0 .. 1,
         NEW x \in 0 .. 1, NEW y \in 0 .. 1
  PROVE  (((D + x * Q) < (S + y * Q) + c) # (D < S + c)) <=>
         ((D + x * Q) - (S + y * Q) - c) - x * (2 * Q) + y * (2 * Q) \notin -Q .. (Q - 1)
<1>1. CASE x = 0 /\ y = 0
  BY <1>1, SMT
<1>2. CASE x = 0 /\ y = 1
  BY <1>2, SMT
<1>3. CASE x = 1 /\ y = 0
  BY <1>3, SMT
<1>4. CASE x = 1 /\ y = 1
  BY <1>4, SMT
<1> QED BY <1>1, <1>2, <1>3, <1>4

(* The modulus of a digit.                                                 *)
LEMMA Sixteen == 2 ^ 4 = 16
<1>1. 2 ^ 1 = 2 /\ 2 ^ (1 + 1) = 2 * 2 ^ 1 /\ 2 ^ (2 + 1) = 2 * 2 ^ 2 /\ 2 ^ (3 + 1) = 2 * 2 ^ 3
  BY PowerNext
<1>2. 1 + 1 = 2 /\ 2 + 1 = 3 /\ 3 + 1 = 4
  OBVIOUS
<1> QED BY <1>1, <1>2

(* The low four bits are the low digit.                                    *)
LEMMA LowDigit ==
  ASSUME NEW w \in Nat, NEW d \in Words(w)
  PROVE  Num(Low(d, 4)) = Num(d) % 16 /\ Num(d) % 16 \in 0 .. 15
<1>1. 4 \in Nat /\ 16 - 1 = 15
  OBVIOUS
<1>2. Num(d) % 2 ^ 4 = Num(Low(d, 4)) /\ Num(Low(d, 4)) \in 0 .. (2 ^ 4 - 1)
  BY <1>1, WordAt
<1> QED BY <1>1, <1>2, Sixteen

(* CF, OF and AF of a sum.                                                 *)
LEMMA SumChain ==
  ASSUME NEW w \in Nat, w >= 4, NEW d \in Words(w), NEW s \in Words(w), NEW c \in 0 .. 1
  PROVE  Chained(w, Carries(w, d, s, Bin(w, Num(d) + Num(s) + c)), Num(d) + Num(s) + c,
           (Num(d) + Num(s) + c) - Top(w, d) - Top(w, s), (Num(d) % 16) + (Num(s) % 16) + c)
<1> DEFINE n == Num(d) + Num(s) + c
           r == Bin(w, n)
           p == CarryInto(w, d, s, c)
           k == Carries(w, d, s, r)
           Q == 2 ^ (w - 1)
           D == Num(Low(d, w - 1))
           S == Num(Low(s, w - 1))
           x == OneAt(d, w - 1)
           y == OneAt(s, w - 1)
           sn == n - Top(w, d) - Top(w, s)
           ln == (Num(d) % 16) + (Num(s) % 16) + c
<1> SUFFICES Chained(w, k, n, sn, ln)
  OBVIOUS
<1>1. /\ Q \in Nat \ {0} /\ 2 ^ w = 2 * Q
      /\ Low(d, w) = d /\ Num(d) = D + x * Q /\ D \in 0 .. (Q - 1)
      /\ x \in 0 .. 1 /\ (w - 1 \in d <=> x = 1)
  BY WordTop
<1>2. /\ Low(s, w) = s /\ Num(s) = S + y * Q /\ S \in 0 .. (Q - 1)
      /\ y \in 0 .. 1 /\ (w - 1 \in s <=> y = 1)
  BY WordTop
<1>3. r \in Words(w) /\ p \in SUBSET (0 .. w)
  BY DEF Bin, Words, Bits, CarryInto
<1>4. Ripples(w, d, s, r, p, FALSE)
  BY SumRipples
<1>5. CarriedOut(w, k, p)
  <2> HIDE DEF r, p, n
  <2> QED BY <1>3, <1>4, RippledSum DEF k
<1>6. /\ w - 1 \in k <=> w \in p
      /\ w - 2 \in k <=> w - 1 \in p
      /\ 3 \in k <=> 4 \in p
  <2>1. /\ w - 1 \in Bits(w) /\ (w - 1) + 1 = w
        /\ w - 2 \in Bits(w) /\ (w - 2) + 1 = w - 1
        /\ 3 \in Bits(w) /\ 3 + 1 = 4
    BY DEF Bits
  <2> HIDE DEF k, p
  <2> QED BY <1>5, <2>1 DEF CarriedOut
<1>7. w \in p <=> n >= 2 * Q
  <2>1. w \in 0 .. w
    OBVIOUS
  <2> QED BY <1>1, <1>2, <2>1 DEF CarryInto
<1>8. w - 1 \in p <=> D + S + c >= Q
  <2>1. w - 1 \in 0 .. w
    OBVIOUS
  <2> QED BY <2>1 DEF CarryInto
<1>9. 4 \in p <=> (Num(d) % 16) + (Num(s) % 16) + c >= 16
  <2>1. 4 \in 0 .. w
    OBVIOUS
  <2>2. Num(Low(d, 4)) = Num(d) % 16 /\ Num(Low(s, 4)) = Num(s) % 16
    BY LowDigit
  <2> QED BY <2>1, <2>2, Sixteen DEF CarryInto
<1>10. Top(w, d) = x * (2 * Q) /\ Top(w, s) = y * (2 * Q)
  <2>1. \A a \in Nat : 0 * a = 0 /\ 1 * a = a
    OBVIOUS
  <2>2. 2 * Q \in Nat
    BY <1>1
  <2> HIDE DEF x, y, Q
  <2> QED BY <1>1, <1>2, <2>1, <2>2 DEF Top, Msb
<1>11. n \in Int /\ (n \notin 0 .. (2 ^ w - 1) <=> n >= 2 * Q)
  <2>1. n >= 0 /\ n \in Int
    <3>1. Num(d) \in Nat /\ Num(s) \in Nat
      <4>1. d \in SUBSET (0 .. (w - 1)) /\ s \in SUBSET (0 .. (w - 1))
        BY DEF Words, Bits
      <4> QED BY <4>1, WordsFinite
    <3> QED BY <3>1
  <2> HIDE DEF n, Q
  <2> QED BY <1>1, <2>1
<1>12. (Num(d) % 16) \in 0 .. 15 /\ (Num(s) % 16) \in 0 .. 15
  BY LowDigit
<1>13. ((n >= 2 * Q) # (D + S + c >= Q)) <=> n - x * (2 * Q) - y * (2 * Q) \notin -Q .. (Q - 1)
  <2>1. n = (D + x * Q) + (S + y * Q) + c
    BY <1>1, <1>2
  <2> HIDE DEF n, Q, D, S, x, y
  <2> QED BY <1>1, <1>2, <2>1, SignedSum
<1>14. sn = n - x * (2 * Q) - y * (2 * Q)
  <2> HIDE DEF n, x, y, Q
  <2> QED BY <1>10
<1>17. (Num(d) % 16) + (Num(s) % 16) + c >= 16
         <=> (Num(d) % 16) + (Num(s) % 16) + c \notin 0 .. 15
  BY <1>12
<1> HIDE DEF n, k, p, D, S, x, y, Q, sn
<1>15. Msb(w) = w - 1 /\ Msb(w) - 1 = w - 2
  BY DEF Msb
<1>16. Chained(w, k, n, sn, ln)
  <2>1. ((w - 1 \in k) # (w - 2 \in k)) <=> sn \notin -Q .. (Q - 1)
    BY <1>6, <1>7, <1>8, <1>13, <1>14
  <2>2. 3 \in k <=> ln \notin 0 .. 15
    BY <1>6, <1>9, <1>17
  <2>3. w - 1 \in k <=> n \notin 0 .. (2 ^ w - 1)
    BY <1>6, <1>7, <1>11
  <2> HIDE DEF ln
  <2> QED BY <1>15, <2>1, <2>2, <2>3 DEF Chained, Q
<1> QED BY <1>16

(* CF, OF and AF of borrows.                                               *)
LEMMA BorrowsTell ==
  ASSUME NEW w \in Nat, w >= 4, NEW d \in Words(w), NEW s \in Words(w), NEW c \in 0 .. 1,
         NEW k, CarriedOut(w, k, BorrowInto(w, d, s, c))
  PROVE  Chained(w, k, Num(d) - Num(s) - c,
           (Num(d) - Num(s) - c) - Top(w, d) + Top(w, s), (Num(d) % 16) - (Num(s) % 16) - c)
<1> DEFINE n == Num(d) - Num(s) - c
           p == BorrowInto(w, d, s, c)
           Q == 2 ^ (w - 1)
           D == Num(Low(d, w - 1))
           S == Num(Low(s, w - 1))
           x == OneAt(d, w - 1)
           y == OneAt(s, w - 1)
           sn == n - Top(w, d) + Top(w, s)
           ln == (Num(d) % 16) - (Num(s) % 16) - c
<1> SUFFICES Chained(w, k, n, sn, ln)
  OBVIOUS
<1>1. /\ Q \in Nat \ {0} /\ 2 ^ w = 2 * Q
      /\ Low(d, w) = d /\ Num(d) = D + x * Q /\ D \in 0 .. (Q - 1)
      /\ x \in 0 .. 1 /\ (w - 1 \in d <=> x = 1)
  BY WordTop
<1>2. /\ Low(s, w) = s /\ Num(s) = S + y * Q /\ S \in 0 .. (Q - 1)
      /\ y \in 0 .. 1 /\ (w - 1 \in s <=> y = 1)
  BY WordTop
<1>3. CarriedOut(w, k, p)
  OBVIOUS
<1>4. /\ w - 1 \in k <=> w \in p
      /\ w - 2 \in k <=> w - 1 \in p
      /\ 3 \in k <=> 4 \in p
  <2>1. /\ w - 1 \in Bits(w) /\ (w - 1) + 1 = w
        /\ w - 2 \in Bits(w) /\ (w - 2) + 1 = w - 1
        /\ 3 \in Bits(w) /\ 3 + 1 = 4
    BY DEF Bits
  <2> HIDE DEF p
  <2> QED BY <1>3, <2>1 DEF CarriedOut
<1>5. w \in p <=> Num(d) < Num(s) + c
  <2>1. w \in 0 .. w
    OBVIOUS
  <2> QED BY <1>1, <1>2, <2>1 DEF BorrowInto
<1>6. w - 1 \in p <=> D < S + c
  <2>1. w - 1 \in 0 .. w
    OBVIOUS
  <2> QED BY <2>1 DEF BorrowInto
<1>7. (Num(d) % 16) \in 0 .. 15 /\ (Num(s) % 16) \in 0 .. 15
  BY LowDigit
<1>8. 4 \in p <=> ln \notin 0 .. 15
  <2>1. 4 \in 0 .. w
    OBVIOUS
  <2>2. Num(Low(d, 4)) = Num(d) % 16 /\ Num(Low(s, 4)) = Num(s) % 16
    BY LowDigit
  <2>3. 4 \in p <=> (Num(d) % 16) < (Num(s) % 16) + c
    BY <2>1, <2>2, Sixteen DEF BorrowInto
  <2> QED BY <1>7, <2>3
<1>9. Top(w, d) = x * (2 * Q) /\ Top(w, s) = y * (2 * Q)
  <2>1. \A a \in Nat : 0 * a = 0 /\ 1 * a = a
    OBVIOUS
  <2>2. 2 * Q \in Nat
    BY <1>1
  <2> HIDE DEF x, y, Q
  <2> QED BY <1>1, <1>2, <2>1, <2>2 DEF Top, Msb
<1>10. n \notin 0 .. (2 ^ w - 1) <=> Num(d) < Num(s) + c
  <2>1. Num(d) \in 0 .. (2 ^ w - 1) /\ Num(s) \in Nat
    <3>1. d \in SUBSET (0 .. (w - 1)) /\ s \in SUBSET (0 .. (w - 1))
      BY DEF Words, Bits
    <3> QED BY <3>1, WordsFinite, NumBelow
  <2>2. 2 ^ w \in Nat
    BY PowerIsNat
  <2> QED BY <2>1, <2>2
<1>11. ((Num(d) < Num(s) + c) # (D < S + c)) <=> n - x * (2 * Q) + y * (2 * Q) \notin -Q .. (Q - 1)
  <2>1. n = (D + x * Q) - (S + y * Q) - c
    BY <1>1, <1>2
  <2> HIDE DEF n, Q, D, S, x, y
  <2> QED BY <1>1, <1>2, <2>1, SignedDifference
<1>12. sn = n - x * (2 * Q) + y * (2 * Q)
  <2> HIDE DEF n, x, y, Q
  <2> QED BY <1>9
<1> HIDE DEF n, p, D, S, x, y, Q, sn, ln
<1>13. Msb(w) = w - 1 /\ Msb(w) - 1 = w - 2
  BY DEF Msb
<1>14. ((w - 1 \in k) # (w - 2 \in k)) <=> sn \notin -Q .. (Q - 1)
  BY <1>4, <1>5, <1>6, <1>11, <1>12
<1>15. 3 \in k <=> ln \notin 0 .. 15
  BY <1>4, <1>8
<1>16. w - 1 \in k <=> n \notin 0 .. (2 ^ w - 1)
  BY <1>4, <1>5, <1>10
<1> QED BY <1>13, <1>14, <1>15, <1>16 DEF Chained, Q

(* CF, OF and AF of a difference.                                          *)
LEMMA DifferenceChain ==
  ASSUME NEW w \in Nat, w >= 4, NEW d \in Words(w), NEW s \in Words(w), NEW c \in 0 .. 1
  PROVE  LET n  == Num(d) - Num(s) - c
             sn == n - Top(w, d) + Top(w, s)
             ln == (Num(d) % 16) - (Num(s) % 16) - c
             r  == Bin(w, n)
         IN  /\ Chained(w, Borrows(w, d, s, r), n, sn, ln)
             /\ d = {} => Chained(w, r \cup s, n, sn, ln)
<1> DEFINE n == Num(d) - Num(s) - c
           sn == n - Top(w, d) + Top(w, s)
           ln == (Num(d) % 16) - (Num(s) % 16) - c
           r  == Bin(w, n)
           p == BorrowInto(w, d, s, c)
<1>1. r \in Words(w) /\ p \in SUBSET (0 .. w)
  BY DEF Bin, Words, Bits, BorrowInto
<1>2. Ripples(w, d, s, r, p, TRUE)
  BY DifferenceRipples
<1>3. /\ CarriedOut(w, Borrows(w, d, s, r), p)
      /\ d = {} => CarriedOut(w, r \cup s, p)
  <2> HIDE DEF r, p
  <2> QED BY <1>1, <1>2, RippledDifference
<1>4. \A k : CarriedOut(w, k, p) => Chained(w, k, n, sn, ln)
  BY BorrowsTell
<1> HIDE DEF n, sn, ln, r, p
<1>5. Chained(w, Borrows(w, d, s, r), n, sn, ln)
  BY <1>3, <1>4
<1>6. ASSUME d = {} PROVE Chained(w, r \cup s, n, sn, ln)
  BY <1>3, <1>4, <1>6
<1> QED BY <1>5, <1>6 DEF n, sn, ln, r

(* What the flags f of an instruction tell of the integers n, sn and ln    *)
Tells(w, f, n, sn, ln) ==
  /\ "OF" \in f <=> sn \notin -(2 ^ (w - 1)) .. (2 ^ (w - 1) - 1)
  /\ "AF" \in f <=> ln \notin 0 .. 15
  /\ "ZF" \in f <=> n % 2 ^ w = 0
  /\ "SF" \in f <=> n % 2 ^ w >= 2 ^ (w - 1)

(* The six flags that the chain and the result set.                        *)
LEMMA FlagsTell ==
  ASSUME NEW w \in Nat \ {0}, NEW n \in Int, NEW sn, NEW ln, NEW k, Chained(w, k, n, sn, ln),
         NEW c, c \subseteq {"CF"}
  PROVE  LET f == c \cup Zsp(w, Bin(w, n)) \cup Chain(w, k)
         IN  Tells(w, f, n, sn, ln) /\ ("CF" \in f <=> "CF" \in c)
<1> DEFINE r == Bin(w, n)
           f == c \cup Zsp(w, r) \cup Chain(w, k)
<1>1. "OF" \in f <=> (Msb(w) \in k) # (Msb(w) - 1 \in k)
  BY DEF Zsp, Chain, If
<1>2. "AF" \in f <=> 3 \in k
  BY DEF Zsp, Chain, If
<1>3. "ZF" \in f <=> r = {}
  BY DEF Zsp, Chain, If
<1>4. "SF" \in f <=> Msb(w) \in r
  BY DEF Zsp, Chain, If
<1>5. "CF" \in f <=> "CF" \in c
  BY DEF Zsp, Chain, If
<1>6. /\ r = {} <=> n % 2 ^ w = 0
      /\ Msb(w) \in r <=> n % 2 ^ w >= 2 ^ (w - 1)
  BY ZspIs
<1> HIDE DEF f, r
<1>7. Tells(w, f, n, sn, ln)
  BY <1>1, <1>2, <1>3, <1>4, <1>6 DEF Tells, Chained
<1> QED BY <1>5, <1>7 DEF f, r

(* What an instruction of operand size w hands back behind the integers *)
Computes(w, p, n, sn, ln) == p.r = Bin(w, n) /\ Tells(w, p.f, n, sn, ln)

(* add and adc: result and flags.                                          *)
LEMMA AddComputes ==
  ASSUME NEW w \in Nat, w >= 4, w <= MaxBits, NEW d \in Words(w), NEW s \in Words(w),
         NEW c \in 0 .. 1, NEW f
  PROVE  LET n == Value[d] + Value[s] + c
             p == AddCarry(w, d, s, c, f)
         IN  /\ Computes(w, p, n, n - Top(w, d) - Top(w, s), (Value[d] % 16) + (Value[s] % 16) + c)
             /\ "CF" \in p.f <=> n \notin 0 .. (2 ^ w - 1)
<1> DEFINE n == Value[d] + Value[s] + c
           sn == n - Top(w, d) - Top(w, s)
           ln == (Value[d] % 16) + (Value[s] % 16) + c
           r == Bin(w, n)
           k == Carries(w, d, s, r)
           x == If(n >= 2 ^ w, "CF")
           g == x \cup Zsp(w, r) \cup Chain(w, k)
           p == AddCarry(w, d, s, c, f)
<1>1. /\ Value[d] = Num(d) /\ Num(d) \in 0 .. (2 ^ w - 1)
      /\ Value[s] = Num(s) /\ Num(s) \in 0 .. (2 ^ w - 1) /\ 2 ^ w \in Nat
  BY ValueIs, PowerIsNat
<1>2. Chained(w, k, n, sn, ln)
  BY <1>1, SumChain
<1>3. p.r = r /\ p.f = g
  BY DEF AddCarry, Result
<1>4. n \in Nat /\ ("CF" \in x <=> n \notin 0 .. (2 ^ w - 1)) /\ x \subseteq {"CF"}
  <2>1. n \in Nat
    BY <1>1
  <2>2. n \notin 0 .. (2 ^ w - 1) <=> n >= 2 ^ w
    <3> HIDE DEF n
    <3> QED BY <1>1, <2>1
  <2> QED BY <2>1, <2>2 DEF If
<1> HIDE DEF n, sn, ln, k, x, p
<1>5. Tells(w, g, n, sn, ln) /\ ("CF" \in g <=> "CF" \in x)
  <2>1. w \in Nat \ {0} /\ n \in Int
    BY <1>4
  <2> QED BY <1>2, <1>4, <2>1, FlagsTell
<1> HIDE DEF r, g
<1>6. Computes(w, p, n, sn, ln)
  BY <1>3, <1>5 DEF Computes, r
<1>7. "CF" \in p.f <=> n \notin 0 .. (2 ^ w - 1)
  BY <1>3, <1>4, <1>5
<1> QED BY <1>6, <1>7 DEF n, sn, ln, p

(* sub, sbb and cmp: result and flags.                                     *)
LEMMA SubComputes ==
  ASSUME NEW w \in Nat, w >= 4, w <= MaxBits, NEW d \in Words(w), NEW s \in Words(w),
         NEW c \in 0 .. 1, NEW f
  PROVE  LET n == Value[d] - Value[s] - c
             p == SubBorrow(w, d, s, c, f)
         IN  /\ Computes(w, p, n, n - Top(w, d) + Top(w, s), (Value[d] % 16) - (Value[s] % 16) - c)
             /\ "CF" \in p.f <=> n \notin 0 .. (2 ^ w - 1)
<1> DEFINE n == Value[d] - Value[s] - c
           sn == n - Top(w, d) + Top(w, s)
           ln == (Value[d] % 16) - (Value[s] % 16) - c
           r == Bin(w, n)
           k == Borrows(w, d, s, r)
           x == If(Msb(w) \in k, "CF")
           g == x \cup Zsp(w, r) \cup Chain(w, k)
           p == SubBorrow(w, d, s, c, f)
<1>1. /\ Value[d] = Num(d) /\ Num(d) \in 0 .. (2 ^ w - 1)
      /\ Value[s] = Num(s) /\ Num(s) \in 0 .. (2 ^ w - 1) /\ 2 ^ w \in Nat
  BY ValueIs, PowerIsNat
<1>2. Chained(w, k, n, sn, ln)
  BY <1>1, DifferenceChain
<1>3. p.r = r /\ p.f = g
  BY DEF SubBorrow, Result
<1>4. n \in Int /\ ("CF" \in x <=> n \notin 0 .. (2 ^ w - 1)) /\ x \subseteq {"CF"}
  <2>1. n \in Int
    BY <1>1
  <2>2. Msb(w) \in k <=> n \notin 0 .. (2 ^ w - 1)
    <3> HIDE DEF n, k, sn, ln
    <3> QED BY <1>2 DEF Chained
  <2> QED BY <2>1, <2>2 DEF If
<1> HIDE DEF n, sn, ln, k, x, p
<1>5. Tells(w, g, n, sn, ln) /\ ("CF" \in g <=> "CF" \in x)
  <2>1. w \in Nat \ {0} /\ n \in Int
    BY <1>4
  <2> QED BY <1>2, <1>4, <2>1, FlagsTell
<1> HIDE DEF r, g
<1>6. Computes(w, p, n, sn, ln)
  BY <1>3, <1>5 DEF Computes, r
<1>7. "CF" \in p.f <=> n \notin 0 .. (2 ^ w - 1)
  BY <1>3, <1>4, <1>5
<1> QED BY <1>6, <1>7 DEF n, sn, ln, p

(* 1 as a word *)
LEMMA OneIs ==
  ASSUME NEW w \in Nat, w >= 4
  PROVE  /\ {0} \in Words(w) /\ Num({0}) = 1 /\ Top(w, {0}) = 0
         /\ {} \in Words(w) /\ Num({}) = 0 /\ Top(w, {}) = 0
         /\ 1 % 16 = 1 /\ 0 % 16 = 0
<1>1. {0} \in SUBSET (0 .. (w - 1)) /\ {0} \in Words(w) /\ {} \in Words(w) /\ {0} \ {0} = {}
  BY DEF Words, Bits
<1>2. Num({}) = 0 /\ \A i \in {0} : Num({0}) = 2 ^ i + Num({0} \ {i})
  BY <1>1, WordsFinite
<1>3. Num({0}) = 1
  <2>1. Num({0}) = 2 ^ 0 + Num({})
    BY <1>1, <1>2
  <2> QED BY <1>2, <2>1, PowerZero
<1>4. Top(w, {0}) = 0 /\ Top(w, {}) = 0
  <2>1. w - 1 # 0
    OBVIOUS
  <2> QED BY <2>1 DEF Top, Msb
<1>5. 1 % 16 = 1 /\ 0 % 16 = 0
  BY SMT
<1> QED BY <1>1, <1>2, <1>3, <1>4, <1>5

(* inc: result and flags, CF kept.                                         *)
LEMMA IncComputes ==
  ASSUME NEW w \in Nat, w >= 4, w <= MaxBits, NEW d \in Words(w), NEW f
  PROVE  LET n == Value[d] + 1
             p == Inc(w, d, f)
         IN  /\ Computes(w, p, n, n - Top(w, d), (Value[d] % 16) + 1)
             /\ "CF" \in p.f <=> "CF" \in f
<1> DEFINE n == Value[d] + 1
           sn == n - Top(w, d)
           ln == (Value[d] % 16) + 1
           r == Bin(w, n)
           k == Carries(w, d, {0}, r)
           x == f \cap {"CF"}
           g == x \cup Zsp(w, r) \cup Chain(w, k)
           p == Inc(w, d, f)
<1>1. Value[d] = Num(d) /\ Num(d) \in 0 .. (2 ^ w - 1)
  BY ValueIs
<1>2. Top(w, d) \in Int
  BY PowerIsNat DEF Top
<1>3. Chained(w, k, n, sn, ln)
  <2>1. {0} \in Words(w) /\ 0 \in 0 .. 1
    BY OneIs
  <2>2. Chained(w, Carries(w, d, {0}, Bin(w, Num(d) + Num({0}) + 0)), Num(d) + Num({0}) + 0,
           (Num(d) + Num({0}) + 0) - Top(w, d) - Top(w, {0}), (Num(d) % 16) + (Num({0}) % 16) + 0)
    BY <2>1, SumChain
  <2>3. Num(d) + Num({0}) + 0 = n /\ n \in Int
    BY <1>1, OneIs
  <2>4. (Num(d) % 16) + (Num({0}) % 16) + 0 = ln
    <3>1. Num(d) % 16 \in Int
      BY <1>1
    <3> QED BY <1>1, <3>1, OneIs
  <2> HIDE DEF n, ln
  <2>5. n - Top(w, d) - Top(w, {0}) = sn
    BY <1>2, <2>3, OneIs
  <2> HIDE DEF sn
  <2> QED BY <2>2, <2>3, <2>4, <2>5
<1>4. p.r = r /\ p.f = g
  BY DEF Inc, Result
<1>5. n \in Int /\ ("CF" \in x <=> "CF" \in f) /\ x \subseteq {"CF"}
  BY <1>1
<1> HIDE DEF n, sn, ln, k, x, p
<1>6. Tells(w, g, n, sn, ln) /\ ("CF" \in g <=> "CF" \in x)
  <2>1. w \in Nat \ {0}
    OBVIOUS
  <2> QED BY <1>3, <1>5, <2>1, FlagsTell
<1> HIDE DEF r, g
<1>7. Computes(w, p, n, sn, ln)
  BY <1>4, <1>6 DEF Computes, r
<1>8. "CF" \in p.f <=> "CF" \in f
  BY <1>4, <1>5, <1>6
<1> QED BY <1>7, <1>8 DEF n, sn, ln, p

(* dec: result and flags, CF kept.                                         *)
LEMMA DecComputes ==
  ASSUME NEW w \in Nat, w >= 4, w <= MaxBits, NEW d \in Words(w), NEW f
  PROVE  LET n == Value[d] - 1
             p == Dec(w, d, f)
         IN  /\ Computes(w, p, n, n - Top(w, d), (Value[d] % 16) - 1)
             /\ "CF" \in p.f <=> "CF" \in f
<1> DEFINE n == Value[d] - 1
           sn == n - Top(w, d)
           ln == (Value[d] % 16) - 1
           r == Bin(w, n)
           k == Borrows(w, d, {0}, r)
           x == f \cap {"CF"}
           g == x \cup Zsp(w, r) \cup Chain(w, k)
           p == Dec(w, d, f)
<1>1. Value[d] = Num(d) /\ Num(d) \in 0 .. (2 ^ w - 1)
  BY ValueIs
<1>2. Top(w, d) \in Int
  BY PowerIsNat DEF Top
<1>3. Chained(w, k, n, sn, ln)
  <2>1. {0} \in Words(w) /\ 0 \in 0 .. 1
    BY OneIs
  <2>2. Chained(w, Borrows(w, d, {0}, Bin(w, Num(d) - Num({0}) - 0)), Num(d) - Num({0}) - 0,
           (Num(d) - Num({0}) - 0) - Top(w, d) + Top(w, {0}), (Num(d) % 16) - (Num({0}) % 16) - 0)
    BY <2>1, DifferenceChain
  <2>3. Num(d) - Num({0}) - 0 = n /\ n \in Int
    BY <1>1, OneIs
  <2>4. (Num(d) % 16) - (Num({0}) % 16) - 0 = ln
    <3>1. Num(d) % 16 \in Int
      BY <1>1
    <3> QED BY <1>1, <3>1, OneIs
  <2> HIDE DEF n, ln
  <2>5. n - Top(w, d) + Top(w, {0}) = sn
    BY <1>2, <2>3, OneIs
  <2> HIDE DEF sn
  <2> QED BY <2>2, <2>3, <2>4, <2>5
<1>4. p.r = r /\ p.f = g
  BY DEF Dec, Result
<1>5. n \in Int /\ ("CF" \in x <=> "CF" \in f) /\ x \subseteq {"CF"}
  BY <1>1
<1> HIDE DEF n, sn, ln, k, x, p
<1>6. Tells(w, g, n, sn, ln) /\ ("CF" \in g <=> "CF" \in x)
  <2>1. w \in Nat \ {0}
    OBVIOUS
  <2> QED BY <1>3, <1>5, <2>1, FlagsTell
<1> HIDE DEF r, g
<1>7. Computes(w, p, n, sn, ln)
  BY <1>4, <1>6 DEF Computes, r
<1>8. "CF" \in p.f <=> "CF" \in f
  BY <1>4, <1>5, <1>6
<1> QED BY <1>7, <1>8 DEF n, sn, ln, p

(* neg: result and flags.                                                  *)
LEMMA NegComputes ==
  ASSUME NEW w \in Nat, w >= 4, w <= MaxBits, NEW s \in Words(w), NEW f
  PROVE  LET n == -Value[s]
             p == Neg(w, s, f)
         IN  /\ Computes(w, p, n, n + Top(w, s), -(Value[s] % 16))
             /\ "CF" \in p.f <=> n \notin 0 .. (2 ^ w - 1)
<1> DEFINE n == -Value[s]
           sn == n + Top(w, s)
           ln == -(Value[s] % 16)
           r == Bin(w, n)
           k == r \cup s
           x == If(s # {}, "CF")
           g == x \cup Zsp(w, r) \cup Chain(w, k)
           p == Neg(w, s, f)
<1>1. Value[s] = Num(s) /\ Num(s) \in 0 .. (2 ^ w - 1)
  BY ValueIs
<1>2. Top(w, s) \in Int
  BY PowerIsNat DEF Top
<1>3. Chained(w, k, n, sn, ln)
  <2> DEFINE m == Num({}) - Num(s) - 0
  <2>1. {} \in Words(w) /\ 0 \in 0 .. 1
    BY OneIs
  <2>2. Chained(w, Bin(w, m) \cup s, m, m - Top(w, {}) + Top(w, s),
           (Num({}) % 16) - (Num(s) % 16) - 0)
    BY <2>1, DifferenceChain
  <2>3. m = n /\ n \in Int
    BY <1>1, OneIs
  <2>4. (Num({}) % 16) - (Num(s) % 16) - 0 = ln
    <3>1. Num(s) % 16 \in Int
      BY <1>1
    <3> QED BY <1>1, <3>1, OneIs
  <2> HIDE DEF n, ln, m
  <2>5. n - Top(w, {}) + Top(w, s) = sn
    BY <1>2, <2>3, OneIs
  <2> HIDE DEF sn
  <2> QED BY <2>2, <2>3, <2>4, <2>5
<1>4. p.r = r /\ p.f = g
  BY DEF Neg, Result
<1>5. n \in Int /\ ("CF" \in x <=> n \notin 0 .. (2 ^ w - 1)) /\ x \subseteq {"CF"}
  <2>1. s = {} <=> Num(s) = 0
    <3>1. s \in SUBSET (0 .. (w - 1))
      BY DEF Words, Bits
    <3> QED BY <3>1, EmptyIsZero
  <2>2. n \in Int /\ (n \notin 0 .. (2 ^ w - 1) <=> Num(s) # 0)
    <3>1. 2 ^ w \in Nat
      BY PowerIsNat
    <3> QED BY <1>1, <3>1
  <2> QED BY <2>1, <2>2 DEF If
<1> HIDE DEF n, sn, ln, k, x, p
<1>6. Tells(w, g, n, sn, ln) /\ ("CF" \in g <=> "CF" \in x)
  <2>1. w \in Nat \ {0}
    OBVIOUS
  <2> QED BY <1>3, <1>5, <2>1, FlagsTell
<1> HIDE DEF r, g
<1>7. Computes(w, p, n, sn, ln)
  BY <1>4, <1>6 DEF Computes, r
<1>8. "CF" \in p.f <=> n \notin 0 .. (2 ^ w - 1)
  BY <1>4, <1>5, <1>6
<1> QED BY <1>7, <1>8 DEF n, sn, ln, p

(* What ArithmeticExact says of a step *)
ExactStep ==
  LET op == ins'.op
      n  == Exact(op, ins'.s)
  IN  op \in {"add", "adc", "sub", "sbb", "cmp", "inc", "dec", "neg"} =>
        /\ acc' = IF op = "cmp" THEN acc ELSE Bin(size, n)
        /\ "CF" \in flags' <=> IF op \in {"inc", "dec"} THEN "CF" \in flags
                               ELSE n \notin 0 .. (2 ^ size - 1)
        /\ "OF" \in flags' <=>
             ExactSigned(op, ins'.s) \notin -(2 ^ (size - 1)) .. (2 ^ (size - 1) - 1)
        /\ "AF" \in flags' <=> ExactLow(op, ins'.s) \notin 0 .. 15
        /\ "ZF" \in flags' <=> n % 2 ^ size = 0
        /\ "SF" \in flags' <=> n % 2 ^ size >= 2 ^ (size - 1)

(* The result p of an instruction, from its integers *)
Right(op, s, p) ==
  /\ Computes(size, p, Exact(op, s), ExactSigned(op, s), ExactLow(op, s))
  /\ "CF" \in p.f <=> IF op \in {"inc", "dec"} THEN "CF" \in flags
                      ELSE Exact(op, s) \notin 0 .. (2 ^ size - 1)

(* Values of words are integers.                                           *)
LEMMA ValueType ==
  ASSUME TypeOK, NEW d \in Words(size)
  PROVE  /\ Value[d] \in Int /\ Value[d] % 16 \in Int /\ Top(size, d) \in Int
         /\ Top(size, d) = IF Msb(size) \in d THEN 2 ^ size ELSE 0
<1>1. size \in Nat /\ size <= MaxBits
  BY SizeFacts
<1>2. Value[d] = Num(d) /\ Num(d) \in 0 .. (2 ^ size - 1)
  BY <1>1, ValueIs
<1>3. 2 ^ size \in Nat
  BY <1>1, PowerIsNat
<1>4. Value[d] \in Int
  BY <1>2
<1>5. Value[d] % 16 \in Int
  BY <1>4
<1> QED BY <1>3, <1>4, <1>5 DEF Top

(* The property for the additions.                                         *)
LEMMA SumsRight ==
  ASSUME TypeOK, NEW s \in Words(size)
  PROVE  Right("add", s, Add(size, acc, s, flags)) /\ Right("adc", s, Adc(size, acc, s, flags))
<1>1. size \in Nat /\ size >= 4 /\ size <= MaxBits /\ acc \in Words(size)
  BY SizeFacts DEF TypeOK
<1>2. /\ Value[acc] \in Int /\ Value[acc] % 16 \in Int /\ Top(size, acc) \in Int
      /\ Top(size, acc) = IF Msb(size) \in acc THEN 2 ^ size ELSE 0
  BY <1>1, ValueType
<1>3. /\ Value[s] \in Int /\ Value[s] % 16 \in Int /\ Top(size, s) \in Int
      /\ Top(size, s) = IF Msb(size) \in s THEN 2 ^ size ELSE 0
  BY ValueType
<1>4. ASSUME NEW op \in {"add", "adc"}, NEW c \in 0 .. 1,
             c = IF op = "add" THEN 0 ELSE Carry(flags)
      PROVE  Right(op, s, AddCarry(size, acc, s, c, flags))
  <2> DEFINE n == Value[acc] + Value[s] + c
             sn == n - Top(size, acc) - Top(size, s)
             ln == (Value[acc] % 16) + (Value[s] % 16) + c
             p == AddCarry(size, acc, s, c, flags)
  <2>1. Computes(size, p, n, sn, ln) /\ ("CF" \in p.f <=> n \notin 0 .. (2 ^ size - 1))
    BY <1>1, AddComputes
  <2>2. Exact(op, s) = n
    <3>1. CASE op = "add"
      BY <1>2, <1>3, <1>4, <3>1 DEF Exact
    <3>2. CASE op = "adc"
      BY <1>2, <1>3, <1>4, <3>2 DEF Exact
    <3> QED BY <3>1, <3>2
  <2>3. n \in Int
    BY <1>2, <1>3
  <2>4. ExactSigned(op, s) = sn
    <3> HIDE DEF n
    <3> QED BY <1>2, <1>3, <2>2 DEF ExactSigned
  <2>5. ExactLow(op, s) = ln
    <3>1. ExactLow(op, s) = n - (Value[acc] - (Value[acc] % 16)) - (Value[s] - (Value[s] % 16))
      <4> HIDE DEF n
      <4> QED BY <2>2 DEF ExactLow
    <3> QED BY <1>2, <1>3, <3>1
  <2> HIDE DEF n, sn, ln, p
  <2>6. op \notin {"inc", "dec"}
    OBVIOUS
  <2> QED BY <2>1, <2>2, <2>4, <2>5, <2>6 DEF Right, p
<1>5. Right("add", s, AddCarry(size, acc, s, 0, flags))
  BY <1>4
<1>6. Right("adc", s, AddCarry(size, acc, s, Carry(flags), flags))
  <2>1. Carry(flags) \in 0 .. 1
    BY DEF Carry
  <2> QED BY <1>4, <2>1
<1> QED BY <1>5, <1>6 DEF Add, Adc

(* The property for the subtractions.                                      *)
LEMMA DifferencesRight ==
  ASSUME TypeOK, NEW s \in Words(size)
  PROVE  /\ Right("sub", s, Sub(size, acc, s, flags))
         /\ Right("sbb", s, Sbb(size, acc, s, flags))
         /\ Right("cmp", s, Sub(size, acc, s, flags))
<1>1. size \in Nat /\ size >= 4 /\ size <= MaxBits /\ acc \in Words(size)
  BY SizeFacts DEF TypeOK
<1>2. /\ Value[acc] \in Int /\ Value[acc] % 16 \in Int /\ Top(size, acc) \in Int
      /\ Top(size, acc) = IF Msb(size) \in acc THEN 2 ^ size ELSE 0
  BY <1>1, ValueType
<1>3. /\ Value[s] \in Int /\ Value[s] % 16 \in Int /\ Top(size, s) \in Int
      /\ Top(size, s) = IF Msb(size) \in s THEN 2 ^ size ELSE 0
  BY ValueType
<1>4. ASSUME NEW op \in {"sub", "sbb", "cmp"}, NEW c \in 0 .. 1,
             c = IF op = "sbb" THEN Carry(flags) ELSE 0
      PROVE  Right(op, s, SubBorrow(size, acc, s, c, flags))
  <2> DEFINE n == Value[acc] - Value[s] - c
             sn == n - Top(size, acc) + Top(size, s)
             ln == (Value[acc] % 16) - (Value[s] % 16) - c
             p == SubBorrow(size, acc, s, c, flags)
  <2>1. Computes(size, p, n, sn, ln) /\ ("CF" \in p.f <=> n \notin 0 .. (2 ^ size - 1))
    BY <1>1, SubComputes
  <2>2. Exact(op, s) = n
    <3>1. CASE op = "sub"
      BY <1>2, <1>3, <1>4, <3>1 DEF Exact
    <3>2. CASE op = "sbb"
      BY <1>2, <1>3, <1>4, <3>2 DEF Exact
    <3>3. CASE op = "cmp"
      BY <1>2, <1>3, <1>4, <3>3 DEF Exact
    <3> QED BY <3>1, <3>2, <3>3
  <2>3. n \in Int
    BY <1>2, <1>3
  <2>4. ExactSigned(op, s) = sn
    <3> HIDE DEF n
    <3> QED BY <1>2, <1>3, <2>2 DEF ExactSigned
  <2>5. ExactLow(op, s) = ln
    <3>1. ExactLow(op, s) = n - (Value[acc] - (Value[acc] % 16)) + (Value[s] - (Value[s] % 16))
      <4> HIDE DEF n
      <4> QED BY <2>2 DEF ExactLow
    <3> QED BY <1>2, <1>3, <3>1
  <2> HIDE DEF n, sn, ln, p
  <2>6. op \notin {"inc", "dec"}
    OBVIOUS
  <2> QED BY <2>1, <2>2, <2>4, <2>5, <2>6 DEF Right, p
<1>5. /\ Right("sub", s, SubBorrow(size, acc, s, 0, flags))
      /\ Right("cmp", s, SubBorrow(size, acc, s, 0, flags))
  BY <1>4
<1>6. Right("sbb", s, SubBorrow(size, acc, s, Carry(flags), flags))
  <2>1. Carry(flags) \in 0 .. 1
    BY DEF Carry
  <2> QED BY <1>4, <2>1
<1> QED BY <1>5, <1>6 DEF Sub, Sbb

(* The property for inc, dec and neg.                                      *)
LEMMA UnaryRight ==
  ASSUME TypeOK, NEW s
  PROVE  /\ Right("inc", s, Inc(size, acc, flags))
         /\ Right("dec", s, Dec(size, acc, flags))
         /\ Right("neg", s, Neg(size, acc, flags))
<1>1. size \in Nat /\ size >= 4 /\ size <= MaxBits /\ acc \in Words(size)
  BY SizeFacts DEF TypeOK
<1> DEFINE v == Value[acc]
           m == v % 16
           t == Top(size, acc)
<1>2. v \in Int /\ m \in Int /\ t \in Int /\ t = IF Msb(size) \in acc THEN 2 ^ size ELSE 0
  BY <1>1, ValueType
<1>3. Right("inc", s, Inc(size, acc, flags))
  <2> DEFINE p == Inc(size, acc, flags)
  <2>1. Computes(size, p, v + 1, (v + 1) - t, m + 1) /\ ("CF" \in p.f <=> "CF" \in flags)
    BY <1>1, IncComputes
  <2>2. Exact("inc", s) = v + 1
    BY DEF Exact
  <2>3. ExactSigned("inc", s) = (v + 1) - t
    BY <1>2, <2>2 DEF ExactSigned
  <2>4. ExactLow("inc", s) = m + 1
    <3>1. ExactLow("inc", s) = (v + 1) - (v - m)
      BY <2>2 DEF ExactLow
    <3> HIDE DEF v, m
    <3> QED BY <1>2, <3>1
  <2> HIDE DEF p, v, m, t
  <2> QED BY <2>1, <2>2, <2>3, <2>4 DEF Right, p
<1>4. Right("dec", s, Dec(size, acc, flags))
  <2> DEFINE p == Dec(size, acc, flags)
  <2>1. Computes(size, p, v - 1, (v - 1) - t, m - 1) /\ ("CF" \in p.f <=> "CF" \in flags)
    BY <1>1, DecComputes
  <2>2. Exact("dec", s) = v - 1
    BY DEF Exact
  <2>3. ExactSigned("dec", s) = (v - 1) - t
    BY <1>2, <2>2 DEF ExactSigned
  <2>4. ExactLow("dec", s) = m - 1
    <3>1. ExactLow("dec", s) = (v - 1) - (v - m)
      BY <2>2 DEF ExactLow
    <3> HIDE DEF v, m
    <3> QED BY <1>2, <3>1
  <2> HIDE DEF p, v, m, t
  <2> QED BY <2>1, <2>2, <2>3, <2>4 DEF Right, p
<1>5. Right("neg", s, Neg(size, acc, flags))
  <2> DEFINE p == Neg(size, acc, flags)
  <2>1. /\ Computes(size, p, -v, (-v) + t, -m)
        /\ "CF" \in p.f <=> (-v) \notin 0 .. (2 ^ size - 1)
    BY <1>1, NegComputes
  <2>2. Exact("neg", s) = -v
    BY DEF Exact
  <2>3. ExactSigned("neg", s) = (-v) + t
    BY <1>2, <2>2 DEF ExactSigned
  <2>4. ExactLow("neg", s) = -m
    <3>1. ExactLow("neg", s) = (-v) + (v - m)
      BY <2>2 DEF ExactLow
    <3> HIDE DEF v, m
    <3> QED BY <1>2, <3>1
  <2> HIDE DEF p, v, m, t
  <2> QED BY <2>1, <2>2, <2>3, <2>4 DEF Right, p
<1> QED BY <1>3, <1>4, <1>5

(* One step of the machine *)
LEMMA StepExact ==
  ASSUME IInv, Next
  PROVE  ExactStep
<1> DEFINE op == ins'.op
           s  == ins'.s
<1>0. TypeOK
  BY DEF IInv
<1>1. CASE op \in {"add", "adc", "sub", "sbb", "cmp"}
  <2>1. s \in Operand /\ Arithmetic(op, s)
    BY <1>1 DEF Next, Arithmetic, Shift, ShiftDouble, Unary, TestOp, CarryOp, SetCc, Multiply,
         MultiplyDirect, Divide, DecimalAdjust, AsciiAdjust, BaseAdjust, Reset, Do, Both,
         OpA, OpB, OpUnary
  <2>2. s \in Words(size)
    BY <2>1, OperandFits
  <2>3. acc' = ResultA(op, s).r /\ flags' = ResultA(op, s).f
    BY <2>1 DEF Arithmetic, Do
  <2> DEFINE p == CASE op = "add" -> Add(size, acc, s, flags)
                    [] op = "adc" -> Adc(size, acc, s, flags)
                    [] op = "sbb" -> Sbb(size, acc, s, flags)
                    [] OTHER -> Sub(size, acc, s, flags)
  <2>4. acc' = (IF op = "cmp" THEN acc ELSE p.r) /\ flags' = p.f
    BY <1>1, <2>3 DEF ResultA, Cmp, Result
  <2>5. Right(op, s, p)
    <3> HIDE DEF op, s
    <3>1. CASE op = "add"
      BY <1>0, <2>2, <3>1, SumsRight
    <3>2. CASE op = "adc"
      BY <1>0, <2>2, <3>2, SumsRight
    <3>3. CASE op = "sub"
      BY <1>0, <2>2, <3>3, DifferencesRight
    <3>4. CASE op = "sbb"
      BY <1>0, <2>2, <3>4, DifferencesRight
    <3>5. CASE op = "cmp"
      BY <1>0, <2>2, <3>5, DifferencesRight
    <3> QED BY <1>1, <3>1, <3>2, <3>3, <3>4, <3>5
  <2> HIDE DEF p
  <2> QED BY <1>1, <2>4, <2>5 DEF Right, Computes, Tells, ExactStep
<1>2. CASE op \in {"inc", "dec", "neg"}
  <2>1. Unary(op)
    BY <1>2 DEF Next, Arithmetic, Shift, ShiftDouble, Unary, TestOp, CarryOp, SetCc, Multiply,
         MultiplyDirect, Divide, DecimalAdjust, AsciiAdjust, BaseAdjust, Reset, Do, Both,
         OpA, OpB, OpUnary
  <2> DEFINE p == CASE op = "inc" -> Inc(size, acc, flags)
                    [] op = "dec" -> Dec(size, acc, flags)
                    [] OTHER -> Neg(size, acc, flags)
  <2>2. acc' = p.r /\ flags' = p.f
    BY <1>2, <2>1 DEF Unary, Do
  <2>3. Right(op, s, p)
    <3> HIDE DEF op, s
    <3>1. CASE op = "inc"
      BY <1>0, <3>1, UnaryRight
    <3>2. CASE op = "dec"
      BY <1>0, <3>2, UnaryRight
    <3>3. CASE op = "neg"
      BY <1>0, <3>3, UnaryRight
    <3> QED BY <1>2, <3>1, <3>2, <3>3
  <2> HIDE DEF p
  <2> QED BY <1>2, <2>2, <2>3 DEF Right, Computes, Tells, ExactStep
<1>3. CASE op \notin {"add", "adc", "sub", "sbb", "cmp", "inc", "dec", "neg"}
  BY <1>3 DEF ExactStep
<1> QED BY <1>1, <1>2, <1>3

(* Sums and differences are those of integers, cut to the operand size, and *)
(* CF, OF, AF, ZF and SF tell when the integer, the integer with sign and   *)
(* the low digits do not fit, are 0 or have the top bit: the formulas with  *)
(* carry chains of prim_ops.c:49 to 110, for every operand size.            *)
THEOREM ArithmeticIsExact == Spec => ArithmeticExact
<1>1. IInv /\ [Next]_vars => [ExactStep]_vars
  BY StepExact
<1> QED BY InitInv, StepInv, <1>1, PTL DEF Spec, ArithmeticExact, ExactStep

-----------------------------------------------------------------------------
(* The conditions that decide orders, and the odd ones *)
LEMMA Conditions ==
  ASSUME NEW f
  PROVE  /\ Holds(2, f) <=> "CF" \in f
         /\ Holds(4, f) <=> "ZF" \in f
         /\ Holds(6, f) <=> "CF" \in f \/ "ZF" \in f
         /\ Holds(12, f) <=> ("SF" \in f) # ("OF" \in f)
         /\ Holds(14, f) <=> "ZF" \in f \/ (("SF" \in f) # ("OF" \in f))
<1>1. /\ 2 \div 2 = 1 /\ 4 \div 2 = 2 /\ 6 \div 2 = 3 /\ 12 \div 2 = 6 /\ 14 \div 2 = 7
      /\ 2 % 2 = 0 /\ 4 % 2 = 0 /\ 6 % 2 = 0 /\ 12 % 2 = 0 /\ 14 % 2 = 0
  BY SMT
<1>2. Holds(2, f) <=> "CF" \in f
  BY <1>1 DEF Holds
<1>3. Holds(4, f) <=> "ZF" \in f
  BY <1>1 DEF Holds
<1>4. Holds(6, f) <=> "CF" \in f \/ "ZF" \in f
  BY <1>1 DEF Holds
<1>5. Holds(12, f) <=> ("SF" \in f) # ("OF" \in f)
  BY <1>1 DEF Holds
<1>6. Holds(14, f) <=> "ZF" \in f \/ (("SF" \in f) # ("OF" \in f))
  BY <1>1 DEF Holds
<1> QED BY <1>2, <1>3, <1>4, <1>5, <1>6

(* An odd condition is the one before it, negated.                         *)
LEMMA OddNegates ==
  ASSUME NEW f, NEW type \in Condition, type % 2 = 1
  PROVE  Holds(type, f) = ~Holds(type - 1, f)
<1>1. type \in {1, 3, 5, 7, 9, 11, 13, 15}
  BY SMT DEF Condition
<1>2. /\ type \div 2 = (type - 1) \div 2 /\ (type - 1) % 2 = 0
      /\ type \div 2 \in 0 .. 7
  BY <1>1, SMT
<1> DEFINE h == type \div 2
           k == (type - 1) \div 2
<1>3. h = k /\ h \in 0 .. 7
  BY <1>2
<1> HIDE DEF h, k
<1>4. CASE h = 0
  BY <1>2, <1>3, <1>4 DEF Holds, h, k
<1>5. CASE h = 1
  BY <1>2, <1>3, <1>5 DEF Holds, h, k
<1>6. CASE h = 2
  BY <1>2, <1>3, <1>6 DEF Holds, h, k
<1>7. CASE h = 3
  BY <1>2, <1>3, <1>7 DEF Holds, h, k
<1>8. CASE h = 4
  BY <1>2, <1>3, <1>8 DEF Holds, h, k
<1>9. CASE h = 5
  BY <1>2, <1>3, <1>9 DEF Holds, h, k
<1>10. CASE h = 6
  BY <1>2, <1>3, <1>10 DEF Holds, h, k
<1>11. CASE h = 7
  BY <1>2, <1>3, <1>11 DEF Holds, h, k
<1> QED BY <1>3, <1>4, <1>5, <1>6, <1>7, <1>8, <1>9, <1>10, <1>11

(* Different words are different numbers. *)
LEMMA SameNumber ==
  ASSUME NEW w \in Nat, NEW d \in Words(w), NEW s \in Words(w)
  PROVE  Num(d) = Num(s) <=> d = s
<1>1. BitsOf(w, Num(d)) = d /\ BitsOf(w, Num(s)) = s
  BY BitsOfNum DEF Words, Bits
<1> QED BY <1>1

(* A difference is 0 to the width only if it is 0. *)
LEMMA NoDifference ==
  ASSUME NEW m \in Nat \ {0}, NEW a \in 0 .. (m - 1), NEW b \in 0 .. (m - 1)
  PROVE  (a - b) % m = 0 <=> a = b
<1>1. CASE a >= b
  <2>1. m * 0 + (a - b) = a - b /\ 0 \in Int /\ a - b \in 0 .. (m - 1)
    BY <1>1
  <2>2. (a - b) % m = a - b
    BY <2>1, DivModUnique
  <2> QED BY <2>2
<1>2. CASE a < b
  <2>1. m * (-1) + (m + a - b) = a - b /\ -1 \in Int /\ m + a - b \in 0 .. (m - 1)
    BY <1>2
  <2>2. (a - b) % m = m + a - b
    <3> DEFINE z == m + a - b
    <3>1. m * (-1) + z = a - b /\ z \in 0 .. (m - 1)
      BY <2>1
    <3> HIDE DEF z
    <3>2. (m * (-1) + z) % m = z
      BY <2>1, <3>1, DivModUnique
    <3> QED BY <3>1, <3>2 DEF z
  <2>3. m + a - b # 0
    BY <1>2
  <2> QED BY <1>2, <2>2, <2>3
<1> QED BY <1>1, <1>2

(* Sign and overflow of a difference of numbers with sign *)
LEMMA SignDecides ==
  ASSUME NEW Q \in Nat \ {0}, NEW n \in Int, NEW a \in Int, NEW sn \in -(2 * Q - 1) .. (2 * Q - 1),
         n = sn + (2 * Q) * a
  PROVE  ((n % (2 * Q) >= Q) # (sn \notin -Q .. (Q - 1))) <=> sn < 0
<1> DEFINE M == 2 * Q
           m == n % M
           q == n \div M
           j == q - a
<1>1. M \in Nat \ {0} /\ m \in 0 .. (M - 1) /\ q \in Int /\ n = M * q + m
  <2>1. M \in Nat \ {0}
    OBVIOUS
  <2> HIDE DEF M
  <2> QED BY <2>1, DivMod
<1> HIDE DEF m, q
<1>2. sn = M * j + m /\ j \in Int
  <2>1. \A x, y, z \in Int : z * (x - y) = z * x - z * y
    BY SMT
  <2>2. M \in Int /\ M * q \in Int /\ M * a \in Int /\ M * (q - a) = M * q - M * a
    BY <1>1, <2>1
  <2> QED BY <1>1, <2>2
<1> HIDE DEF j
<1>3. j \in {-1, 0}
  <2>1. CASE j >= 1
    <3>1. M * j >= M
      BY <1>1, <1>2, <2>1, SMT
    <3> QED BY <1>1, <1>2, <3>1
  <2>2. CASE j <= -2
    <3>1. M * j <= -(2 * M)
      BY <1>1, <1>2, <2>2, SMT
    <3> QED BY <1>1, <1>2, <3>1
  <2> QED BY <1>2, <2>1, <2>2
<1>4. CASE j = 0
  <2>1. sn = m
    BY <1>1, <1>2, <1>4
  <2> QED BY <1>1, <2>1 DEF m
<1>5. CASE j = -1
  <2>1. sn = m - M
    BY <1>1, <1>2, <1>5
  <2> QED BY <1>1, <2>1 DEF m
<1> QED BY <1>3, <1>4, <1>5

(* A number with sign is in the range of its width. *)
LEMMA SignedRange ==
  ASSUME NEW w \in Nat \ {0}, w <= MaxBits, NEW d \in Words(w)
  PROVE  /\ Signed(w, d) \in -(2 ^ (w - 1)) .. (2 ^ (w - 1) - 1)
         /\ Signed(w, d) = Value[d] - Top(w, d)
         /\ Top(w, d) = OneAt(d, w - 1) * 2 ^ w
<1> DEFINE Q == 2 ^ (w - 1)
           D == Num(Low(d, w - 1))
           x == OneAt(d, w - 1)
<1>1. /\ Q \in Nat \ {0} /\ 2 ^ w = 2 * Q /\ Num(d) = D + x * Q
      /\ D \in 0 .. (Q - 1) /\ x \in 0 .. 1 /\ (w - 1 \in d <=> x = 1)
  BY WordTop
<1>2. Value[d] = Num(d)
  BY ValueIs
<1>3. Signed(w, d) = Value[d] - Top(w, d)
  BY DEF Signed, Top
<1> HIDE DEF Q, D, x
<1>4. Top(w, d) = x * (2 * Q)
  <2>1. \A z \in Nat : 0 * z = 0 /\ 1 * z = z
    OBVIOUS
  <2>2. 2 * Q \in Nat
    BY <1>1
  <2> QED BY <1>1, <2>1, <2>2 DEF Top, Msb
<1>5. Signed(w, d) \in -Q .. (Q - 1)
  <2>1. CASE x = 0
    <3>1. Signed(w, d) = D
      BY <1>1, <1>2, <1>3, <1>4, <2>1
    <3> QED BY <1>1, <3>1
  <2>2. CASE x = 1
    <3>1. Signed(w, d) = D - Q
      BY <1>1, <1>2, <1>3, <1>4, <2>2
    <3> QED BY <1>1, <3>1
  <2> QED BY <1>1, <2>1, <2>2
<1> QED BY <1>1, <1>3, <1>4, <1>5 DEF Q, x

(* What ConditionsDecide says of a step *)
DecidesStep ==
  LET s == ins'.s
  IN  ins'.op \in {"cmp", "sub"} =>
        /\ Holds(2, flags')  <=> Value[acc] < Value[s]
        /\ Holds(4, flags')  <=> acc = s
        /\ Holds(6, flags')  <=> Value[acc] <= Value[s]
        /\ Holds(12, flags') <=> Signed(size, acc) < Signed(size, s)
        /\ Holds(14, flags') <=> Signed(size, acc) <= Signed(size, s)
        /\ \A type \in Condition : type % 2 = 1 =>
             Holds(type, flags') = ~Holds(type - 1, flags')

(* Every step has the property.                                            *)
LEMMA StepDecides ==
  ASSUME IInv, Next
  PROVE  DecidesStep
<1> DEFINE op == ins'.op
           s  == ins'.s
           f  == flags'
           w  == size
           Q  == 2 ^ (size - 1)
           a  == Value[acc]
           b  == Value[s]
           n  == a - b
           sa == Signed(size, acc)
           sb == Signed(size, s)
           x == OneAt(acc, size - 1)
           y == OneAt(s, size - 1)
<1> SUFFICES ASSUME op \in {"cmp", "sub"} PROVE DecidesStep
  BY DEF DecidesStep
<1>0. TypeOK
  BY DEF IInv
<1>1. s \in Operand
  BY DEF Next, Arithmetic, Shift, ShiftDouble, Unary, TestOp, CarryOp, SetCc, Multiply,
         MultiplyDirect, Divide, DecimalAdjust, AsciiAdjust, BaseAdjust, Reset, Do, Both,
         OpA, OpB, OpUnary
<1>2. s \in Words(size) /\ acc \in Words(size)
  BY <1>0, <1>1, OperandFits DEF TypeOK
<1>3. size \in Nat \ {0} /\ size \in Nat /\ size <= MaxBits
  BY <1>0, SizeFacts
<1>4. Exact(op, s) = n /\ ExactSigned(op, s) = n - Top(size, acc) + Top(size, s)
  <2>1. Exact(op, s) = n
    BY DEF Exact
  <2> HIDE DEF n
  <2> QED BY <2>1 DEF ExactSigned, Top
<1>5. Q \in Nat \ {0} /\ 2 ^ size = 2 * Q
  BY <1>2, <1>3, WordTop
<1>6. a = Num(acc) /\ b = Num(s) /\ a \in 0 .. (2 * Q - 1) /\ b \in 0 .. (2 * Q - 1)
  BY <1>2, <1>3, <1>5, ValueIs
<1>7. /\ sa \in -Q .. (Q - 1) /\ sa = a - Top(size, acc) /\ Top(size, acc) = x * (2 * Q)
      /\ sb \in -Q .. (Q - 1) /\ sb = b - Top(size, s) /\ Top(size, s) = y * (2 * Q)
  BY <1>2, <1>3, <1>5, SignedRange
<1>8. x \in 0 .. 1 /\ y \in 0 .. 1
  BY DEF OneAt
<1>9. /\ "CF" \in f <=> n \notin 0 .. (2 * Q - 1)
      /\ "OF" \in f <=> ExactSigned(op, s) \notin -Q .. (Q - 1)
      /\ "ZF" \in f <=> n % (2 * Q) = 0
      /\ "SF" \in f <=> n % (2 * Q) >= Q
  <2>1. ExactStep
    BY StepExact
  <2>2. /\ "CF" \in f <=> Exact(op, s) \notin 0 .. (2 ^ size - 1)
        /\ "OF" \in f <=> ExactSigned(op, s) \notin -(2 ^ (size - 1)) .. (2 ^ (size - 1) - 1)
        /\ "ZF" \in f <=> Exact(op, s) % 2 ^ size = 0
        /\ "SF" \in f <=> Exact(op, s) % 2 ^ size >= 2 ^ (size - 1)
    BY <2>1 DEF ExactStep
  <2> HIDE DEF n
  <2> QED BY <1>4, <1>5, <2>2
<1> HIDE DEF op, f, Q, a, b, sa, sb, x, y
<1>10. n \in Int /\ ("CF" \in f <=> a < b)
  BY <1>5, <1>6, <1>9
<1>11. "ZF" \in f <=> acc = s
  <2>1. n % (2 * Q) = 0 <=> a = b
    <3>1. 2 * Q \in Nat \ {0}
      BY <1>5
    <3> QED BY <1>6, <3>1, NoDifference
  <2>2. Num(acc) = Num(s) <=> acc = s
    BY <1>2, <1>3, SameNumber
  <2> QED BY <1>6, <1>9, <2>1, <2>2
<1>12. (("SF" \in f) # ("OF" \in f)) <=> sa < sb
  <2> DEFINE sn == sa - sb
             e == x - y
  <2>1. ExactSigned(op, s) = sn
    <3>1. Top(size, acc) \in Int /\ Top(size, s) \in Int
      BY PowerIsNat, <1>3 DEF Top
    <3> QED BY <1>4, <1>6, <1>7, <3>1
  <2>2. sn \in -(2 * Q - 1) .. (2 * Q - 1) /\ e \in Int
    BY <1>5, <1>7, <1>8
  <2>3. n = sn + (2 * Q) * e
    <3>1. \A u, v, t \in Int : u * t - v * t = t * (u - v)
      BY SMT
    <3>2. x * (2 * Q) - y * (2 * Q) = (2 * Q) * (x - y)
      BY <1>5, <1>8, <3>1
    <3>3. x * (2 * Q) \in Int /\ y * (2 * Q) \in Int
      BY <1>5, <1>8
    <3>4. n = sn + (x * (2 * Q) - y * (2 * Q))
      BY <1>6, <1>7, <3>3
    <3> QED BY <3>2, <3>4
  <2> HIDE DEF n, sn, e
  <2>4. ((n % (2 * Q) >= Q) # (sn \notin -Q .. (Q - 1))) <=> sn < 0
    BY <1>5, <1>10, <2>2, <2>3, SignDecides
  <2>5. sn < 0 <=> sa < sb
    BY <1>7 DEF sn
  <2> QED BY <1>9, <2>1, <2>4, <2>5
<1>13. acc = s <=> a = b
  BY <1>2, <1>3, <1>6, SameNumber
<1>14. acc = s <=> sa = sb
  <2>1. ASSUME sa = sb PROVE a = b
    <3>1. n = a - b /\ ("ZF" \in f <=> n % (2 * Q) = 0)
      BY <1>9
    <3>2. CASE x = y
      <4>1. x * (2 * Q) = y * (2 * Q) /\ x * (2 * Q) \in Int
        BY <1>5, <1>8, <3>2
      <4> QED BY <1>6, <1>7, <2>1, <4>1
    <3>3. CASE x = 1 /\ y = 0
      <4>1. sa = a - 2 * Q /\ sb = b
        BY <1>5, <1>6, <1>7, <3>3
      <4>2. sa < 0 /\ ~ (sb < 0)
        BY <1>5, <1>6, <4>1
      <4> QED BY <2>1, <4>2
    <3>4. CASE x = 0 /\ y = 1
      <4>1. sb = b - 2 * Q /\ sa = a
        BY <1>5, <1>6, <1>7, <3>4
      <4>2. sb < 0 /\ ~ (sa < 0)
        BY <1>5, <1>6, <4>1
      <4> QED BY <2>1, <4>2
    <3> QED BY <1>8, <3>2, <3>3, <3>4
  <2>2. ASSUME acc = s PROVE sa = sb
    BY <2>2 DEF sa, sb
  <2> QED BY <1>13, <2>1, <2>2
<1>15. /\ Holds(2, f)  <=> a < b
       /\ Holds(4, f)  <=> acc = s
       /\ Holds(6, f)  <=> a < b \/ acc = s
       /\ Holds(12, f) <=> sa < sb
       /\ Holds(14, f) <=> acc = s \/ sa < sb
  BY <1>10, <1>11, <1>12, Conditions
<1>16. a < b \/ acc = s <=> a <= b
  BY <1>6, <1>13
<1>17. acc = s \/ sa < sb <=> sa <= sb
  BY <1>7, <1>14
<1>18. \A type \in Condition : type % 2 = 1 => Holds(type, f) = ~Holds(type - 1, f)
  BY OddNegates
<1> QED BY <1>15, <1>16, <1>17, <1>18 DEF DecidesStep, f, a, b, sa, sb

(* Behind CMP and SUB, of every operand size, the conditions 2, 4, 6, 12    *)
(* and 14 of eval_condition() (prim_ops.c) say that the operands are below, *)
(* equal, below or equal, unsigned and with their signs, and the odd ones   *)
(* say the opposite.                                                        *)
THEOREM ConditionsDecideOrder == Spec => ConditionsDecide
<1>1. IInv /\ [Next]_vars => [DecidesStep]_vars
  BY StepDecides
<1> QED BY InitInv, StepInv, <1>1, PTL DEF Spec, ConditionsDecide, DecidesStep

-----------------------------------------------------------------------------
(* Products and quotients: numbers first                                   *)
LEMMA AroundZero ==
  ASSUME NEW H \in Nat \ {0}, NEW q \in Int
  PROVE  q \div H \in {0, -1} <=> q \in -H .. (H - 1)
<1>1. PICK c \in Int, z \in 0 .. (H - 1) : c = q \div H /\ q = H * c + z
  <2>1. q \div H \in Int /\ q % H \in 0 .. (H - 1) /\ q = H * (q \div H) + (q % H)
    BY DivMod
  <2> QED BY <2>1
<1>2. H * 0 = 0 /\ H * (-1) = -H
  BY SMT
<1>3. ASSUME c \in {0, -1} PROVE q \in -H .. (H - 1)
  BY <1>1, <1>2, <1>3
<1>4. ASSUME c >= 1 PROVE q >= H
  <2>1. \A a \in Nat \ {0} : \A b \in Int : b >= 1 => a * b >= a
    BY SMT
  <2>2. H * c >= H /\ H * c \in Int
    BY <1>4, <2>1
  <2> QED BY <1>1, <2>2
<1>5. ASSUME c <= -2 PROVE q < -H
  <2>1. \A a \in Nat \ {0} : \A b \in Int : b <= -2 => a * b <= -(2 * a)
    BY SMT
  <2>2. H * c <= -(2 * H) /\ H * c \in Int
    BY <1>5, <2>1
  <2> QED BY <1>1, <2>2
<1>6. c \in {0, -1} \/ c >= 1 \/ c <= -2
  OBVIOUS
<1> QED BY <1>1, <1>3, <1>4, <1>5, <1>6

(* C division: towards zero, the remainder with the sign of the dividend   *)
LEMMA QuotIs ==
  ASSUME NEW n \in Int, NEW k \in Int, k # 0
  PROVE  /\ Quot(n, k) \in Int /\ Rem(n, k) \in Int
         /\ Quot(n, k) * k + Rem(n, k) = n
         /\ Abs(Rem(n, k)) < Abs(k)
         /\ Rem(n, k) # 0 => (Rem(n, k) < 0 <=> n < 0)
         /\ Abs(Quot(n, k)) * Abs(k) <= Abs(n)
<1> DEFINE a == Abs(n)
           b == Abs(k)
           t == a \div b
           z == a % b
           q == Quot(n, k)
           r == Rem(n, k)
<1>1. a \in Nat /\ b \in Nat \ {0}
  BY DEF Abs
<1>2. (n < 0 /\ a = -n) \/ (n >= 0 /\ a = n)
  BY DEF Abs
<1>3. (k < 0 /\ b = -k) \/ (k > 0 /\ b = k)
  BY DEF Abs
<1>4. t \in Int /\ z \in 0 .. (b - 1) /\ a = b * t + z
  <2> HIDE DEF a, b
  <2> QED BY <1>1, DivMod
<1>5. t >= 0
  <2>1. \A x \in Nat \ {0} : \A y \in Int : y <= -1 => x * y <= -x
    BY SMT
  <2>2. t <= -1 => b * t <= -b
    BY <1>1, <1>4, <2>1
  <2> HIDE DEF a, b, t, z
  <2>3. b * t \in Int
    BY <1>1, <1>4
  <2> QED BY <1>1, <1>4, <2>2, <2>3
<1>6. q = (IF (n < 0) = (k < 0) THEN 1 ELSE -1) * t
  BY DEF Quot
<1>7. ((n < 0) = (k < 0) /\ q = t) \/ ((n < 0) # (k < 0) /\ q = -t)
  <2>1. \A x \in Int : 1 * x = x /\ (-1) * x = -x
    BY SMT
  <2> HIDE DEF t, q
  <2> QED BY <1>4, <1>6, <2>1
<1>8. r = n - k * q
  BY DEF Rem
<1> HIDE DEF a, b, t, z, q, r
<1>9. \A x, y \in Int : (-x) * y = -(x * y) /\ x * (-y) = -(x * y) /\ (-x) * (-y) = x * y
                        /\ x * y = y * x /\ x * y \in Int
  BY SMT
<1>10. q \in Int /\ k * q \in Int /\ b * t \in Int /\ q * k = k * q
  BY <1>1, <1>4, <1>7, <1>9
<1>11. (n >= 0 => k * q = b * t) /\ (n < 0 => k * q = -(b * t))
  <2>1. CASE n >= 0 /\ k > 0
    BY <1>3, <1>4, <1>7, <2>1
  <2>2. CASE n >= 0 /\ k < 0
    <3>1. q = -t /\ k = -b
      BY <1>1, <1>3, <1>7, <2>2
    <3> QED BY <1>1, <1>4, <1>9, <2>2, <3>1
  <2>3. CASE n < 0 /\ k > 0
    <3>1. q = -t /\ k = b
      BY <1>3, <1>7, <2>3
    <3> QED BY <1>1, <1>4, <1>9, <2>3, <3>1
  <2>4. CASE n < 0 /\ k < 0
    <3>1. q = t /\ k = -b
      BY <1>1, <1>3, <1>7, <2>4
    <3> QED BY <1>1, <1>4, <1>9, <2>4, <3>1
  <2> QED BY <2>1, <2>2, <2>3, <2>4
<1>12. (n >= 0 => r = z) /\ (n < 0 => r = -z)
  BY <1>2, <1>4, <1>8, <1>10, <1>11
<1>13. r \in Int /\ Abs(r) = z
  BY <1>1, <1>4, <1>12 DEF Abs
<1>14. Abs(q) = t
  BY <1>4, <1>5, <1>7 DEF Abs
<1>15. q * k + r = n
  BY <1>8, <1>10
<1>16. Abs(r) < b /\ (r # 0 => (r < 0 <=> n < 0))
  BY <1>1, <1>4, <1>12, <1>13
<1>17. Abs(q) * b <= a
  <2>1. t * b = b * t
    BY <1>1, <1>4, <1>9
  <2> QED BY <1>1, <1>4, <1>10, <1>14, <2>1
<1> QED BY <1>10, <1>13, <1>15, <1>16, <1>17 DEF a, b, q, r

(* It is the only such quotient when nothing remains.                      *)
LEMMA QuotOfProduct ==
  ASSUME NEW x \in Int, NEW k \in Int, k # 0
  PROVE  Quot(x * k, k) = x /\ Rem(x * k, k) = 0
<1> DEFINE n == x * k
           q == Quot(n, k)
           r == Rem(n, k)
<1>1. n \in Int
  BY SMT
<1> HIDE DEF n
<1>2. q \in Int /\ r \in Int /\ q * k + r = n /\ Abs(r) < Abs(k)
  BY <1>1, QuotIs
<1> HIDE DEF q, r
<1>3. (x - q) * k = r
  <2>1. \A a, b, c \in Int : (a - b) * c = a * c - b * c /\ a * c \in Int
    BY SMT
  <2>2. (x - q) * k = x * k - q * k /\ x * k \in Int /\ q * k \in Int
    BY <1>2, <2>1
  <2> QED BY <1>1, <1>2, <2>2 DEF n
<1>4. x = q
  <2> SUFFICES ASSUME x # q PROVE FALSE
    OBVIOUS
  <2> DEFINE e == x - q
  <2>1. e \in Int /\ e # 0 /\ e * k = r
    BY <1>2, <1>3
  <2> HIDE DEF e
  <2>2. e >= 1 \/ e <= -1
    BY <2>1
  <2>3. \A a, b \in Int : a >= 1 /\ b >= 1 => a * b >= b
    BY SMT
  <2>4. \A a, b \in Int : (-a) * b = -(a * b) /\ a * (-b) = -(a * b) /\ (-a) * (-b) = a * b
    BY SMT
  <2>5. Abs(r) >= Abs(k)
    <3>1. CASE e >= 1 /\ k >= 1
      BY <2>1, <2>3, <3>1 DEF Abs
    <3>2. CASE e >= 1 /\ k <= -1
      <4>1. e * (-k) >= -k /\ e * (-k) = -(e * k) /\ e * k \in Int
        BY <2>1, <2>3, <2>4, <3>2
      <4> QED BY <2>1, <3>2, <4>1 DEF Abs
    <3>3. CASE e <= -1 /\ k >= 1
      <4>1. (-e) * k >= k /\ (-e) * k = -(e * k) /\ e * k \in Int
        BY <2>1, <2>3, <2>4, <3>3
      <4> QED BY <2>1, <3>3, <4>1 DEF Abs
    <3>4. CASE e <= -1 /\ k <= -1
      <4>1. (-e) * (-k) >= -k /\ (-e) * (-k) = e * k /\ e * k \in Int
        BY <2>1, <2>3, <2>4, <3>4
      <4> QED BY <2>1, <3>4, <4>1 DEF Abs
    <3> QED BY <2>2, <3>1, <3>2, <3>3, <3>4
  <2> QED BY <1>2, <2>5 DEF Abs
<1>5. r = 0
  <2>1. x - q = 0
    BY <1>4
  <2>2. 0 * k = 0
    BY SMT
  <2> QED BY <1>3, <2>1, <2>2
<1> QED BY <1>4, <1>5 DEF q, r, n

(* What a word of w bits made from a number means                          *)
LEMMA BinMeans ==
  ASSUME NEW w \in Nat \ {0}, w <= MaxBits, NEW n \in Int
  PROVE  /\ Bin(w, n) \in Words(w) /\ Value[Bin(w, n)] = n % 2 ^ w
         /\ n \in 0 .. (2 ^ w - 1) => Value[Bin(w, n)] = n
         /\ n \in -(2 ^ (w - 1)) .. (2 ^ (w - 1) - 1) => Signed(w, Bin(w, n)) = n
<1> DEFINE M == 2 ^ w
           Q == 2 ^ (w - 1)
           d == Bin(w, n)
<1>1. d \in Words(w) /\ d \in SUBSET (0 .. (w - 1))
  BY DEF Bin, Bits, Words
<1>2. Q \in Nat \ {0} /\ M = 2 * Q /\ M \in Nat \ {0}
  BY <1>1, WordTop
<1>3. Value[d] = n % M
  BY <1>1, BinIs, ValueIs
<1>4. ASSUME n \in 0 .. (M - 1) PROVE n % M = n
  <2>1. 0 \in Int /\ M * 0 + n = n
    BY <1>2, SMT
  <2>2. (M * 0 + n) % M = n
    BY <1>2, <1>4, <2>1, DivModUnique
  <2> QED BY <2>1, <2>2
<1>5. ASSUME n \in -Q .. -1 PROVE n % M = n + M
  <2>1. n + M \in 0 .. (M - 1) /\ M * (-1) = -M
    BY <1>2, <1>5, SMT
  <2>2. M * (-1) + (n + M) = n
    BY <1>2, <2>1
  <2>3. (M * (-1) + (n + M)) % M = n + M
    BY <1>2, <2>1, DivModUnique
  <2> QED BY <2>2, <2>3
<1>6. Msb(w) \in d <=> n % M >= Q
  BY ZspIs
<1>7. Signed(w, d) = Value[d] - (IF Msb(w) \in d THEN M ELSE 0)
  BY DEF Signed
<1> HIDE DEF M, Q, d
<1>8. ASSUME n \in -Q .. (Q - 1) PROVE Signed(w, d) = n
  <2>1. CASE n \in 0 .. (Q - 1)
    <3>1. n \in 0 .. (M - 1) /\ ~ (n >= Q)
      BY <1>2, <2>1
    <3> QED BY <1>3, <1>4, <1>6, <1>7, <3>1
  <2>2. CASE n \in -Q .. -1
    <3>1. n + M >= Q /\ n + M \in Int
      BY <1>2, <2>2
    <3> QED BY <1>2, <1>3, <1>5, <1>6, <1>7, <2>2, <3>1
  <2> QED BY <1>2, <1>8, <2>1, <2>2
<1> QED BY <1>1, <1>3, <1>4, <1>8 DEF M, Q, d

(* ... and the numbers a word means                                        *)
LEMMA WordMeans ==
  ASSUME NEW w \in Nat \ {0}, w <= MaxBits, NEW d \in Words(w)
  PROVE  /\ 2 ^ (w - 1) \in Nat \ {0} /\ 2 ^ w = 2 * 2 ^ (w - 1)
         /\ Value[d] \in 0 .. (2 ^ w - 1)
         /\ Signed(w, d) \in -(2 ^ (w - 1)) .. (2 ^ (w - 1) - 1)
         /\ Signed(w, d) = Value[d] - (IF Msb(w) \in d THEN 2 ^ w ELSE 0)
         /\ d = {} <=> Value[d] = 0
         /\ d = {} <=> Signed(w, d) = 0
         /\ Bin(w, Value[d]) = d /\ Bin(w, Signed(w, d)) = d
<1> DEFINE M == 2 ^ w
           Q == 2 ^ (w - 1)
           v == Value[d]
           s == Signed(w, d)
<1>1. Q \in Nat \ {0} /\ M = 2 * Q /\ M \in Nat \ {0}
  BY WordTop
<1>2. v \in 0 .. (M - 1) /\ v = Num(d)
  BY ValueIs
<1>3. s \in -Q .. (Q - 1)
  BY SignedRange
<1>4. s = v - (IF Msb(w) \in d THEN M ELSE 0)
  BY DEF Signed
<1>5. d = {} <=> v = 0
  BY <1>2, EmptyIsZero DEF Words, Bits
<1>6. /\ Value[Bin(w, v)] = v /\ Signed(w, Bin(w, s)) = s
      /\ Bin(w, v) \in Words(w) /\ Bin(w, s) \in Words(w)
  <2>1. v \in Int /\ s \in Int
    BY <1>1, <1>2, <1>3
  <2> QED BY <1>2, <1>3, <2>1, BinMeans
<1>7. Bin(w, v) = d
  <2>1. Num(Bin(w, v)) = Num(d)
    BY <1>2, <1>6, ValueIs
  <2> QED BY <1>6, <2>1, SameNumber
<1>8. Bin(w, s) = d
  <2> DEFINE e == Bin(w, s)
  <2>1. e \in Words(w) /\ Value[e] \in 0 .. (M - 1)
    BY <1>6, ValueIs
  <2>2. Signed(w, e) = Value[e] - (IF Msb(w) \in e THEN M ELSE 0)
    BY DEF Signed
  <2> HIDE DEF e, s, v, M, Q
  <2>3. Value[e] = v
    <3>1. Signed(w, e) = s
      BY <1>6 DEF e, s
    <3> QED BY <1>1, <1>2, <1>4, <2>1, <2>2, <3>1
  <2>4. Num(e) = Num(d)
    BY <1>2, <2>1, <2>3, ValueIs
  <2> QED BY <2>1, <2>4, SameNumber DEF e
<1>9. d = {} <=> s = 0
  <2>1. ASSUME d = {} PROVE s = 0
    BY <1>1, <1>2, <1>4, <1>5, <2>1
  <2>2. ASSUME s = 0 PROVE v = 0
    <3> HIDE DEF v, s, M, Q
    <3> QED BY <1>1, <1>2, <1>4, <2>2
  <2> QED BY <1>5, <2>1, <2>2
<1> QED BY <1>1, <1>2, <1>3, <1>4, <1>5, <1>7, <1>8, <1>9

(* The dividend in two registers, unsigned                                 *)
Dividend(w, lo, hi) == Value[hi] * 2 ^ w + Value[lo]

(* ... and what dividing it may give                                       *)
Divides(w, lo, hi, s, r) ==
  \/ r = Fault /\ Dividend(w, lo, hi) >= 2 ^ w * Value[s]
  \/ /\ r.outcome = "done"
     /\ Value[r.lo] * Value[s] + Value[r.hi] = Dividend(w, lo, hi)
     /\ Value[r.hi] < Value[s]

(* Div computes the quotient and the remainder, or there is no quotient of *)
(* one word.                                                               *)
LEMMA DivDivides ==
  ASSUME NEW w \in Nat \ {0}, w <= MaxBits, NEW lo \in Words(w), NEW hi \in Words(w),
         NEW s \in Words(w)
  PROVE  Divides(w, lo, hi, s, Div(w, lo, hi, s))
<1> DEFINE M == 2 ^ w
           n == Dividend(w, lo, hi)
           v == Value[s]
           q == n \div v
           z == n % v
           r == Div(w, lo, hi, s)
<1>1. /\ M \in Nat \ {0} /\ v \in 0 .. (M - 1) /\ (s = {} <=> v = 0)
      /\ Value[lo] \in Nat /\ Value[hi] \in Nat
  <2>1. M = 2 * 2 ^ (w - 1) /\ 2 ^ (w - 1) \in Nat \ {0}
    BY WordMeans
  <2> HIDE DEF M
  <2>2. M \in Nat \ {0}
    BY <2>1
  <2> USE DEF M
  <2> QED BY <2>2, WordMeans
<1>2. n \in Nat
  <2>1. \A a, b, c \in Nat : a * b + c \in Nat
    BY SMT
  <2> QED BY <1>1, <2>1 DEF Dividend
<1>3. r = IF s = {} \/ q > M - 1 THEN Fault ELSE Done(w, q, z)
  BY DEF Div, Dividend
<1> HIDE DEF M, n, v, r
<1>4. CASE s = {}
  <2>1. M * v = 0
    BY <1>1, <1>4, SMT
  <2> QED BY <1>2, <1>3, <1>4, <2>1 DEF Divides, n, M, v, r
<1>5. ASSUME s # {} PROVE q \in Int /\ z \in 0 .. (v - 1) /\ n = v * q + z /\ q >= 0
  <2>1. v \in Nat \ {0}
    BY <1>1, <1>5
  <2>2. q \in Int /\ z \in 0 .. (v - 1) /\ n = v * q + z
    BY <1>2, <2>1, DivMod
  <2> HIDE DEF q, z
  <2>3. \A a \in Nat \ {0} : \A b \in Int : b <= -1 => a * b <= -a
    BY SMT
  <2>4. q <= -1 => v * q <= -v
    BY <2>1, <2>2, <2>3
  <2>5. v * q \in Int
    BY <2>1, <2>2
  <2> QED BY <1>2, <2>1, <2>2, <2>4, <2>5
<1> HIDE DEF q, z
<1>6. CASE s # {} /\ q > M - 1
  <2>1. q >= M /\ q \in Int /\ v \in Nat
    BY <1>1, <1>5, <1>6
  <2>2. \A a, b, c \in Int : a >= 0 /\ b >= c => a * b >= c * a
    BY SMT
  <2>3. v * q >= M * v /\ v * q \in Int /\ M * v \in Int
    BY <1>1, <2>1, <2>2
  <2>4. n >= M * v
    BY <1>5, <1>6, <2>1, <2>3
  <2> QED BY <1>3, <1>6, <2>4 DEF Divides, n, M, v, r
<1>7. CASE s # {} /\ ~(q > M - 1)
  <2>1. q \in 0 .. (M - 1) /\ z \in 0 .. (M - 1) /\ z < v /\ z \in Int
    BY <1>1, <1>5, <1>7
  <2>2. r = Done(w, q, z)
    BY <1>3, <1>7
  <2>3. r.outcome = "done" /\ r.lo = Bin(w, q) /\ r.hi = Bin(w, z)
    BY <2>2 DEF Done
  <2>4. Value[r.lo] = q /\ Value[r.hi] = z
    BY <2>1, <2>3, BinMeans DEF M
  <2>5. q * v + z = n
    <3>1. q * v = v * q
      BY <1>1, <2>1, SMT
    <3> QED BY <1>5, <1>7, <3>1
  <2>6. Value[r.lo] * v + Value[r.hi] = n /\ Value[r.hi] < v
    BY <2>1, <2>4, <2>5
  <2> QED BY <2>3, <2>6 DEF Divides, n, v, r
<1> QED BY <1>4, <1>6, <1>7

(* The dividend in two registers, with its sign                            *)
SignedDividend(w, lo, hi) ==
  Dividend(w, lo, hi) - (IF Msb(w) \in hi THEN 2 ^ (2 * w) ELSE 0)

(* It is the signed upper half with the unsigned lower half behind.        *)
LEMMA SignedDividendIs ==
  ASSUME NEW w \in Nat \ {0}, w <= MaxBits, NEW lo \in Words(w), NEW hi \in Words(w)
  PROVE  /\ SignedDividend(w, lo, hi) = Signed(w, hi) * 2 ^ w + Value[lo]
         /\ SignedDividend(w, lo, hi) \in Int
<1> DEFINE M == 2 ^ w
           e == Value[hi]
           v == Value[lo]
<1>1. M \in Nat \ {0} /\ 2 ^ (2 * w) = M * M
  <2>1. w + w = 2 * w /\ M = 2 * 2 ^ (w - 1) /\ 2 ^ (w - 1) \in Nat \ {0}
    BY WordMeans
  <2>2. 2 ^ (w + w) = M * M
    BY PowerSum
  <2>3. M \in Nat \ {0}
    <3> HIDE DEF M
    <3> QED BY <2>1
  <2> QED BY <2>1, <2>2, <2>3
<1>2. e \in Int /\ v \in Int
  <2>1. e \in 0 .. (M - 1) /\ v \in 0 .. (M - 1)
    BY WordMeans
  <2> QED BY <1>1, <2>1
<1>3. Signed(w, hi) = e - (IF Msb(w) \in hi THEN M ELSE 0)
  BY DEF Signed
<1>4. SignedDividend(w, lo, hi) = (e * M + v) - (IF Msb(w) \in hi THEN M * M ELSE 0)
  BY <1>1 DEF SignedDividend, Dividend
<1> HIDE DEF M, e, v
<1>5. (e - M) * M = e * M - M * M /\ e * M \in Int /\ M * M \in Int
  BY <1>1, <1>2, SMT
<1>6. CASE Msb(w) \in hi
  <2>1. Signed(w, hi) * M = e * M - M * M
    BY <1>3, <1>5, <1>6
  <2>2. SignedDividend(w, lo, hi) = (e * M + v) - M * M
    BY <1>4, <1>6
  <2> QED BY <1>2, <1>5, <2>1, <2>2 DEF M, v
<1>7. CASE Msb(w) \notin hi
  <2>1. Signed(w, hi) = e
    BY <1>2, <1>3, <1>7
  <2>2. SignedDividend(w, lo, hi) = e * M + v
    BY <1>2, <1>4, <1>5, <1>7
  <2> QED BY <1>2, <1>5, <2>1, <2>2 DEF M, v
<1> QED BY <1>6, <1>7

(* ... and what dividing it may give                                       *)
DividesSigned(w, lo, hi, s, r) ==
  LET k  == Signed(w, s)
      sn == SignedDividend(w, lo, hi)
  IN  \/ r = Trap
      \/ r = Fault /\ (k = 0 \/ Abs(sn) >= 2 ^ (w - 1) * Abs(k))
      \/ /\ r.outcome = "done"
         /\ Signed(w, r.lo) * k + Signed(w, r.hi) = sn
         /\ Abs(Signed(w, r.hi)) < Abs(k)
         /\ Signed(w, r.hi) # 0 => ((Signed(w, r.hi) < 0) = (sn < 0))

(* So does Idiv, towards zero; the overflow of the C division is no        *)
(* quotient of one word either.                                            *)
LEMMA IdivDivides ==
  ASSUME NEW w \in Nat \ {0}, w <= MaxBits, NEW lo \in Words(w), NEW hi \in Words(w),
         NEW s \in Words(w), NEW x86
  PROVE  DividesSigned(w, lo, hi, s, Idiv(w, lo, hi, s, x86))
<1> DEFINE H == 2 ^ (w - 1)
           k == Signed(w, s)
           n == SignedDividend(w, lo, hi)
           q == Quot(n, k)
           z == Rem(n, k)
           r == Idiv(w, lo, hi, s, x86)
           odd == w # Byte /\ k = -1 /\ n = -(2 ^ (2 * w - 1))
<1>1. H \in Nat \ {0} /\ k \in -H .. (H - 1) /\ (s = {} <=> k = 0)
  BY WordMeans
<1>2. n = Signed(w, hi) * 2 ^ w + Value[lo] /\ n \in Int
  BY SignedDividendIs
<1>3. r = IF s = {} THEN Fault
          ELSE IF odd THEN (IF x86 THEN Trap ELSE Fault)
          ELSE IF q \div H \notin {0, -1} THEN Fault
          ELSE Done(w, q, z)
  BY <1>2, Zenon DEF Idiv
<1>4. odd => k = -1 /\ Abs(n) >= H * Abs(k)
  <2> SUFFICES ASSUME odd PROVE k = -1 /\ Abs(n) >= H * Abs(k)
    OBVIOUS
  <2>1. 2 ^ (2 * w - 1) = 2 ^ (w - 1) * 2 ^ w
    <3>1. (w - 1) + w = 2 * w - 1 /\ w - 1 \in Nat
      OBVIOUS
    <3>2. 2 ^ ((w - 1) + w) = 2 ^ (w - 1) * 2 ^ w
      BY <3>1, PowerSum
    <3> QED BY <3>1, <3>2
  <2>2. 2 ^ w = 2 * H
    BY WordMeans
  <2>3. n = -(H * (2 * H)) /\ k = -1
    BY <2>1, <2>2
  <2> HIDE DEF H, n, k, odd
  <2>4. \A a \in Nat \ {0} : a * (2 * a) >= a /\ a * 1 = a /\ a * (2 * a) \in Nat
    BY SMT
  <2>5. H * (2 * H) >= H /\ H * 1 = H /\ H * (2 * H) \in Nat
    BY <1>1, <2>4
  <2>6. Abs(k) = 1 /\ Abs(n) = H * (2 * H)
    <3>1. \A y \in Nat : Abs(-y) = y
      BY DEF Abs
    <3>2. Abs(-(H * (2 * H))) = H * (2 * H) /\ Abs(-1) = 1
      BY <2>5, <3>1
    <3> QED BY <2>3, <3>2
  <2> QED BY <2>3, <2>5, <2>6
<1> HIDE DEF H, k, n, r, odd
<1>5. k \in Int
  BY <1>1
<1>6. s # {} => /\ q \in Int /\ z \in Int /\ q * k + z = n /\ Abs(z) < Abs(k)
                /\ z # 0 => (z < 0 <=> n < 0)
                /\ Abs(q) * Abs(k) <= Abs(n)
  BY <1>1, <1>2, <1>5, QuotIs
<1> HIDE DEF q, z
<1>7. CASE s = {}
  <2>1. r = Fault /\ k = 0
    BY <1>1, <1>3, <1>7
  <2> QED BY <2>1 DEF DividesSigned, k, r
<1>8. CASE s # {} /\ odd
  <2>1. r = Trap \/ r = Fault
    BY <1>3, <1>8
  <2> QED BY <1>4, <1>8, <2>1 DEF DividesSigned, H, k, n, r
<1>9. CASE s # {} /\ ~odd /\ q \div H \notin {0, -1}
  <2>1. q \in Int /\ Abs(q) * Abs(k) <= Abs(n) /\ Abs(k) \in Nat /\ Abs(q) \in Nat /\ Abs(n) \in Nat
    BY <1>2, <1>5, <1>6, <1>9 DEF Abs
  <2>2. q \notin -H .. (H - 1)
    BY <1>1, <1>9, <2>1, AroundZero
  <2>3. Abs(q) >= H
    BY <1>1, <2>1, <2>2 DEF Abs
  <2>4. \A a, b, c \in Nat : b >= a => b * c >= a * c /\ b * c \in Nat /\ a * c \in Nat
    BY SMT
  <2>5. Abs(q) * Abs(k) >= H * Abs(k) /\ Abs(q) * Abs(k) \in Nat /\ H * Abs(k) \in Nat
    BY <1>1, <2>1, <2>3, <2>4
  <2>6. Abs(n) >= H * Abs(k)
    BY <2>1, <2>5
  <2>7. r = Fault
    BY <1>3, <1>9
  <2> QED BY <2>6, <2>7 DEF DividesSigned, H, k, n, r
<1>10. CASE s # {} /\ ~odd /\ q \div H \in {0, -1}
  <2>1. r = Done(w, q, z)
    BY <1>3, <1>10
  <2>2. r.outcome = "done" /\ r.lo = Bin(w, q) /\ r.hi = Bin(w, z)
    BY <2>1 DEF Done
  <2>3. q \in -H .. (H - 1)
    BY <1>1, <1>6, <1>10, AroundZero
  <2>4. z \in -H .. (H - 1)
    BY <1>1, <1>5, <1>6, <1>10 DEF Abs
  <2>5. Signed(w, r.lo) = q /\ Signed(w, r.hi) = z
    BY <1>6, <1>10, <2>2, <2>3, <2>4, BinMeans DEF H
  <2> QED BY <1>6, <1>10, <2>2, <2>5 DEF DividesSigned, k, n, r
<1> QED BY <1>7, <1>8, <1>9, <1>10

(* A product in two registers: dividing it gives the factor back, and CF   *)
(* and OF say whether it needs both.                                       *)
Pairing(w, lo, s, m, r, high) ==
  /\ s # {} => r = Done(w, Value[lo], 0)
  /\ "CF" \in m.f <=> m.hi # high
  /\ "CF" \in m.f <=> "OF" \in m.f

(* CF and OF are set together, by the size of the product alone.           *)
LEMMA MulResultIs ==
  ASSUME NEW w, NEW p, NEW big \in BOOLEAN, NEW m, m = MulResult(w, p, big)
  PROVE  /\ m.lo = Bin(w, p) /\ m.hi = Bin(w, p \div 2 ^ w)
         /\ "CF" \in m.f <=> big
         /\ "OF" \in m.f <=> big
<1>1. "CF" # "OF" /\ "CF" \notin {"ZF", "SF", "PF"} /\ "OF" \notin {"ZF", "SF", "PF"}
  OBVIOUS
<1>2. \A c, g : If(c, g) \subseteq {g}
  BY DEF If
<1>3. Zsp(w, Bin(w, p)) \subseteq {"ZF", "SF", "PF"}
  BY <1>2 DEF Zsp
<1> DEFINE u == Update(Zsp(w, Bin(w, p)), {"ZF"}, If(p = 0, "ZF"))
<1>4. u \subseteq {"ZF", "SF", "PF"}
  BY <1>2, <1>3 DEF Update
<1>5. m.f = u \cup (IF big THEN {"CF", "OF"} ELSE {})
  BY DEF MulResult
<1>6. m.lo = Bin(w, p) /\ m.hi = Bin(w, p \div 2 ^ w)
  BY DEF MulResult
<1> HIDE DEF u
<1> QED BY <1>1, <1>4, <1>5, <1>6

(* Unsigned: the upper half is needed when it is not 0.                    *)
LEMMA MulPairs ==
  ASSUME NEW w \in Nat \ {0}, w <= MaxBits, NEW lo \in Words(w), NEW s \in Words(w),
         NEW m, m = Mul(w, lo, s)
  PROVE  /\ Pairing(w, lo, s, m, Div(w, m.lo, m.hi, s), {})
         /\ m.lo \in Words(w) /\ m.hi \in Words(w)
<1> DEFINE M == 2 ^ w
           a == Value[lo]
           v == Value[s]
           p == a * v
           u == p \div M
           z == p % M
<1>1. M \in Nat \ {0}
  <2>1. M = 2 * 2 ^ (w - 1) /\ 2 ^ (w - 1) \in Nat \ {0}
    BY WordMeans
  <2> HIDE DEF M
  <2> QED BY <2>1
<1>2. a \in 0 .. (M - 1) /\ v \in 0 .. (M - 1) /\ (s = {} <=> v = 0)
  BY WordMeans
<1>3. /\ m.lo = Bin(w, p) /\ m.hi = Bin(w, u)
      /\ "CF" \in m.f <=> u # 0
      /\ "OF" \in m.f <=> u # 0
  BY MulResultIs, ZenonT(60) DEF Mul
<1> HIDE DEF M, a, v
<1>4. p \in Nat /\ p <= (M - 1) * (M - 1) /\ (M - 1) * (M - 1) < M * M
  <2>1. \A b \in Nat \ {0} : (b - 1) * (b - 1) < b * b
    BY SMT
  <2>2. \A b, c, d \in Nat : b <= d /\ c <= d => b * c <= d * d /\ b * c \in Nat
    BY SMT
  <2>3. a \in Nat /\ v \in Nat /\ M - 1 \in Nat /\ a <= M - 1 /\ v <= M - 1
    BY <1>1, <1>2
  <2>4. p \in Nat /\ p <= (M - 1) * (M - 1)
    BY <2>2, <2>3
  <2> QED BY <1>1, <2>1, <2>4
<1>5. u \in Int /\ z \in 0 .. (M - 1) /\ p = M * u + z
  <2>1. p \in Int
    BY <1>4
  <2> HIDE DEF p
  <2> QED BY <1>1, <2>1, DivMod
<1>6. u \in 0 .. (M - 1)
  <2> HIDE DEF p, u, z
  <2>1. \A b \in Nat \ {0} : \A c \in Int :
          (c <= -1 => b * c <= -b) /\ (c >= b => b * c >= b * b) /\ b * c \in Int
    BY SMT
  <2>2. (u <= -1 => M * u <= -M) /\ (u >= M => M * u >= M * M) /\ M * u \in Int /\ M * M \in Int
    BY <1>1, <1>5, <2>1
  <2>3. (M - 1) * (M - 1) \in Int
    BY <1>1, SMT
  <2> QED BY <1>1, <1>4, <1>5, <2>2, <2>3
<1>7. /\ m.lo \in Words(w) /\ m.hi \in Words(w)
      /\ Value[m.lo] = z /\ Value[m.hi] = u
  <2>1. p \in Int /\ u \in Int
    BY <1>4, <1>6
  <2> HIDE DEF p, u
  <2> QED BY <1>3, <1>6, <2>1, BinMeans DEF M, z
<1>8. Value[m.hi] * M + Value[m.lo] = p
  <2> HIDE DEF p, u, z
  <2>1. u * M = M * u
    BY <1>1, <1>5, SMT
  <2> QED BY <1>5, <1>7, <2>1
<1>9. ASSUME s # {} PROVE Div(w, m.lo, m.hi, s) = Done(w, a, 0)
  <2>1. v \in Nat \ {0} /\ a \in Int
    BY <1>2, <1>9
  <2>2. (v * a + 0) % v = 0 /\ (v * a + 0) \div v = a
    BY <2>1, DivModUnique
  <2>3. v * a + 0 = p
    BY <2>1, SMT
  <2> DEFINE n == Value[m.hi] * 2 ^ w + Value[m.lo]
             q == n \div Value[s]
             t == n % Value[s]
  <2>4. Div(w, m.lo, m.hi, s) = IF s = {} \/ q > 2 ^ w - 1 THEN Fault ELSE Done(w, q, t)
    BY DEF Div
  <2>5. n = p
    BY <1>8 DEF M
  <2> HIDE DEF n, p
  <2>6. q = a /\ t = 0
    BY <2>2, <2>3, <2>5 DEF v
  <2>7. ~(a > 2 ^ w - 1)
    BY <1>1, <1>2 DEF M
  <2> HIDE DEF q, t
  <2> QED BY <1>9, <2>4, <2>6, <2>7
<1>10. m.hi # {} <=> u # 0
  BY <1>7, WordMeans
<1> HIDE DEF p, u, z
<1> QED BY <1>3, <1>7, <1>9, <1>10 DEF Pairing, a

(* The word of all ones is -1.                                             *)
LEMMA AllOnes ==
  ASSUME NEW w \in Nat \ {0}, w <= MaxBits
  PROVE  Bin(w, -1) = Bits(w) /\ Signed(w, Bits(w)) = -1
<1>1. ASSUME NEW i \in Bits(w) PROVE ((-1) \div 2 ^ i) % 2 = 1
  <2>1. i \in Nat
    BY <1>1 DEF Bits
  <2>2. 2 ^ i \in Nat \ {0}
    BY <2>1, PowerIsNat
  <2> DEFINE P == 2 ^ i
  <2> HIDE DEF P
  <2>3. P \in Nat \ {0}
    BY <2>2 DEF P
  <2>4. P * (-1) = -P /\ P - 1 \in 0 .. (P - 1) /\ -P + (P - 1) = -1
    BY <2>3, SMT
  <2>5. (P * (-1) + (P - 1)) \div P = -1
    BY <2>3, <2>4, DivModUnique
  <2>6. (-1) \div P = -1
    BY <2>4, <2>5
  <2>7. (2 * (-1) + 1) % 2 = 1
    <3>1. 2 \in Nat \ {0} /\ 1 \in 0 .. (2 - 1) /\ -1 \in Int
      OBVIOUS
    <3> QED BY <3>1, DivModUnique
  <2>8. 2 * (-1) + 1 = -1
    OBVIOUS
  <2> QED BY <2>6, <2>7, <2>8 DEF P
<1>2. Bin(w, -1) = Bits(w)
  BY <1>1 DEF Bin
<1>3. Signed(w, Bin(w, -1)) = -1
  <2>1. 2 ^ (w - 1) \in Nat \ {0}
    <3>1. {} \in Words(w)
      BY DEF Words
    <3> QED BY <3>1, WordMeans
  <2>2. -1 \in Int /\ -1 \in -(2 ^ (w - 1)) .. (2 ^ (w - 1) - 1)
    BY <2>1
  <2> QED BY <2>2, BinMeans
<1> QED BY <1>2, <1>3

(* A product of numbers of one word fits in two, and tells whether it fits *)
(* in one.                                                                 *)
LEMMA ProductSplits ==
  ASSUME NEW H \in Nat \ {0}, NEW a \in -H .. (H - 1), NEW b \in -H .. (H - 1),
         NEW p \in Int, p = a * b, NEW u \in Int, NEW z \in 0 .. (2 * H - 1), p = (2 * H) * u + z
  PROVE  /\ u \in -H .. (H - 1)
         /\ p \in -H .. (H - 1) <=> u = (IF z >= H THEN -1 ELSE 0)
         /\ p # -(H * (2 * H))
<1>1. p <= H * H /\ p >= -(H * H)
  <2>1. \A h, x, y \in Nat : x <= h /\ y <= h => x * y <= h * h /\ x * y >= 0
    BY SMT
  <2>2. \A x, y \in Int : (-x) * y = -(x * y) /\ x * (-y) = -(x * y) /\ (-x) * (-y) = x * y
                          /\ x * y \in Int
    BY SMT
  <2>3. CASE a >= 0 /\ b >= 0
    BY <2>1, <2>2, <2>3
  <2>4. CASE a >= 0 /\ b < 0
    <3>1. a * (-b) <= H * H /\ a * (-b) >= 0 /\ a * (-b) = -(a * b)
      BY <2>1, <2>2, <2>4
    <3> QED BY <2>2, <3>1
  <2>5. CASE a < 0 /\ b >= 0
    <3>1. (-a) * b <= H * H /\ (-a) * b >= 0 /\ (-a) * b = -(a * b)
      BY <2>1, <2>2, <2>5
    <3> QED BY <2>2, <3>1
  <2>6. CASE a < 0 /\ b < 0
    <3>1. (-a) * (-b) <= H * H /\ (-a) * (-b) >= 0 /\ (-a) * (-b) = a * b
      BY <2>1, <2>2, <2>6
    <3> QED BY <2>2, <3>1
  <2> QED BY <2>3, <2>4, <2>5, <2>6
<1>2. H * H \in Nat /\ H * H >= 1 /\ H * (2 * H) = 2 * (H * H) /\ (2 * H) * H = 2 * (H * H)
  BY SMT
<1>3. \A m \in Nat \ {0} : \A x, y \in Int :
        x >= y => m * x >= m * y /\ m * x \in Int /\ m * y \in Int
  BY SMT
<1>4. (2 * H) * u \in Int /\ (2 * H) * 0 = 0 /\ (2 * H) * 1 = 2 * H /\ (2 * H) * (-1) = -(2 * H)
      /\ (2 * H) * (-2) = -(4 * H) /\ 2 * H \in Nat \ {0}
      /\ (2 * H) * (-H - 1) = -(2 * (H * H)) - 2 * H
  BY SMT
<1>5. /\ u >= H => (2 * H) * u >= 2 * (H * H)
      /\ u <= -H - 1 => (2 * H) * u <= -(2 * (H * H)) - 2 * H
      /\ u >= 1 => (2 * H) * u >= 2 * H
      /\ u <= -2 => (2 * H) * u <= -(4 * H)
  BY <1>2, <1>3, <1>4
<1>6. u \in -H .. (H - 1)
  BY <1>1, <1>2, <1>4, <1>5
<1>7. p # -(H * (2 * H))
  BY <1>1, <1>2
<1>8. CASE u >= 1
  BY <1>4, <1>5, <1>6, <1>7, <1>8
<1>9. CASE u <= -2
  BY <1>4, <1>5, <1>6, <1>7, <1>9
<1>10. CASE u = 0
  BY <1>4, <1>6, <1>7, <1>10
<1>11. CASE u = -1
  BY <1>4, <1>6, <1>7, <1>11
<1> QED BY <1>8, <1>9, <1>10, <1>11

(* Signed: the upper half is needed when it is not the sign of the lower.  *)
LEMMA ImulPairs ==
  ASSUME NEW w \in Nat \ {0}, w <= MaxBits, NEW lo \in Words(w), NEW s \in Words(w),
         NEW m, m = Imul(w, lo, s)
  PROVE  /\ Pairing(w, lo, s, m, Idiv(w, m.lo, m.hi, s, TRUE),
              IF Msb(w) \in m.lo THEN Bits(w) ELSE {})
         /\ m.lo \in Words(w) /\ m.hi \in Words(w)
<1> DEFINE H == 2 ^ (w - 1)
           M == 2 ^ w
           a == Signed(w, lo)
           k == Signed(w, s)
           p == a * k
           u == p \div M
           z == p % M
           big == p \div H \notin {0, -1}
<1>1. H \in Nat \ {0} /\ M = 2 * H
  BY WordMeans
<1>2. a \in -H .. (H - 1) /\ k \in -H .. (H - 1) /\ (s = {} <=> k = 0)
  BY WordMeans
<1>3. /\ m.lo = Bin(w, p) /\ m.hi = Bin(w, u)
      /\ "CF" \in m.f <=> big
      /\ "OF" \in m.f <=> big
  BY MulResultIs, ZenonT(60) DEF Imul
<1>4. Bin(w, a) = lo /\ Bin(w, Value[lo]) = lo
  BY WordMeans
<1>5. 2 ^ (2 * w - 1) = H * (2 * H)
  <2>1. (w - 1) + w = 2 * w - 1 /\ w - 1 \in Nat
    OBVIOUS
  <2>2. 2 ^ ((w - 1) + w) = 2 ^ (w - 1) * 2 ^ w
    BY <2>1, PowerSum
  <2> QED BY <1>1, <2>1, <2>2
<1>6. p \in Int
  <2> HIDE DEF H, a, k
  <2> QED BY <1>1, <1>2, SMT
<1>7. u \in Int /\ z \in 0 .. (M - 1) /\ p = M * u + z
  <2> HIDE DEF p, H, M
  <2>1. M \in Nat \ {0}
    BY <1>1
  <2> QED BY <1>6, <2>1, DivMod
<1>8. /\ u \in -H .. (H - 1)
      /\ p \in -H .. (H - 1) <=> u = (IF z >= H THEN -1 ELSE 0)
      /\ p # -(H * (2 * H))
  <2>1. p = a * k /\ p = (2 * H) * u + z /\ z \in 0 .. (2 * H - 1)
    BY <1>1, <1>7
  <2> HIDE DEF p, H, M, a, k, u, z
  <2> QED BY <1>1, <1>2, <1>6, <1>7, <2>1, ProductSplits
<1>9. big <=> ~(p \in -H .. (H - 1))
  <2> HIDE DEF p, H
  <2> QED BY <1>1, <1>6, AroundZero
<1>10. /\ m.lo \in Words(w) /\ m.hi \in Words(w)
       /\ Value[m.lo] = z /\ Signed(w, m.hi) = u
       /\ Msb(w) \in m.lo <=> z >= H
  <2> HIDE DEF p, u
  <2> QED BY <1>3, <1>6, <1>7, <1>8, BinMeans, ZspIs DEF H, M, z
<1>11. Signed(w, m.hi) * 2 ^ w + Value[m.lo] = p
  <2> HIDE DEF p, u, z, H
  <2>1. u * M = M * u
    <3> HIDE DEF M
    <3> QED BY <1>1, <1>7, SMT
  <2> QED BY <1>7, <1>10, <2>1
<1>12. ASSUME s # {} PROVE Idiv(w, m.lo, m.hi, s, TRUE) = Done(w, a, 0)
  <2>1. k # 0 /\ k \in Int /\ a \in Int
    <3> HIDE DEF H
    <3> QED BY <1>1, <1>2, <1>12
  <2> DEFINE n == Signed(w, m.hi) * 2 ^ w + Value[m.lo]
             odd == w # Byte /\ Signed(w, s) = -1 /\ n = -(2 ^ (2 * w - 1))
             q == Quot(n, k)
             t == Rem(n, k)
  <2>2. Idiv(w, m.lo, m.hi, s, TRUE) =
          IF s = {} THEN Fault
          ELSE IF odd THEN (IF TRUE THEN Trap ELSE Fault)
          ELSE IF q \div H \notin {0, -1} THEN Fault
          ELSE Done(w, q, t)
    BY Zenon DEF Idiv
  <2>3. n = p
    BY <1>11
  <2>4. ~odd
    BY <1>5, <1>8, <2>3
  <2>5. q = a /\ t = 0
    <3> HIDE DEF a, k, n
    <3> QED BY <2>1, <2>3, QuotOfProduct
  <2>6. q \div H \in {0, -1}
    <3> HIDE DEF a, H, q
    <3> QED BY <1>1, <1>2, <2>1, <2>5, AroundZero
  <2> HIDE DEF odd, q, t, n, H, a
  <2> QED BY <1>12, <2>2, <2>4, <2>5, <2>6
<1>13. Done(w, a, 0) = Done(w, Value[lo], 0)
  BY <1>4, Zenon DEF Done
<1> DEFINE high == IF Msb(w) \in m.lo THEN Bits(w) ELSE {}
<1>14. m.hi = high <=> u = (IF z >= H THEN -1 ELSE 0)
  <2>1. m.hi = {} <=> u = 0
    BY <1>10, WordMeans
  <2>2. m.hi = Bits(w) <=> u = -1
    BY <1>3, <1>10, AllOnes
  <2> HIDE DEF u, z, H
  <2>3. CASE z >= H
    BY <1>10, <2>2, <2>3
  <2>4. CASE ~(z >= H)
    BY <1>10, <2>1, <2>4
  <2> QED BY <2>3, <2>4
<1>15. "CF" \in m.f <=> m.hi # high
  BY <1>3, <1>8, <1>9, <1>14, Zenon
<1>16. "CF" \in m.f <=> "OF" \in m.f
  BY <1>3, Zenon
<1>17. s # {} => Idiv(w, m.lo, m.hi, s, TRUE) = Done(w, Value[lo], 0)
  BY <1>12, <1>13, Zenon
<1> HIDE DEF high
<1>18. Pairing(w, lo, s, m, Idiv(w, m.lo, m.hi, s, TRUE), high)
  BY <1>15, <1>16, <1>17, Zenon DEF Pairing
<1> QED BY <1>10, <1>18 DEF high

-----------------------------------------------------------------------------
(* Every multiplication and division of the machine does it.               *)
LEMMA StepDivides ==
  ASSUME IInv, Next
  PROVE  DivisionStep
<1> DEFINE op == ins'.op
           s  == ins'.s
<1>1. /\ size \in Nat \ {0} /\ size <= MaxBits
      /\ acc \in Words(size) /\ ext \in Words(size)
  BY SizeFacts DEF IInv, TypeOK
<1>2. CASE op \in {"mul", "imul"}
  <2>1. s \in Operand /\ Multiply(op, s)
    BY <1>2 DEF Next, Arithmetic, Shift, ShiftDouble, Unary, TestOp, CarryOp, SetCc, Multiply,
         MultiplyDirect, Divide, DecimalAdjust, AsciiAdjust, BaseAdjust, Reset, Do, Both,
         OpA, OpB, OpUnary
  <2>2. s \in Words(size)
    BY <2>1, OperandFits
  <2> DEFINE m == IF op = "mul" THEN Mul(size, acc, s) ELSE Imul(size, acc, s)
  <2>3. acc' = m.lo /\ ext' = m.hi /\ flags' = m.f
    BY <2>1 DEF Multiply, Both
  <2>4. CASE op = "mul"
    <3>1. m = Mul(size, acc, s)
      BY <2>4
    <3> HIDE DEF m, op, s
    <3>2. Pairing(size, acc, s, m, Div(size, m.lo, m.hi, s), {})
      BY <1>1, <2>2, <3>1, MulPairs
    <3>3. Pairing(size, acc, s, m, Div(size, acc', ext', s), {})
      BY <2>3, <3>2
    <3>4. /\ s # {} => Div(size, acc', ext', s) = Done(size, Value[acc], 0)
          /\ "CF" \in flags' <=> ext' # {}
          /\ "CF" \in flags' <=> "OF" \in flags'
      BY <2>3, <3>3, Zenon DEF Pairing
    <3> QED BY <2>4, <3>4 DEF DivisionStep, op, s
  <2>5. CASE op = "imul"
    <3>1. m = Imul(size, acc, s)
      BY <2>5
    <3> HIDE DEF m, op, s
    <3> DEFINE high == IF Msb(size) \in acc' THEN Bits(size) ELSE {}
    <3>2. Pairing(size, acc, s, m, Idiv(size, m.lo, m.hi, s, TRUE),
            IF Msb(size) \in m.lo THEN Bits(size) ELSE {})
      BY <1>1, <2>2, <3>1, ImulPairs
    <3>3. Pairing(size, acc, s, m, Idiv(size, acc', ext', s, TRUE), high)
      BY <2>3, <3>2, Zenon
    <3>4. /\ s # {} => Idiv(size, acc', ext', s, TRUE) = Done(size, Value[acc], 0)
          /\ "CF" \in flags' <=> ext' # high
          /\ "CF" \in flags' <=> "OF" \in flags'
      BY <2>3, <3>3, Zenon DEF Pairing
    <3> QED BY <2>5, <3>4, Zenon DEF DivisionStep, op, s
  <2> QED BY <1>2, <2>4, <2>5
<1>3. CASE op \in {"div", "idiv"}
  <2>1. PICK x86 \in BOOLEAN : s \in Operand /\ Divide(op, s, x86)
    BY <1>3 DEF Next, Arithmetic, Shift, ShiftDouble, Unary, TestOp, CarryOp, SetCc, Multiply,
         MultiplyDirect, Divide, DecimalAdjust, AsciiAdjust, BaseAdjust, Reset, Do, Both,
         OpA, OpB, OpUnary
  <2>2. s \in Words(size)
    BY <2>1, OperandFits
  <2> DEFINE d == IF op = "div" THEN Div(size, acc, ext, s) ELSE Idiv(size, acc, ext, s, x86)
  <2>3. /\ outcome' = d.outcome /\ flags' = flags
        /\ d.outcome = "done" => acc' = d.lo /\ ext' = d.hi
        /\ d.outcome # "done" => acc' = acc /\ ext' = ext
    BY <2>1 DEF Divide
  <2>4. outcome' # "done" => UNCHANGED <<acc, ext, flags>>
    BY <2>3
  <2>5. Fault.outcome = "fault" /\ Trap.outcome = "trap"
    BY DEF Fault, Trap
  <2>6. CASE op = "div"
    <3>1. d = Div(size, acc, ext, s)
      BY <2>6
    <3> HIDE DEF d, op, s
    <3>2. Divides(size, acc, ext, s, d)
      BY <1>1, <2>2, <3>1, DivDivides
    <3>3. /\ outcome' = "fault" => Dividend(size, acc, ext) >= 2 ^ size * Value[s]
          /\ outcome' = "done" =>
               /\ Value[acc'] * Value[s] + Value[ext'] = Dividend(size, acc, ext)
               /\ Value[ext'] < Value[s]
      BY <2>3, <2>5, <3>2 DEF Divides
    <3> QED BY <2>4, <2>6, <3>3 DEF DivisionStep, Dividend, op, s
  <2>7. CASE op = "idiv"
    <3>1. d = Idiv(size, acc, ext, s, x86)
      BY <2>7
    <3> DEFINE k  == Signed(size, s)
               sn == SignedDividend(size, acc, ext)
    <3> HIDE DEF d, op, s
    <3>2. DividesSigned(size, acc, ext, s, d)
      BY <1>1, <2>2, <3>1, IdivDivides
    <3>3. \/ d = Trap
          \/ d = Fault /\ (k = 0 \/ Abs(sn) >= 2 ^ (size - 1) * Abs(k))
          \/ /\ d.outcome = "done"
             /\ Signed(size, d.lo) * k + Signed(size, d.hi) = sn
             /\ Abs(Signed(size, d.hi)) < Abs(k)
             /\ Signed(size, d.hi) # 0 => ((Signed(size, d.hi) < 0) = (sn < 0))
      BY <3>2, Zenon DEF DividesSigned
    <3> HIDE DEF k, sn
    <3>4. /\ outcome' = "fault" => k = 0 \/ Abs(sn) >= 2 ^ (size - 1) * Abs(k)
          /\ outcome' = "done" =>
               /\ Signed(size, acc') * k + Signed(size, ext') = sn
               /\ Abs(Signed(size, ext')) < Abs(k)
               /\ Signed(size, ext') # 0 => ((Signed(size, ext') < 0) = (sn < 0))
      BY <2>3, <2>5, <3>3
    <3> QED BY <2>4, <2>7, <3>4 DEF DivisionStep, SignedDividend, Dividend, k, sn, op, s
  <2> QED BY <1>3, <2>6, <2>7
<1>4. CASE op \notin {"mul", "imul", "div", "idiv"}
  BY <1>4, Zenon DEF DivisionStep
<1> QED BY <1>2, <1>3, <1>4

(* A division that completes is exact and one that faults writes nothing   *)
(* and had no quotient that fits; dividing a product gives the factor, and *)
(* CF and OF tell whether the product needs its upper half: mul_byte() ..  *)
(* idiv_long(), for every operand size, where the C code multiplies and    *)
(* divides in a type of twice the width.                                   *)
THEOREM DivisionIsExact == Spec => DivisionExact
<1>1. IInv /\ [Next]_vars => [DivisionStep]_vars
  BY StepDivides
<1> QED BY InitInv, StepInv, <1>1, PTL DEF Spec, DivisionExact
=============================================================================
