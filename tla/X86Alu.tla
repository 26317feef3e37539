------------------------------- MODULE X86Alu -------------------------------
(***************************************************************************)
(* prim_ops.c: the arithmetic, logic, shift, multiply, divide and decimal  *)
(* primitives.  The code has each in a byte, a word and a long copy; here  *)
(* the operand size w, in bits, is a parameter.  A word of the machine is  *)
(* the set of the positions of its 1 bits.                                 *)
(***************************************************************************)
EXTENDS Integers, FiniteSets, FiniteSetsExt

CONSTANTS
  MaxBits,  \* the widest operand, 32 in the code
  Wide      \* width of the C type shifts are computed in, 32

Byte == 8   \* the operand size whose copies differ from the other two

ASSUME WidthAssumption ==
  /\ MaxBits \in Nat /\ MaxBits >= Byte
  /\ Wide \in Nat /\ Wide >= MaxBits

Flag  == {"CF", "PF", "AF", "ZF", "SF", "OF"}
Flags == SUBSET Flag

Bits(w) == 0 .. (w - 1)
Words(w) == SUBSET Bits(w)
Msb(w)  == w - 1

(* A result is a word and the flags behind it. *)
Result(r, f) == [r |-> r, f |-> f]

-----------------------------------------------------------------------------
(* Words and integers *)
ValueOf(d) == MapThenSumSet(LAMBDA i : 2 ^ i, d)
Value    == [d \in SUBSET (0 .. (MaxBits - 1)) |-> ValueOf(d)]
Bin(w, n) == {i \in Bits(w) : (n \div 2 ^ i) % 2 = 1}   \* two's complement
Signed(w, d) == Value[d] - (IF Msb(w) \in d THEN 2 ^ w ELSE 0)

Not(w, d)     == Bits(w) \ d
Xor(d, s)     == (d \ s) \cup (s \ d)
UpAll(w, d, n) == {i + n : i \in d}              \* mutant: not cut to the width
Up(w, d, n)   == {i \in Bits(w) : i - n \in d}   \* d << n
Down(w, d, n) == {i \in Bits(w) : i + n \in d}   \* d >> n

If(c, flag) == IF c THEN {flag} ELSE {}

(* CONDITIONAL_SET_FLAG and CLEAR_FLAG for the flags written *)
Update(f, written, new) == (f \ written) \cup new

Parity(r) == Cardinality(r \cap Bits(Byte)) % 2 = 0
Zsp(w, r) == If(r = {}, "ZF") \cup If(Msb(w) \in r, "SF") \cup If(Parity(r), "PF")
ZspFlags  == {"ZF", "SF", "PF"}

-----------------------------------------------------------------------------
(* Mutant: the carry chain without the bits both operands have. *)
CarriesOnce(w, d, s, r) == Not(w, r) \cap (s \cup d)

(* Carry and borrow chains: bit i is the carry out of bit i. *)
Carries(w, d, s, r) == (s \cap d) \cup (Not(w, r) \cap (s \cup d))
Borrows(w, d, s, r) == (r \cap (Not(w, d) \cup s)) \cup (Not(w, d) \cap s)

Chain(w, c) == If((Msb(w) \in c) # (Msb(w) - 1 \in c), "OF") \cup If(3 \in c, "AF")

Carry(f) == IF "CF" \in f THEN 1 ELSE 0

AddCarry(w, d, s, c, f) ==
  LET n == Value[d] + Value[s] + c
      r == Bin(w, n)
  IN  Result(r, If(n >= 2 ^ w, "CF") \cup Zsp(w, r) \cup Chain(w, Carries(w, d, s, r)))

Add(w, d, s, f) == AddCarry(w, d, s, 0, f)
Adc(w, d, s, f) == AddCarry(w, d, s, Carry(f), f)

SubBorrow(w, d, s, c, f) ==
  LET r  == Bin(w, Value[d] - Value[s] - c)
      bc == Borrows(w, d, s, r)
  IN  Result(r, If(Msb(w) \in bc, "CF") \cup Zsp(w, r) \cup Chain(w, bc))

Sub(w, d, s, f) == SubBorrow(w, d, s, 0, f)
Sbb(w, d, s, f) == SubBorrow(w, d, s, Carry(f), f)
Cmp(w, d, s, f) == Result(d, Sub(w, d, s, f).f)

(* INC and DEC leave the carry alone. *)
Inc(w, d, f) ==
  LET r == Bin(w, Value[d] + 1)
  IN  Result(r, (f \cap {"CF"}) \cup Zsp(w, r) \cup Chain(w, Carries(w, d, {0}, r)))

Dec(w, d, f) ==
  LET r == Bin(w, Value[d] - 1)
  IN  Result(r, (f \cap {"CF"}) \cup Zsp(w, r) \cup Chain(w, Borrows(w, d, {0}, r)))

Neg(w, s, f) ==
  LET r == Bin(w, -Value[s])
  IN  Result(r, If(s # {}, "CF") \cup Zsp(w, r) \cup Chain(w, r \cup s))

(* OF, CF and AF are cleared; TEST leaves AF. *)
Or(w, d, s, f)   == Result(d \cup s, Zsp(w, d \cup s))
And(w, d, s, f)  == Result(d \cap s, Zsp(w, d \cap s))
XorOp(w, d, s, f) == Result(Xor(d, s), Zsp(w, Xor(d, s)))
Test(w, d, s, f) == Result(d, (f \cap {"AF"}) \cup Zsp(w, d \cap s))

-----------------------------------------------------------------------------
(* Rotations.  n is the count the code computes with; the count itself is  *)
(* any byte, the opcode handlers do not mask it.                           *)
RotateFlags == {"CF", "OF"}

(* Mutant: one position too far. *)
RolFar(w, d, s, f) == IF s % w = 0 THEN Result(d, f)
  ELSE Result(Up(w, d, s % w) \cup Down(w, d, w - (s % w) + 1), f)

Rol(w, d, s, f) ==
  LET n == s % w
      r == IF n = 0 THEN d ELSE Up(w, d, n) \cup Down(w, d, w - n)
  IN  IF s = 0 THEN Result(d, f)
      ELSE Result(r, Update(f, IF s = 1 THEN RotateFlags ELSE {"CF"},
             If(0 \in r, "CF") \cup If(s = 1 /\ (0 \in r) # (Msb(w) \in r), "OF")))

Ror(w, d, s, f) ==
  LET n == s % w
      r == IF n = 0 THEN d ELSE Up(w, d, w - n) \cup Down(w, d, n)
  IN  IF s = 0 THEN Result(d, f)
      ELSE Result(r, Update(f, IF s = 1 THEN RotateFlags ELSE {"CF"},
             If(Msb(w) \in r, "CF")
               \cup If(s = 1 /\ (Msb(w) \in r) # (Msb(w) - 1 \in r), "OF")))

(* A C shift by the width of the type or more is undefined.  An x86 host   *)
(* takes the count modulo Wide, on others nothing is left.                 *)
HostCount(n, x86) == IF x86 THEN n % Wide ELSE n

Rcl(w, d, s, f, x86) ==
  LET n  == s % (w + 1)
      cf == w - n \in d
      r  == Up(w, d, HostCount(n, x86)) \cup Down(w, d, w + 1 - n)
              \cup {i \in {n - 1} : "CF" \in f}
  IN  IF n = 0 THEN Result(d, f)
      ELSE Result(r, Update(f, RotateFlags,
             If(cf, "CF") \cup If(n = 1 /\ cf # (Msb(w) \in r), "OF")))

Rcr(w, d, s, f) ==
  LET n == s % (w + 1)
      r == Down(w, d, n) \cup Up(w, d, w + 1 - n) \cup {i \in {w - n} : "CF" \in f}
  IN  IF n = 0 THEN Result(d, f)
      ELSE Result(r, Update(f, IF n = 1 THEN RotateFlags ELSE {"CF"},
             If(n - 1 \in d, "CF")
               \cup If(n = 1 /\ ("CF" \in f) # (Msb(w) \in d), "OF")))

-----------------------------------------------------------------------------
(* Shifts: OF is cleared unless the count is 1, also for a count of 0. *)
ShiftFlags == {"CF", "OF"} \cup ZspFlags

(* SHL, and SHLD with the bits that enter at the bottom *)
ShiftUp(w, d, enter, s, f, x86) ==
  LET r  == Up(w, d, s) \cup enter
      cf == w - s \in d
  IN  IF s = 0 THEN Result(d, f \ {"OF"})
      ELSE IF s < w
      THEN Result(r, Update(f, ShiftFlags, If(cf, "CF") \cup Zsp(w, r)
                       \cup If(s = 1 /\ cf # (Msb(w) \in r), "OF")))
      ELSE Result({}, Update(f, ShiftFlags, {"PF", "ZF"}
                       \cup If(Msb(w) - HostCount(s - 1, x86) \in d, "CF")))

Shl(w, d, s, f, x86)        == ShiftUp(w, d, {}, s, f, x86)
Shld(w, d, fill, s, f, x86) == ShiftUp(w, d, Down(w, fill, w - s), s, f, x86)

(* SHR, and SHRD with the bits that enter at the top.  Beyond the width    *)
(* the byte copy sets PF and the last carry, the others clear both.        *)
ShiftDown(w, d, enter, s, f, x86) ==
  LET r == Down(w, d, s) \cup enter
  IN  IF s = 0 THEN Result(d, f \ {"OF"})
      ELSE IF s < w
      THEN Result(r, Update(f, ShiftFlags, If(s - 1 \in d, "CF") \cup Zsp(w, r)
               \cup If(s = 1 /\ (Msb(w) \in r) # (Msb(w) - 1 \in r), "OF")))
      ELSE Result({}, Update(f, ShiftFlags, {"ZF"} \cup
               (IF w # Byte THEN {}
                ELSE {"PF"} \cup If(HostCount(s - 1, x86) \in d, "CF"))))

Shr(w, d, s, f, x86)        == ShiftDown(w, d, {}, s, f, x86)
Shrd(w, d, fill, s, f, x86) == ShiftDown(w, d, Up(w, fill, w - s), s, f, x86)

(* SAR takes the count modulo the width, so its branch for larger counts   *)
(* is never taken; OF is left alone.                                       *)
Sar(w, d, s, f) ==
  LET n == s % w
      r == Down(w, d, n) \cup (IF Msb(w) \in d THEN (w - n) .. Msb(w) ELSE {})
  IN  IF n = 0 THEN Result(d, f)
      ELSE Result(r, Update(f, {"CF"} \cup ZspFlags, If(n - 1 \in d, "CF") \cup Zsp(w, r)))

-----------------------------------------------------------------------------
(* Multiplication and division: lo is the accumulator, hi is AH, DX or EDX. *)
MulResult(w, p, big) ==
  [lo |-> Bin(w, p), hi |-> Bin(w, p \div 2 ^ w),
   f |-> Update(Zsp(w, Bin(w, p)), {"ZF"}, If(p = 0, "ZF"))
           \cup (IF big THEN {"CF", "OF"} ELSE {})]

Mul(w, lo, s) ==
  LET p == Value[lo] * Value[s] IN MulResult(w, p, p \div 2 ^ w # 0)

Imul(w, lo, s) ==
  LET p == Signed(w, lo) * Signed(w, s)
  IN  MulResult(w, p, p \div 2 ^ (w - 1) \notin {0, -1})

(* A division is done, raises interrupt 0, or traps in the host.           *)
Done(w, q, m) == [outcome |-> "done", lo |-> Bin(w, q), hi |-> Bin(w, m)]
Fault == [outcome |-> "fault"]
Trap  == [outcome |-> "trap"]

(* Mutant: the quotient is not checked. *)
DivAny(w, lo, hi, s) ==
  LET n == Value[hi] * 2 ^ w + Value[lo]
  IN  IF s = {} THEN Fault ELSE Done(w, n \div Value[s], n % Value[s])

Div(w, lo, hi, s) ==
  LET n == Value[hi] * 2 ^ w + Value[lo]
      q == n \div Value[s]
  IN  IF s = {} \/ q > 2 ^ w - 1 THEN Fault ELSE Done(w, q, n % Value[s])

(* C division rounds towards zero. *)
Abs(n) == IF n < 0 THEN -n ELSE n
Quot(n, k) == (IF (n < 0) = (k < 0) THEN 1 ELSE -1) * (Abs(n) \div Abs(k))
Rem(n, k)  == n - k * Quot(n, k)

(* The word and long copies divide in a C type of twice the width, whose   *)
(* least value cannot be divided by -1: undefined, x86 hosts trap and      *)
(* others deliver a quotient that fails the check.  The byte copy divides  *)
(* in 32 bits.                                                             *)
Idiv(w, lo, hi, s, x86) ==
  LET n == Signed(w, hi) * 2 ^ w + Value[lo]
      k == Signed(w, s)
  IN  IF s = {} THEN Fault
      ELSE IF w # Byte /\ k = -1 /\ n = -(2 ^ (2 * w - 1))
      THEN (IF x86 THEN Trap ELSE Fault)
      ELSE IF Quot(n, k) \div 2 ^ (w - 1) \notin {0, -1} THEN Fault
      ELSE Done(w, Quot(n, k), Rem(n, k))

-----------------------------------------------------------------------------
(* Decimal adjustment.  AL and AX are numbers here. *)
DaaDas(f, al, sign) ==
  LET half == al % 16 > 9 \/ "AF" \in f
      n    == IF half THEN al + sign * 6 ELSE al
      d    == IF sign < 0 THEN n % 256 ELSE n     \* das_byte() works on a u8
      full == d > 159 \/ "CF" \in f
      r    == Bin(Byte, IF full THEN d + sign * 96 ELSE d)
  IN  Result(r, Update(f, ZspFlags, Zsp(Byte, r))
                  \cup If(half, "AF") \cup If(full, "CF"))

(* Mutant: the half carry is not looked at. *)
DaaNoHalf(d, f) == DaaDas(f \ {"AF"}, Value[d], 1)

Daa(d, f) == DaaDas(f, Value[d], 1)
Das(d, f) == DaaDas(f, Value[d], -1)

AaaAas(f, al, ah, sign) ==
  LET adjust == Value[al] % 16 > 9 \/ "AF" \in f
      ax     == Value[ah] * 256 + Value[al] + (IF adjust THEN sign * 262 ELSE 0)
      lo     == Bin(Byte, ax % 16)
      hi     == Bin(Byte, ax \div 256)
  IN  [lo |-> lo, hi |-> hi,
       f |-> Update(f, {"CF", "AF", "SF", "ZF", "PF"},
               (IF adjust THEN {"CF", "AF"} ELSE {})
                 \cup If(lo = {} /\ hi = {}, "ZF") \cup If(Parity(lo), "PF"))]

(* aad_word() and aam_word() look at the low byte for all flags but ZF.    *)
Aad(al, ah, base) ==
  LET l == Bin(Byte, Value[al] + base * Value[ah])
  IN  [lo |-> l, hi |-> {}, f |-> Zsp(Byte, l)]

(* x86emuOp_aam() raises interrupt 0 for base 0 and goes on to aam_word(): *)
(* the division traps on an x86 host, others leave AL as the remainder.    *)
Aam(al, base) ==
  LET lo == IF base = 0 THEN al ELSE Bin(Byte, Value[al] % base)
      hi == IF base = 0 THEN {} ELSE Bin(Byte, Value[al] \div base)
  IN  [lo |-> lo, hi |-> hi,
       f |-> Update(Zsp(Byte, lo), {"ZF"}, If(lo = {} /\ hi = {}, "ZF"))]

-----------------------------------------------------------------------------
(* eval_condition(), types 0 .. 15: the odd ones negate *)
Condition == 0 .. 15

(* Mutant: "less or equal" forgets the overflow. *)
HoldsSign(type, f) == (IF type \div 2 = 1 THEN "CF" \in f ELSE IF type \div 2 = 7
  THEN "ZF" \in f \/ "SF" \in f ELSE "ZF" \in f) # (type % 2 = 1)

Holds(type, f) ==
  LET less == ("SF" \in f) # ("OF" \in f)
      cond == CASE type \div 2 = 0 -> "OF" \in f
                [] type \div 2 = 1 -> "CF" \in f
                [] type \div 2 = 2 -> "ZF" \in f
                [] type \div 2 = 3 -> "CF" \in f \/ "ZF" \in f
                [] type \div 2 = 4 -> "SF" \in f
                [] type \div 2 = 5 -> "PF" \in f
                [] type \div 2 = 6 -> less
                [] type \div 2 = 7 -> "ZF" \in f \/ less
  IN  cond # (type % 2 = 1)

=============================================================================
