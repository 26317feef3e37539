------------------------------ MODULE X86Calc -------------------------------
(***************************************************************************)
(* Programs of arithmetic instructions: the handlers of ops.c and ops2.c   *)
(* that apply the primitives to registers.  acc is AL, AX or EAX, ext is   *)
(* AH for bytes and DX or EDX otherwise; the other operand is any value.   *)
(*                                                                         *)
(* A behaviour is a program of one operand size.  It is one instruction    *)
(* long, or as long as it computes with packed decimal numbers; then the   *)
(* host resets the emulator.                                               *)
(***************************************************************************)
EXTENDS X86Alu

CONSTANTS
  Size,      \* operand sizes
  AccArg, ExtArg, OperandArg, \* numbers in acc, in ext and as operand
  CountArg,  \* shift and rotate counts, any byte
  BaseArg,   \* operand byte of AAM and AAD
  FlagArg,   \* flags before the program
  DigitArg   \* decimal numbers a program starts with and calculates with

ASSUME ArgAssumption ==
  /\ Size \subseteq 4 .. MaxBits
  /\ AccArg \cup ExtArg \cup OperandArg \subseteq Nat
  /\ CountArg \cup BaseArg \subseteq 0 .. 255
  /\ FlagArg \subseteq Flags
  /\ DigitArg \subseteq 0 .. 99

VARIABLES
  size,    \* operand size of this program
  acc, ext,
  flags,   \* R_FLG
  outcome, \* how the instruction ended: "done", "fault" (interrupt 0), "trap"
  ins,     \* history: the last instruction, its operand or count
  calc     \* history: the decimal number the program calculates

vars == <<size, acc, ext, flags, outcome, ins, calc>>

-----------------------------------------------------------------------------
NoCalc == [kind |-> "none", value |-> 0, digits |-> FALSE]
Starts(n) == [kind |-> "packed", value |-> n, digits |-> n < 10]

Bcd(n) == Bin(Byte, (n \div 10) * 16 + (n % 10))

(* The decimal number s stands for, in two digits *)
IsBcd(s)   == \E n \in 0 .. 99 : s = Bcd(n)
Decimal(s) == CHOOSE n \in 0 .. 99 : s = Bcd(n)

(* The decimal number an addition or subtraction stands for: not adjusted, *)
(* not reduced to two digits; of single digits?                            *)
Calculated(op, s) ==
  LET n == Decimal(s)
      is(kind, value) == [kind |-> kind, value |-> value, digits |-> calc.digits /\ n < 10]
  IN  IF calc.kind # "packed" \/ ~IsBcd(s) THEN NoCalc
      ELSE CASE op = "add" -> is("sum", calc.value + n)
             [] op = "adc" -> is("sum", calc.value + n + Carry(flags))
             [] op = "sub" -> is("difference", calc.value - n)
             [] op = "sbb" -> is("difference", calc.value - n - Carry(flags))
             [] OTHER      -> NoCalc

Adjusted(kind) == IF calc.kind = kind THEN Starts(calc.value % 100) ELSE NoCalc

(* The program goes on. *)
Going == ins.op = "start" \/ calc.kind # "none"

Do(op, s, result) ==
  /\ Going
  /\ ins' = [op |-> op, s |-> s]
  /\ acc' = result.r /\ flags' = result.f
  /\ outcome' = "done"
  /\ UNCHANGED <<size, ext>>

(* ... of an instruction that writes both registers *)
Both(op, s, result) ==
  /\ Going
  /\ ins' = [op |-> op, s |-> s]
  /\ acc' = result.lo /\ ext' = result.hi /\ flags' = result.f
  /\ outcome' = IF op = "aam" /\ s = 0 THEN "fault" ELSE "done"
  /\ calc' = NoCalc
  /\ UNCHANGED size

-----------------------------------------------------------------------------
(* op_A_byte, op_A_word, op_A_long: opcodes 00 .. 3d, 80 .. 83 *)
OpA == {"add", "or", "adc", "sbb", "and", "sub", "xor", "cmp"}

ResultA(op, s) ==
  CASE op = "add" -> Add(size, acc, s, flags)
    [] op = "or"  -> Or(size, acc, s, flags)
    [] op = "adc" -> Adc(size, acc, s, flags)
    [] op = "sbb" -> Sbb(size, acc, s, flags)
    [] op = "and" -> And(size, acc, s, flags)
    [] op = "sub" -> Sub(size, acc, s, flags)
    [] op = "xor" -> XorOp(size, acc, s, flags)
    [] op = "cmp" -> Cmp(size, acc, s, flags)

Arithmetic(op, s) == Do(op, s, ResultA(op, s)) /\ calc' = Calculated(op, s)

(* op_B_byte, op_B_word, op_B_long: opcodes c0, c1, d0 .. d3; 6 is 4 *)
OpB == {"rol", "ror", "rcl", "rcr", "shl", "shr", "sar"}

ResultB(op, n, x86) ==
  CASE op = "rol" -> Rol(size, acc, n, flags)
    [] op = "ror" -> Ror(size, acc, n, flags)
    [] op = "rcl" -> Rcl(size, acc, n, flags, x86)
    [] op = "rcr" -> Rcr(size, acc, n, flags)
    [] op = "shl" -> Shl(size, acc, n, flags, x86)
    [] op = "shr" -> Shr(size, acc, n, flags, x86)
    [] op = "sar" -> Sar(size, acc, n, flags)

Shift(op, n, x86) == Do(op, n, ResultB(op, n, x86)) /\ calc' = NoCalc

(* SHLD, SHRD: the bits come from a register, here ext *)
ShiftDouble(op, n, x86) ==
  /\ size # Byte
  /\ Do(op, n, IF op = "shld" THEN Shld(size, acc, ext, n, flags, x86)
               ELSE Shrd(size, acc, ext, n, flags, x86))
  /\ calc' = NoCalc

(* fe and ff, 40 .. 4f; f6 and f7 *)
OpUnary == {"inc", "dec", "not", "neg"}

Unary(op) ==
  /\ Do(op, {}, CASE op = "inc" -> Inc(size, acc, flags)
                  [] op = "dec" -> Dec(size, acc, flags)
                  [] op = "not" -> Result(Not(size, acc), flags)
                  [] op = "neg" -> Neg(size, acc, flags))
  /\ calc' = NoCalc

TestOp(s) == Do("test", s, Test(size, acc, s, flags)) /\ calc' = NoCalc

(* clc, stc, cmc *)
CarryOp(op) ==
  /\ Do(op, {}, Result(acc, Update(flags, {"CF"},
       If(op = "stc" \/ (op = "cmc" /\ "CF" \notin flags), "CF"))))
  /\ calc' = IF calc.kind = "packed" THEN calc ELSE NoCalc

(* setcc into the register, byte size *)
SetCc(type) ==
  /\ size = Byte
  /\ Do("set", type, Result(IF Holds(type, flags) THEN {0} ELSE {}, flags))
  /\ calc' = NoCalc

-----------------------------------------------------------------------------
(* mul, imul: f6 and f7 *)
Multiply(op, s) ==
  LET m == IF op = "mul" THEN Mul(size, acc, s) ELSE Imul(size, acc, s)
  IN  Both(op, s, m)

(* imul with two or three operands, no byte form: the upper half is dropped *)
MultiplyDirect(s) ==
  /\ size # Byte
  /\ LET m == Imul(size, acc, s) IN Do("imul2", s, Result(m.lo, m.f))
  /\ calc' = NoCalc

(* div, idiv: nothing is written when interrupt 0 is raised *)
Divide(op, s, x86) ==
  LET d == IF op = "div" THEN Div(size, acc, ext, s) ELSE Idiv(size, acc, ext, s, x86)
  IN  /\ Going
      /\ ins' = [op |-> op, s |-> s]
      /\ outcome' = d.outcome
      /\ IF d.outcome = "done" THEN acc' = d.lo /\ ext' = d.hi
         ELSE UNCHANGED <<acc, ext>>
      /\ calc' = NoCalc
      /\ UNCHANGED <<size, flags>>

-----------------------------------------------------------------------------
DecimalAdjust(op) ==
  /\ size = Byte
  /\ Do(op, {}, IF op = "daa" THEN Daa(acc, flags) ELSE Das(acc, flags))
  /\ calc' = Adjusted(IF op = "daa" THEN "sum" ELSE "difference")

(* aaa, aas *)
AsciiAdjust(op) ==
  LET r == AaaAas(flags, acc, ext, IF op = "aaa" THEN 1 ELSE -1)
  IN  /\ size = Byte
      /\ Both(op, {}, r)

(* aad, aam *)
BaseAdjust(op, base, x86) ==
  LET r == IF op = "aad" THEN Aad(acc, ext, base) ELSE Aam(acc, base)
  IN  /\ size = Byte
      /\ IF op = "aam" /\ base = 0 /\ x86
         THEN Going /\ ins' = [op |-> op, s |-> base] /\ outcome' = "trap"
              /\ calc' = NoCalc /\ UNCHANGED <<size, acc, ext, flags>>
         ELSE Both(op, base, r)

(* x86emu_reset(): the general registers and the arithmetic flags are 0. *)
Reset ==
  /\ ~Going /\ outcome # "trap"
  /\ acc' = {} /\ ext' = {} /\ flags' = {}
  /\ ins' = [op |-> "start", s |-> {}] /\ outcome' = "done" /\ calc' = NoCalc
  /\ UNCHANGED size

-----------------------------------------------------------------------------
Init ==
  /\ size \in Size
  /\ outcome = "done" /\ ins = [op |-> "start", s |-> {}]
  /\ \/ /\ \E n \in AccArg : acc = Bin(size, n)
        /\ \E n \in ExtArg : ext = Bin(size, n)
        /\ flags \in FlagArg /\ calc = NoCalc
     \/ /\ size = Byte /\ ext = {} /\ flags = {}
        /\ \E n \in DigitArg : acc = Bcd(n) /\ calc = Starts(n)

Operand == {Bin(size, n) : n \in OperandArg} \cup
           (IF calc.kind = "none" THEN {} ELSE {Bcd(n) : n \in DigitArg})

Next ==
  \/ \E op \in OpA, s \in Operand : Arithmetic(op, s)
  \/ \E op \in OpB, n \in CountArg, x86 \in BOOLEAN : Shift(op, n, x86)
  \/ \E op \in {"shld", "shrd"}, n \in CountArg, x86 \in BOOLEAN : ShiftDouble(op, n, x86)
  \/ \E op \in OpUnary : Unary(op)
  \/ \E s \in Operand : TestOp(s)
  \/ \E op \in {"clc", "stc", "cmc"} : CarryOp(op)
  \/ \E type \in Condition : SetCc(type)
  \/ \E op \in {"mul", "imul"}, s \in Operand : Multiply(op, s)
  \/ \E s \in Operand : MultiplyDirect(s)
  \/ \E op \in {"div", "idiv"}, s \in Operand, x86 \in BOOLEAN : Divide(op, s, x86)
  \/ \E op \in {"daa", "das"} : DecimalAdjust(op)
  \/ \E op \in {"aaa", "aas"} : AsciiAdjust(op)
  \/ \E op \in {"aad", "aam"}, base \in BaseArg, x86 \in BOOLEAN : BaseAdjust(op, base, x86)
  \/ Reset

Spec == Init /\ [][Next]_vars
=============================================================================
