---------------------------- MODULE X86CalcProps ----------------------------
(***************************************************************************)
(* What arithmetic programs rely on: the primitives against integers,      *)
(* against each other, and against decimal numbers.                        *)
(***************************************************************************)
EXTENDS X86Calc

(* Every register stays in the operand size and the flags are flags, after *)
(* every primitive: nothing shifted out, carried or divided leaks into the *)
(* bits beyond the operand (the casts of prim_ops.c).                      *)
TypeOK ==
  /\ size \in Size
  /\ acc \in Words(size) /\ ext \in Words(size)
  /\ flags \in Flags
  /\ outcome \in {"done", "fault", "trap"}

-----------------------------------------------------------------------------
(* The integer the last instruction stands for *)
Exact(op, s) ==
  LET d == Value[acc]
  IN  CASE op = "add" -> d + Value[s]
        [] op = "adc" -> d + Value[s] + Carry(flags)
        [] op = "sub" -> d - Value[s]
        [] op = "sbb" -> d - Value[s] - Carry(flags)
        [] op = "cmp" -> d - Value[s]
        [] op = "inc" -> d + 1
        [] op = "dec" -> d - 1
        [] op = "neg" -> -d

(* ... on the signed operands, and on their low 4 bits *)
ExactSigned(op, s) ==
  LET beyond(d) == IF Msb(size) \in d THEN 2 ^ size ELSE 0
  IN  CASE op \in {"add", "adc"}        -> Exact(op, s) - beyond(acc) - beyond(s)
        [] op \in {"sub", "sbb", "cmp"} -> Exact(op, s) - beyond(acc) + beyond(s)
        [] op \in {"inc", "dec"}        -> Exact(op, s) - beyond(acc)
        [] op = "neg"                   -> Exact(op, s) + beyond(acc)

ExactLow(op, s) ==
  LET rest(d) == Value[d] - (Value[d] % 16)
  IN  CASE op \in {"add", "adc"}        -> Exact(op, s) - rest(acc) - rest(s)
        [] op \in {"sub", "sbb", "cmp"} -> Exact(op, s) - rest(acc) + rest(s)
        [] op \in {"inc", "dec"}        -> Exact(op, s) - rest(acc)
        [] op = "neg"                   -> Exact(op, s) + rest(acc)

(* Carry and borrow chains computed from operands and result agree with    *)
(* integer arithmetic: CF is the unsigned overflow, OF the signed one, AF  *)
(* that of the low digit; INC and DEC keep CF.                             *)
ArithmeticExact ==
  [][LET op == ins'.op
         n  == Exact(op, ins'.s)
     IN  op \in {"add", "adc", "sub", "sbb", "cmp", "inc", "dec", "neg"} =>
           /\ acc' = IF op = "cmp" THEN acc ELSE Bin(size, n)
           /\ "CF" \in flags' <=> IF op \in {"inc", "dec"} THEN "CF" \in flags
                                  ELSE n \notin 0 .. (2 ^ size - 1)
           /\ "OF" \in flags' <=>
                ExactSigned(op, ins'.s) \notin -(2 ^ (size - 1)) .. (2 ^ (size - 1) - 1)
           /\ "AF" \in flags' <=> ExactLow(op, ins'.s) \notin 0 .. 15
           /\ "ZF" \in flags' <=> n % 2 ^ size = 0
           /\ "SF" \in flags' <=> n % 2 ^ size >= 2 ^ (size - 1)]_vars

(* Behind CMP and SUB the conditions of eval_condition() decide the order  *)
(* of the two operands, unsigned and signed.                               *)
ConditionsDecide ==
  [][LET s == ins'.s
     IN  ins'.op \in {"cmp", "sub"} =>
           /\ Holds(2, flags')  <=> Value[acc] < Value[s]
           /\ Holds(4, flags')  <=> acc = s
           /\ Holds(6, flags')  <=> Value[acc] <= Value[s]
           /\ Holds(12, flags') <=> Signed(size, acc) < Signed(size, s)
           /\ Holds(14, flags') <=> Signed(size, acc) <= Signed(size, s)
           /\ \A type \in Condition : type % 2 = 1 =>
                Holds(type, flags') = ~Holds(type - 1, flags')]_vars

-----------------------------------------------------------------------------
(* Counts for which the shift is defined in C and the copies agree: the    *)
(* word and long SHR, and all of SAR, go their own way from the width on.  *)
Regular(op, n) ==
  CASE op \in {"rol", "ror", "rcr"} -> TRUE
    [] op = "rcl" -> n % (size + 1) < Wide
    [] op = "shl" -> n <= Wide
    [] op = "shr" -> n < size \/ (size = Byte /\ n <= Wide)
    [] op = "sar" -> n < size

StepB(op, d, n, f) ==
  CASE op = "rol" -> Rol(size, d, n, f)
    [] op = "ror" -> Ror(size, d, n, f)
    [] op = "rcl" -> Rcl(size, d, n, f, FALSE)
    [] op = "rcr" -> Rcr(size, d, n, f)
    [] op = "shl" -> Shl(size, d, n, f, FALSE)
    [] op = "shr" -> Shr(size, d, n, f, FALSE)
    [] op = "sar" -> Sar(size, d, n, f)

(* A shift or rotation by n is one by 1 followed by one by n - 1: the      *)
(* closed formulas of prim_ops.c, with their reductions modulo the width   *)
(* or the width plus 1, move bits and carry as single steps would.         *)
ShiftsStepwise ==
  [][LET op == ins'.op
         n  == ins'.s
         one  == StepB(op, acc, 1, flags)
         rest == StepB(op, one.r, n - 1, one.f)
     IN  op \in OpB /\ n > 1 /\ Regular(op, n) =>
           acc' = rest.r /\ flags' \ {"OF"} = rest.f \ {"OF"}]_vars

Opposite == [op \in {"rol", "ror", "rcl", "rcr"} |->
  CASE op = "rol" -> "ror" [] op = "ror" -> "rol" [] op = "rcl" -> "rcr" [] op = "rcr" -> "rcl"]

(* A rotation is undone by the opposite one with the same count, the carry *)
(* of RCL and RCR included.                                                *)
RotationUndone ==
  [][LET op == ins'.op
         n  == ins'.s
     IN  op \in DOMAIN Opposite /\ Regular(op, n) /\ Regular(Opposite[op], n) =>
           LET back == StepB(Opposite[op], acc', n, flags')
           IN  back.r = acc /\ (op \in {"rcl", "rcr"} => Carry(back.f) = Carry(flags))]_vars

-----------------------------------------------------------------------------
(* What a step that multiplies or divides may do *)
DivisionStep ==
  LET op == ins'.op
      d  == ins'.s
      s  == Value[d]
      k  == Signed(size, d)
      n  == Value[ext] * 2 ^ size + Value[acc]
      sn == n - (IF Msb(size) \in ext THEN 2 ^ (2 * size) ELSE 0)
  IN  /\ op \in {"div", "idiv"} /\ outcome' # "done" =>
           UNCHANGED <<acc, ext, flags>>
      /\ op = "div" /\ outcome' = "done" =>
           Value[acc'] * s + Value[ext'] = n /\ Value[ext'] < s
      /\ op = "div" /\ outcome' = "fault" => n >= 2 ^ size * s
      /\ op = "idiv" /\ outcome' = "done" =>
           /\ Signed(size, acc') * k + Signed(size, ext') = sn
           /\ Abs(Signed(size, ext')) < Abs(k)
           /\ Signed(size, ext') # 0 => ((Signed(size, ext') < 0) = (sn < 0))
      /\ op = "idiv" /\ outcome' = "fault" =>
           \/ k = 0
           \/ Abs(sn) >= 2 ^ (size - 1) * Abs(k)
      /\ op = "mul" =>
           /\ d # {} => Div(size, acc', ext', d) = Done(size, Value[acc], 0)
           /\ "CF" \in flags' <=> ext' # {}
      /\ op = "imul" =>
           /\ d # {} => Idiv(size, acc', ext', d, TRUE) = Done(size, Value[acc], 0)
           /\ "CF" \in flags' <=> ext' # (IF Msb(size) \in acc' THEN Bits(size) ELSE {})
      /\ op \in {"mul", "imul"} => ("CF" \in flags' <=> "OF" \in flags')

(* A division that completes is exact; one that faults writes nothing, and *)
(* faults only when there is no quotient that fits.  Dividing a product by *)
(* one factor gives the other, never a fault, and CF and OF behind a       *)
(* product say whether the upper half holds more than the extension of the *)
(* sign (mul_byte() .. idiv_long()).                                       *)
DivisionExact == [][DivisionStep]_vars

(* Test src/test/0035_idiv.tst:31 calls it "(i)div with exception": a      *)
(* quotient that does not fit, or a divisor of 0, raises interrupt 0; the  *)
(* host program is not affected.  idiv_long() divides before it looks.     *)
DivisionFaults == outcome # "trap"

-----------------------------------------------------------------------------
(* A program that adds and subtracts packed decimal numbers, with or       *)
(* without carry, and adjusts after each step, has the decimal number in   *)
(* its register and its decimal carry in CF, however long it runs.  AAA    *)
(* and AAS after one-digit arithmetic leave the digit in AL, the decimal   *)
(* carry in CF and AH; AAD puts together what AAM split.                   *)
DecimalExact ==
  [][/\ calc'.kind = "packed" /\ ins'.op \in {"daa", "das"} =>
          /\ acc' = Bcd(calc'.value)
          /\ "CF" \in flags' <=> calc.value \notin 0 .. 99
     /\ calc.digits /\ <<ins'.op, calc.kind>> \in {<<"aaa", "sum">>, <<"aas", "difference">>} =>
          /\ Value[acc'] = calc.value % 10
          /\ Value[ext'] = (Value[ext] + calc.value \div 10) % 256
          /\ "CF" \in flags' <=> calc.value \notin 0 .. 9
     /\ ins'.op = "aam" /\ outcome' = "done" => Aad(acc', ext', ins'.s).lo = acc]_vars
=============================================================================
