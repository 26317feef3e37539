------------------------------- MODULE X86Cpu -------------------------------
(***************************************************************************)
(* What x86emu_run() promises of the processor: whole instructions, each   *)
(* followed by the delivery of the interrupt that is pending by then, and  *)
(* nothing in between.  Runs, limits, stops, loop detection, prefixes read *)
(* byte by byte and abandoned fetches do not appear: a run may end         *)
(* anywhere and the next one continues as if it had not.                   *)
(***************************************************************************)
EXTENDS Integers

CONSTANTS CodeSize, StackSize, Code, Idt, TscMod, TscWrite, HostIntr, None

VARIABLES
  stage,  \* "instr": before an instruction; "intr": behind it
  at,     \* the start of the instruction just executed, in stage "intr"
  eip, sp, stack, tsc, intr

vars == <<stage, at, eip, sp, stack, tsc, intr>>

Plus(a, n) == (a + n) % CodeSize
Byte(a) == IF Code[a].x THEN Code[a].val ELSE -1
IsPrefix(a) == Code[a].x /\ Code[a].op \in {"seg", "data32"}

(* The opcode is the first byte behind the prefixes. *)
OpcodeAt(a) ==
  /\ Code[a].x /\ ~IsPrefix(a)
  /\ \E k \in 0 .. (CodeSize - 1) :
       a = Plus(eip, k) /\ \A j \in 0 .. (k - 1) : IsPrefix(Plus(eip, j))

Keep(new) == IF intr = None THEN new ELSE intr

(* An interrupt is raised; only the first one counts. *)
Raise == intr' = Keep(HostIntr) /\ UNCHANGED <<stage, at, eip, sp, stack, tsc>>

-----------------------------------------------------------------------------
(* The class at o, with its operand at o + 1, does its own thing.          *)
Own(o) ==
  LET c == Code[o].op
      good == Code[Plus(o, 1)].x
  IN  CASE c = "int" ->
             [type |-> "soft", nr |-> Byte(Plus(o, 1)), restart |-> FALSE, err |-> FALSE]
        [] c = "ud" \/ (c = "wrmsr" /\ ~good) ->
             [type |-> "fault", nr |-> 6, restart |-> TRUE, err |-> FALSE]
        [] c = "gp" /\ good ->
             [type |-> "fault", nr |-> 13, restart |-> TRUE, err |-> TRUE]
        [] OTHER -> None

Following(o) ==
  LET c == Code[o].op
  IN  CASE c = "jmp"  -> Plus(o, 2 + Byte(Plus(o, 1)))
        [] c = "jmpn" -> Plus(o, 3 + (Byte(Plus(o, 1)) % 256) + 256 * Byte(Plus(o, 2)))
        [] c = "iret" -> stack[sp]
        [] c \in {"int", "zero", "gp", "wrmsr"} -> Plus(o, 2)
        [] OTHER -> Plus(o, 1)

(* During the instruction the host may raise an interrupt of its own: it   *)
(* takes the place of the instruction's.                                   *)
Instruction(o) ==
  /\ stage = "instr" /\ stage' = "intr"
  /\ OpcodeAt(o)
  /\ at' = eip /\ eip' = Following(o)
  /\ sp' = IF Code[o].op = "iret" THEN (sp + 3) % StackSize ELSE sp
  /\ tsc' = IF Code[o].op = "wrmsr" /\ Code[Plus(o, 1)].x THEN TscWrite ELSE tsc
  /\ intr' = Keep(Own(o)) \/ intr' = Keep(HostIntr)
  /\ UNCHANGED stack

(* Faults return to the instruction, other interrupts behind it.           *)
Vectored ==
  LET resume == IF intr.restart THEN at ELSE eip
      frame  == IF intr.err THEN <<0, 0, resume, 0, 0>> ELSE <<0, 0, resume>>
      n      == IF intr.err THEN 5 ELSE 3
  IN  /\ eip' = Idt[intr.nr]
      /\ sp' = (sp - n) % StackSize
      /\ stack' = [w \in 0 .. (StackSize - 1) |->
           IF \E k \in 1 .. n : w = (sp - k) % StackSize
           THEN frame[CHOOSE k \in 1 .. n : w = (sp - k) % StackSize]
           ELSE stack[w]]

Completion ==
  /\ stage = "intr" /\ stage' = "instr"
  /\ tsc' = (tsc + 1) % TscMod
  /\ at' = 0 /\ intr' = None
  /\ \/ UNCHANGED <<eip, sp, stack>>        \* none, or handled by the host
     \/ intr # None /\ Vectored

Reset ==
  /\ stage = "instr"
  /\ eip' = 0 /\ sp' = 0 /\ tsc' = 0 /\ intr' = None
  /\ UNCHANGED <<stage, at, stack>>

Init ==
  /\ stage = "instr" /\ at = 0 /\ eip = 0 /\ sp = 0 /\ tsc = 0 /\ intr = None
  /\ stack = [w \in 0 .. (StackSize - 1) |-> 0]

Next == (\E o \in DOMAIN Code : Instruction(o)) \/ Completion \/ Raise \/ Reset

Spec == Init /\ [][Next]_vars
=============================================================================
