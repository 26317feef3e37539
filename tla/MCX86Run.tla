------------------------------ MODULE MCX86Run ------------------------------
(***************************************************************************)
(* Programs and hosts for the run loop.  A program is a sequence of bytes, *)
(* each <<class as an opcode, value as an operand, executable>>; an        *)
(* operand is followed through its value, most often its class is "zero".  *)
(***************************************************************************)
EXTENDS X86RunProps

LOCAL INSTANCE Sequences

Program(p) == [a \in 0 .. (Len(p) - 1) |->
                 [op |-> p[a + 1][1], val |-> p[a + 1][2], x |-> p[a + 1][3]]]
B(op0)    == <<op0, 0, TRUE>>      \* one byte, or an operand of value 0
Arg(v)    == <<"flag", v, TRUE>>   \* an operand byte; as an opcode, harmless
NotX(v)   == <<"flag", v, FALSE>>

(* Every class.  The host skips what an interrupt leads to when it handles  *)
(* it.  INT 8, which the host raises too, returns from the last byte, so    *)
(* that IP wraps; INT 0 jumps to itself; INT -2 jumps with a displacement   *)
(* that cannot be fetched, to where no opcode can be fetched; #UD halts,    *)
(* then jumps to an instruction before the jump that is none of the flag    *)
(* instructions; #GP makes a near jump half of which cannot be fetched, to  *)
(* a loop that sets the time stamp counter back and that no limit ends.     *)
(* The main line ends in a near jump to a flag instruction before it.       *)
AllClasses == Program(<<
  B("seg"), B("data32"), B("zero"), B("zero"),           \*  0
  B("int"), Arg(8), B("gp"), Arg(0), B("ud"),            \*  4
  B("int"), Arg(0), B("int"), Arg(-2),                   \*  9
  B("flag"), B("jmpn"), Arg(-4), Arg(-1),                \* 13
  B("jmp"), Arg(-2),                                     \* 17
  B("jmp"), NotX(0),                                     \* 19
  B("hlt"), B("jmp"), Arg(-3),                           \* 21
  B("jmpn"), Arg(0), NotX(0),                            \* 24
  B("wrmsr"), Arg(0), B("jmp"), Arg(-4),                 \* 27
  B("iret") >>)                                          \* 31
AllIdt == [n \in {8, UD, GP, Ff, 0, -2, -3, -4} |->
            CASE n = 8  -> 31 [] n = 0  -> 17 [] n = -2 -> 19
              [] n = UD -> 21 [] n = GP -> 24 [] OTHER  -> 13]

(* 00 00, a write to the time stamp counter, and "jmp $".                  *)
Data == Program(<< B("wrmsr"), Arg(0), B("zero"), B("zero"), B("jmp"), Arg(-2) >>)
DataIdt == [n \in {UD, GP, Ff, 0, -2, 8} |-> 0]

(* Interrupt numbers: the ones the handlers table has.                     *)
AllVec == DOMAIN AllIdt
DataVec == DOMAIN DataIdt

HostVector == [type |-> "soft", nr |-> 8, restart |-> FALSE, err |-> FALSE]

Quiet   == {{}}
Any     == SUBSET {"stop", "raise"}

Raises    == {{}, {"raise"}}
Stops     == {{}, {"stop"}}
MaxOnly   == {{"MAX_INSTR"}}
Mixed     == {{"MAX_INSTR", "LOOP", "NO_CODE"}, {"TIMEOUT"}}
=============================================================================
