---------------------------- MODULE X86RunProps -----------------------------
(***************************************************************************)
(* Properties of the run loop (x86emu_run(), decode.c).                    *)
(***************************************************************************)
EXTENDS X86Run

-----------------------------------------------------------------------------
(* Types of the loop's variables. *)
TypeOK ==
  /\ phase \in {"idle", "top", "fetch", "decode", "exec", "intr", "tail"}
  /\ flags \in RunFlags \cup {{}}
  /\ rs \subseteq Reason
  /\ elapsed \in 0 .. (Timeout + 1)
  /\ eip \in Addr /\ saved \in Addr
  /\ op \in Opcode \cup {"seg", "data32"}
  /\ mode \subseteq {"HALTED", "DATA32"}
  /\ tsc \in 0 .. (TscMod - 1)
  /\ intr \in Intr \cup {None}
  /\ sp \in 0 .. (StackSize - 1)
  /\ stack \in [0 .. (StackSize - 1) -> Addr]
  /\ events \subseteq {"hlt", "host", "opcode", "operand", "intr"}
  /\ asked \in BOOLEAN
  /\ counted \in 0 .. (MaxInstr + 1)

(* HLT, or x86emu_stop() from any callback, is never overtaken: the mode   *)
(* word that carries the request is also changed by prefixes and assigned  *)
(* at the head of the loop, and no further instruction begins.             *)
StopHonoured == asked => phase # "top" /\ (phase # "idle" => Stopped)

(* A program that is said to loop does: it is back at the jump, or at the  *)
(* flag instruction in front of it, unless an interrupt or an operand that *)
(* could not be fetched took it elsewhere.                                 *)
LoopIsLoop ==
  phase = "tail" /\ "LOOP" \in rs /\ events \cap {"intr", "operand"} = {} =>
    \/ eip = saved
    \/ eip + 1 = saved /\ Code[eip].op = "flag"

(* max_instr (README.md:99 "max. instructions to emulate") is compared     *)
(* with R_TSC: a run executes no more instructions than that, unless the   *)
(* program writes R_TSC, and then no more than that behind each write.     *)
LimitRespected ==
  "MAX_INSTR" \in flags /\ MaxInstr # 0 => counted <= MaxInstr

(* The loop implements the processor of X86Cpu.  IP counts as moved once   *)
(* the instruction is executed, the instruction as complete once its       *)
(* interrupt is handled: a run that returns early left nothing half done.  *)
Decoding == phase \in {"fetch", "decode", "exec"}

Cpu == INSTANCE X86Cpu WITH
  stage <- IF phase = "intr" THEN "intr" ELSE "instr",
  at    <- IF phase = "intr" THEN saved ELSE 0,
  eip   <- IF Decoding THEN saved ELSE eip,
  tsc   <- IF phase = "tail" THEN (tsc + 1) % TscMod ELSE tsc

ImplementsCpu == Cpu!Spec

(* README.md:98-99: a run with a limit returns, on two conditions on the   *)
(* program.  Its segment has a byte that is no prefix: in one full of      *)
(* prefixes the loop at decode.c:137 never ends and no limit is looked at. *)
(* And the run does not write R_TSC again and again: both limits look at   *)
(* that counter (decode.c:110 and 119), and a program that keeps setting   *)
(* it back by WRMSR meets neither, however long it runs.                   *)
Limited ==
  \/ "MAX_INSTR" \in flags /\ MaxInstr # 0
  \/ "TIMEOUT" \in flags /\ Timeout # 0
JustWritten == phase = "intr" /\ counted = 0
HasOpcode   == \E a \in Addr : ~(Code[a].x /\ Code[a].op \in Prefix)

Returns ==
  HasOpcode =>
    []((phase # "idle" /\ Limited) => <>(phase = "idle") \/ []<>JustWritten)

-----------------------------------------------------------------------------
(* README.md:324 "The interrupt is handled before the next instruction".   *)
HandledBeforeNext == phase = "exec" => intr = None
=============================================================================
