------------------------------- MODULE X86Run -------------------------------
(***************************************************************************)
(* x86emu_run(): the loop that fetches, executes and interrupts, with its  *)
(* limits, the host's callbacks and x86emu_stop() (decode.c).              *)
(*                                                                         *)
(* The processor is in 16 bit real mode.  An instruction is a class: what  *)
(* it does to the loop (fetch operands, jump, raise an interrupt, stop,    *)
(* write the time stamp counter); its data is left to other modules.       *)
(* Selectors, flags and error codes are 0.                                 *)
(***************************************************************************)
EXTENDS Integers

CONSTANTS
  CodeSize,   \* bytes in the code segment; IP wraps behind them
  StackSize,  \* words in the stack segment; SP wraps
  Code,       \* per byte: class as an opcode, value as an operand, executable?
  Vector,     \* interrupt numbers in use
  Idt,        \* start of each handler
  RunFlags,   \* the flag sets x86emu_run() is called with
  MaxInstr,   \* emu->max_instr, 0: no limit
  Timeout,    \* emu->timeout, 0: no limit
  CheckEvery, \* the time is read when the low bits of R_TSC are 0 (65536)
  TscMod,     \* width of R_TSC, a multiple of CheckEvery
  TscWrite,   \* EDX:EAX at a WRMSR to R_TSC
  CodeHook, MemioHook, IntrHook, IdleHook,
              \* what the code, memio and interrupt handlers, and the host
              \* between two runs, may do: subsets of {"stop", "raise"}
  CodeAnswer, \* results of the code handler, {FALSE} when there is none
  IntrAnswer, \* results of the interrupt handler, {FALSE} when there is none
  HostIntr    \* the interrupt the host raises

Addr   == 0 .. (CodeSize - 1)
Prefix == {"seg", "data32"}     \* segment override; operand size (toggles)
Opcode == {"flag", "zero", "gp", "jmp", "jmpn", "int", "ud", "hlt", "iret", "wrmsr"}
Cell   == [op : Prefix \cup Opcode, val : Int, x : BOOLEAN]
Effect == SUBSET {"stop", "raise"}
Reason == {"TIMEOUT", "MAX_INSTR", "NO_EXEC", "NO_CODE", "LOOP"}

None == [type |-> "none"]
Intr == [type : {"soft", "fault"}, nr : Vector, restart : BOOLEAN, err : BOOLEAN]

UD     == 6
GP     == 13
Ff     == -1       \* the byte 0xff that a failed fetch yields, as s8

ASSUME CodeAssumption ==
  /\ CodeSize \in Nat \ {0}
  /\ StackSize \in Nat /\ StackSize > 5     \* the largest frame
  /\ Code \in [Addr -> Cell]
(* Behind an operand size prefix, only classes whose effect on the loop it *)
(* does not change.                                                        *)
ASSUME OperandSizeAssumption ==
  \A a \in Addr : Code[a].op = "data32" =>
    Code[(a + 1) % CodeSize].op \in {"flag", "zero", "gp", "int", "ud", "hlt"}
(* fetch_word() reads both bytes of a near displacement in one access that  *)
(* does not wrap: such a jump does not lie across the end of the segment.  *)
ASSUME NearAssumption ==
  \A a \in Addr : Code[a].op = "jmpn" => a + 2 < CodeSize
ASSUME IntrAssumption ==
  /\ {UD, GP, Ff} \subseteq Vector
  /\ \A a \in Addr : Code[a].val \in Vector
  /\ Idt \in [Vector -> Addr]
  /\ HostIntr \in Intr
ASSUME LimitAssumption ==
  /\ MaxInstr \in Nat /\ Timeout \in Nat
  /\ CheckEvery \in Nat \ {0} /\ TscMod \in Nat \ {0}
  /\ TscMod % CheckEvery = 0 /\ MaxInstr < TscMod    \* both are u64
  /\ TscWrite \in 0 .. (TscMod - 1)
ASSUME HookAssumption ==
  /\ RunFlags \subseteq SUBSET Reason
  /\ CodeHook \cup MemioHook \cup IntrHook \cup IdleHook \subseteq Effect
  /\ CodeAnswer \subseteq BOOLEAN /\ IntrAnswer \subseteq BOOLEAN

VARIABLES
  phase,     \* where x86emu_run() is; "idle": not running
  flags,     \* its argument
  rs,        \* its result
  elapsed,   \* time(NULL) - t0, up to Timeout + 1
  eip, saved,\* R_EIP and x86.saved_eip
  op,        \* op1
  mode,      \* x86.mode
  tsc,       \* R_TSC
  intr,      \* the pending interrupt: intr_type, intr_nr, intr_errcode
  sp, stack, \* R_SP and the words of the stack segment
  \* History, not in the code:
  events,    \* what happened in this iteration
  asked,     \* this run was asked to stop
  counted    \* instructions executed in this run, since R_TSC was last
             \* written in it, up to MaxInstr + 1

cpu  == <<eip, sp, stack>>
vars == <<phase, flags, rs, elapsed, eip, saved, op, mode, tsc, intr, sp, stack,
          events, asked, counted>>

-----------------------------------------------------------------------------
(* Mutant: IP does not wrap. *)
IncFar(a) == a + 1

Inc(a) == (a + 1) % CodeSize

Stopped == "HALTED" \in mode

(* x86emu_intr_raise(): the first interrupt wins. *)
RaiseOn(pending, new) == IF pending = None THEN new ELSE pending

Soft(n)      == [type |-> "soft", nr |-> n, restart |-> FALSE, err |-> FALSE]
FaultUD      == [type |-> "fault", nr |-> UD, restart |-> TRUE, err |-> FALSE]
FaultGP      == [type |-> "fault", nr |-> GP, restart |-> TRUE, err |-> TRUE]

(* What a callback with effect e leaves pending. *)
Hooked(pending, e) == IF "raise" \in e THEN RaiseOn(pending, HostIntr) ELSE pending

StopBit(cond) == IF cond THEN {"HALTED"} ELSE {}

(* The run returns its result; what it writes to a log about the reason is *)
(* X86Log's Noted.                                                         *)
Return(reasons) == phase' = "idle" /\ rs' = rs \cup reasons

-----------------------------------------------------------------------------
(* The host between two runs. *)
Run(f) ==
  /\ phase = "idle"
  /\ phase' = "top" /\ flags' = f /\ rs' = {} /\ elapsed' = 0
  /\ asked' = FALSE /\ counted' = 0
  /\ UNCHANGED <<eip, saved, op, mode, tsc, intr, sp, stack, events>>

(* x86emu_stop(), x86emu_intr_raise() while nothing runs *)
HostCall(e) ==
  /\ phase = "idle"
  /\ mode' = mode \cup StopBit("stop" \in e)
  /\ intr' = Hooked(intr, e)
  /\ UNCHANGED <<phase, flags, rs, elapsed, eip, saved, op, tsc, sp, stack,
                 events, asked, counted>>

(* x86emu_reset() *)
Reset ==
  /\ phase = "idle"
  /\ eip' = 0 /\ saved' = 0 /\ op' = "flag" /\ mode' = {} /\ tsc' = 0
  /\ intr' = None /\ sp' = 0
  /\ UNCHANGED <<phase, flags, rs, elapsed, stack, events, asked, counted>>

(* Seconds pass while it runs. *)
Tick ==
  /\ phase # "idle" /\ elapsed <= Timeout
  /\ elapsed' = elapsed + 1
  /\ UNCHANGED <<phase, flags, rs, eip, saved, op, mode, tsc, intr, sp, stack,
                 events, asked, counted>>

-----------------------------------------------------------------------------
(* Mutant: off by one. *)
LimitPassed == "MAX_INSTR" \in flags /\ MaxInstr # 0 /\ tsc > MaxInstr

(* Mutant: a mask that no counter matches. *)
TimedOutMasked ==
  "TIMEOUT" \in flags /\ Timeout # 0 /\ tsc % CheckEvery = CheckEvery /\ elapsed > Timeout

(* The head of the loop: start of an instruction, the limits, the code     *)
(* handler.  The mode bits, and a stop nobody saw, are forgotten here.     *)
LimitReached ==
  "MAX_INSTR" \in flags /\ MaxInstr # 0 /\ tsc >= MaxInstr

TimedOut ==
  "TIMEOUT" \in flags /\ Timeout # 0 /\ tsc % CheckEvery = 0 /\ elapsed > Timeout

Begin ==
  /\ phase = "top"
  /\ saved' = eip
  /\ UNCHANGED <<flags, elapsed, op, tsc, sp, stack, eip, counted>>

TopLimit ==
  /\ Begin
  /\ mode' = {} /\ events' = {}
  /\ LimitReached \/ TimedOut
  /\ Return(IF LimitReached THEN {"MAX_INSTR"} ELSE {"TIMEOUT"})
  /\ UNCHANGED <<intr, asked>>

(* Without a code handler: e = {}, answer = FALSE. *)
TopHandler(e, answer) ==
  /\ Begin
  /\ ~LimitReached /\ ~TimedOut
  /\ mode' = StopBit("stop" \in e)
  /\ intr' = Hooked(intr, e)
  /\ asked' = (asked \/ "stop" \in e)
  /\ events' = IF "stop" \in e THEN {"host"} ELSE {}
  /\ IF answer \/ "stop" \in e THEN Return({"NO_CODE"})
     ELSE phase' = "fetch" /\ UNCHANGED rs

(* Mutant: the operand size prefix assigns the mode word. *)
ToggleAssign(m, bit) == {bit}

(* mode ^= bit *)
Toggle(m, bit) == (m \cup {bit}) \ (m \cap {bit})

(* One byte of prefix or opcode through fetch_byte(). *)
Fetch(e) ==
  LET c == Code[eip]
  IN  /\ phase = "fetch"
      /\ eip' = Inc(eip)
      /\ intr' = Hooked(intr, e)
      /\ mode' = LET m == mode \cup StopBit(~c.x \/ "stop" \in e)
                 IN  IF c.x /\ c.op = "data32" THEN Toggle(m, "DATA32") ELSE m
      /\ phase' = IF c.x /\ c.op \in Prefix THEN "fetch" ELSE "decode"
      /\ op' = IF c.x THEN c.op ELSE "flag"
      /\ asked' = (asked \/ "stop" \in e)
      /\ events' = events \cup (IF c.x THEN {} ELSE {"opcode"})
                          \cup (IF "stop" \in e THEN {"host"} ELSE {})
      /\ UNCHANGED <<flags, rs, elapsed, saved, tsc, sp, stack, counted>>

-----------------------------------------------------------------------------
(* Between decoding the opcode and executing it *)
NoExec ==
  /\ phase = "decode" /\ Stopped
  /\ eip' = saved
  /\ Return({"NO_EXEC"})
  /\ UNCHANGED <<flags, elapsed, saved, op, mode, tsc, intr, sp, stack,
                 events, asked, counted>>

(* A signed 16 bit displacement from its two bytes, least byte first *)
Near(lo, hi) == (lo % 256) + 256 * hi

(* Where the displacement of an opcode 0xeb or 0xe9 leads from, without    *)
(* regard to whether its bytes may be executed; 0: no such opcode          *)
Ofs32 ==
  CASE op = "jmp"  -> Code[eip].val + 1
    [] op = "jmpn" -> Near(Code[eip].val, Code[Inc(eip)].val) + 2
    [] OTHER       -> 0

(* Mutant: the byte before the jump is not looked at. *)
LoopAssumed ==
  /\ "LOOP" \in flags /\ Ofs32 # 0
  /\ eip + Ofs32 = saved \/ eip + 1 + Ofs32 = saved

(* A short or near jump to its own start, or to a flag instruction right   *)
(* before it; 32 bit arithmetic on a 16 bit IP.                            *)
LoopFound ==
  /\ "LOOP" \in flags /\ Ofs32 # 0
  /\ \/ eip + Ofs32 = saved
     \/ /\ eip + 1 + Ofs32 = saved /\ saved >= 1
        /\ Code[saved - 1].op = "flag"

(* 00 00 without operand size prefix *)
NoCodeFound == "NO_CODE" \in flags /\ mode = {} /\ op = "zero" /\ Code[eip].op = "zero"

(* The checks look ahead with x86emu_read_byte_noperm(), a memio callback. *)
LooksAhead ==
  \/ "LOOP" \in flags /\ op \in {"jmp", "jmpn"}
  \/ "NO_CODE" \in flags /\ mode = {} /\ op = "zero"

Decode(e) ==
  LET found == (IF LoopFound THEN {"LOOP"} ELSE {})
                 \cup (IF NoCodeFound THEN {"NO_CODE"} ELSE {})
  IN  /\ phase = "decode" /\ ~Stopped
      /\ LooksAhead \/ e = {}
      /\ phase' = "exec"
      /\ rs' = rs \cup found
      /\ mode' = mode \cup StopBit(found # {} \/ "stop" \in e)
      /\ intr' = Hooked(intr, e)
      /\ asked' = (asked \/ "stop" \in e)
      /\ events' = events \cup (IF "stop" \in e THEN {"host"} ELSE {})
      /\ UNCHANGED <<flags, elapsed, eip, saved, op, tsc, sp, stack, counted>>

-----------------------------------------------------------------------------
(* x86emu_optab[op1] *)
Operands == {"jmp", "jmpn", "int", "zero", "gp", "wrmsr"}  \* classes with a second byte

(* A byte as fetched; the one behind the opcode                            *)
Fetched(a) == IF Code[a].x THEN Code[a].val ELSE Ff
Operand    == Fetched(eip)

(* An operand byte cannot be fetched; a near jump fetches two.             *)
BadOperand ==
  \/ op \in Operands /\ ~Code[eip].x
  \/ op = "jmpn" /\ ~Code[Inc(eip)].x

(* What the class itself raises, after whatever a callback raised. *)
OwnIntr(pending) ==
  CASE op = "int" -> RaiseOn(pending, Soft(Operand))
    [] op = "ud"  -> RaiseOn(pending, FaultUD)
    [] op = "gp" /\ Code[eip].x -> RaiseOn(pending, FaultGP)
    [] op = "wrmsr" /\ ~Code[eip].x -> RaiseOn(pending, FaultUD)
    [] OTHER      -> pending

Pop(n) == (sp + n) % StackSize

NextIp ==
  CASE op = "jmp"      -> (eip + 1 + Operand) % CodeSize
    [] op = "jmpn"     -> (eip + 2 + Near(Operand, Fetched(Inc(eip)))) % CodeSize
    [] op = "iret"     -> stack[sp]
    [] op \in Operands \ {"jmp", "jmpn"} -> Inc(eip)
    [] OTHER           -> eip

(* The program writes R_TSC, the MSR 0x10. *)
WritesTsc == op = "wrmsr" /\ ~BadOperand

(* A callback can act where a class fetches an operand or accesses memory. *)
Exec(e) ==
  LET stop == op = "hlt" \/ BadOperand \/ "stop" \in e
  IN  /\ phase = "exec"
      /\ op \in Operands \cup {"iret"} \/ e = {}
      /\ phase' = "intr"
      /\ intr' = OwnIntr(Hooked(intr, e))
      /\ eip' = NextIp
      /\ sp' = IF op = "iret" THEN Pop(3) ELSE sp
      /\ mode' = mode \cup StopBit(stop)
      /\ tsc' = IF WritesTsc THEN TscWrite ELSE tsc
      /\ asked' = (asked \/ op = "hlt" \/ "stop" \in e)
      /\ events' = events \cup (IF op = "hlt" THEN {"hlt"} ELSE {})
                          \cup (IF BadOperand THEN {"operand"} ELSE {})
                          \cup (IF "stop" \in e THEN {"host"} ELSE {})
      /\ counted' = IF WritesTsc THEN 0
                     ELSE IF counted <= MaxInstr THEN counted + 1 ELSE counted
      /\ UNCHANGED <<flags, rs, elapsed, saved, op, stack>>

-----------------------------------------------------------------------------
(* handle_interrupt() and generate_int() *)
NoIntr ==
  /\ phase = "intr" /\ intr = None
  /\ phase' = "tail"
  /\ UNCHANGED <<flags, rs, elapsed, eip, saved, op, mode, tsc, intr, sp, stack,
                 events, asked, counted>>

(* Mutant: faults return behind the instruction. *)
ReturnIpNext == eip

(* Faults return to the start of the instruction. *)
ReturnIp == IF intr.restart THEN saved ELSE eip

(* FLAGS, CS, IP, then the two words of the error code, each at sp - k     *)
FrameSize == IF intr.err THEN 5 ELSE 3
Pushed(k) == IF k = 3 THEN ReturnIp ELSE 0

Deliver(e, handled) ==
  /\ phase = "intr" /\ intr # None
  /\ phase' = "tail"
  /\ intr' = None
  /\ IF handled THEN UNCHANGED cpu
     ELSE /\ eip' = Idt[intr.nr]
          /\ sp' = (sp - FrameSize) % StackSize
          /\ stack' = [w \in 0 .. (StackSize - 1) |->
               LET k == (sp - w) % StackSize
               IN  IF k \in 1 .. FrameSize THEN Pushed(k) ELSE stack[w]]
  /\ mode' = mode \cup StopBit("stop" \in e)
  /\ asked' = (asked \/ "stop" \in e)
  /\ events' = events \cup {"intr"} \cup (IF "stop" \in e THEN {"host"} ELSE {})
  /\ UNCHANGED <<flags, rs, elapsed, saved, op, tsc, counted>>

(* The end of the loop *)
LoopEnd ==
  /\ phase = "tail"
  /\ tsc' = (tsc + 1) % TscMod
  /\ phase' = IF Stopped THEN "idle" ELSE "top"
  /\ UNCHANGED <<flags, rs, elapsed, eip, saved, op, mode, intr, sp, stack,
                 events, asked, counted>>

-----------------------------------------------------------------------------
Init ==
  /\ phase = "idle" /\ flags = {} /\ rs = {} /\ elapsed = 0
  /\ eip = 0 /\ saved = 0 /\ op = "flag" /\ mode = {} /\ tsc = 0 /\ intr = None
  /\ sp = 0 /\ stack = [w \in 0 .. (StackSize - 1) |-> 0]
  /\ events = {} /\ asked = FALSE /\ counted = 0

Step ==
  \/ TopLimit
  \/ \E e \in CodeHook, answer \in CodeAnswer : TopHandler(e, answer)
  \/ \E e \in MemioHook : Fetch(e)
  \/ NoExec
  \/ \E e \in MemioHook \cup {{}} : Decode(e)
  \/ \E e \in MemioHook \cup {{}} : Exec(e)
  \/ NoIntr
  \/ \E e \in IntrHook, m \in MemioHook, handled \in IntrAnswer :
       Deliver(IF handled THEN e ELSE e \cup m, handled)
  \/ LoopEnd

Host == (\E f \in RunFlags : Run(f)) \/ (\E e \in IdleHook : HostCall(e)) \/ Reset

Next == Step \/ Host \/ Tick

Spec == Init /\ [][Next]_vars

(* The emulator is one thread of the host and is scheduled; time passes.   *)
FairSpec == Spec /\ WF_vars(Step) /\ WF_vars(Tick)
=============================================================================
