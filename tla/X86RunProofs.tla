---------------------------- MODULE X86RunProofs ----------------------------
(***************************************************************************)
(* Theorems about the run loop.                                            *)
(***************************************************************************)
EXTENDS X86RunProps, TLAPS

-----------------------------------------------------------------------------
(* Stopping.  No action between the head and the end of the loop takes the *)
(* request out of the mode word, and the head, which clears the word, is   *)
(* not reached while a request is pending: the property is inductive.      *)
LEMMA StopKept ==
  ASSUME StopHonoured, Step
  PROVE  StopHonoured'
<1>1. CASE TopLimit
  BY <1>1 DEF TopLimit, Begin, Return, StopHonoured
<1>2. ASSUME NEW e \in CodeHook, NEW answer \in CodeAnswer, TopHandler(e, answer)
      PROVE  StopHonoured'
  BY <1>2 DEF TopHandler, Begin, Return, StopHonoured
<1>3. ASSUME NEW e \in MemioHook, Fetch(e)
      PROVE  StopHonoured'
  BY <1>3 DEF Fetch, Toggle, StopBit, StopHonoured, Stopped
<1>4. CASE NoExec
  BY <1>4 DEF NoExec, Return, StopHonoured
<1>5. ASSUME NEW e, Decode(e)
      PROVE  StopHonoured'
  BY <1>5 DEF Decode, StopBit, StopHonoured, Stopped
<1>6. ASSUME NEW e, Exec(e)
      PROVE  StopHonoured'
  BY <1>6 DEF Exec, StopBit, StopHonoured, Stopped
<1>7. CASE NoIntr
  BY <1>7 DEF NoIntr, StopHonoured, Stopped
<1>8. ASSUME NEW e, NEW handled, Deliver(e, handled)
      PROVE  StopHonoured'
  BY <1>8 DEF Deliver, StopBit, StopHonoured, Stopped
<1>9. CASE LoopEnd
  BY <1>9 DEF LoopEnd, StopHonoured, Stopped
<1> QED
  BY <1>1, <1>2, <1>3, <1>4, <1>5, <1>6, <1>7, <1>8, <1>9 DEF Step

(* For every program, set of callbacks and sequence of runs: after HLT or  *)
(* x86emu_stop() no further instruction of the run begins.                 *)
THEOREM StopIsFinal == Spec => []StopHonoured
<1>1. Init => StopHonoured
  BY DEF Init, StopHonoured
<1>2. StopHonoured /\ [Next]_vars => StopHonoured'
  <2> SUFFICES ASSUME StopHonoured, [Next]_vars
               PROVE  StopHonoured'
    OBVIOUS
  <2>1. CASE Step
    BY <2>1, StopKept
  <2>2. CASE Host
    BY <2>2 DEF Host, Run, HostCall, Reset, StopHonoured, Stopped
  <2>3. CASE Tick
    BY <2>3 DEF Tick, StopHonoured, Stopped
  <2>4. CASE UNCHANGED vars
    BY <2>4 DEF vars, StopHonoured, Stopped
  <2> QED
    BY <2>1, <2>2, <2>3, <2>4 DEF Next
<1> QED
  BY <1>1, <1>2, PTL DEF Spec
-----------------------------------------------------------------------------
(* Type correctness. *)

(* Instruction pointers wrap in the code segment. *)
LEMMA IpType ==
  ASSUME NEW i \in Int
  PROVE  i % CodeSize \in Addr
BY CodeAssumption DEF Addr

LEMMA IncType ==
  ASSUME NEW a \in Addr
  PROVE  Inc(a) \in Addr /\ a \in Int
BY CodeAssumption DEF Addr, Inc

LEMMA OperandType ==
  ASSUME TypeOK
  PROVE  /\ \A a \in Addr : Fetched(a) \in Vector /\ Fetched(a) \in Int
         /\ Operand \in Vector /\ Operand \in Int
<1>1. \A a \in Addr : Fetched(a) \in Vector /\ Fetched(a) \in Int
  BY CodeAssumption, IntrAssumption DEF Fetched, Ff, Cell
<1> QED
  BY <1>1 DEF TypeOK, Operand

(* A displacement of two bytes is a number. *)
LEMMA NearType ==
  ASSUME NEW lo \in Int, NEW hi \in Int
  PROVE  Near(lo, hi) \in Int
BY DEF Near

(* Whatever is raised is an interrupt, or nothing. *)
LEMMA IntrType ==
  ASSUME TypeOK, NEW e
  PROVE  /\ Hooked(intr, e) \in Intr \cup {None}
         /\ OwnIntr(Hooked(intr, e)) \in Intr \cup {None}
<1>1. Hooked(intr, e) \in Intr \cup {None}
  BY IntrAssumption DEF TypeOK, Hooked, RaiseOn
<1>2. {Soft(Operand), FaultUD, FaultGP} \subseteq Intr
  BY OperandType, IntrAssumption DEF Soft, FaultUD, FaultGP, Intr
<1> HIDE DEF Intr, None
<1> QED
  BY <1>1, <1>2 DEF OwnIntr, RaiseOn

LEMMA StepType ==
  ASSUME TypeOK, Step
  PROVE  TypeOK'
<1> USE DEF TypeOK
<1>1. CASE TopLimit
  BY <1>1 DEF TopLimit, Begin, Return, Reason
<1>2. ASSUME NEW e \in CodeHook, NEW answer \in CodeAnswer, TopHandler(e, answer)
      PROVE  TypeOK'
  <2>1. intr' \in Intr \cup {None}
    BY <1>2, IntrType DEF TopHandler
  <2> QED
    BY <1>2, <2>1 DEF TopHandler, Begin, Return, Reason, StopBit
<1>3. ASSUME NEW e \in MemioHook, Fetch(e)
      PROVE  TypeOK'
  <2>1. intr' \in Intr \cup {None}
    BY <1>3, IntrType DEF Fetch
  <2>2. eip' \in Addr
    BY <1>3, IpType DEF Fetch, Inc, Addr
  <2>3. op' \in Opcode \cup {"seg", "data32"}
    BY <1>3, CodeAssumption DEF Fetch, Cell, Prefix, Opcode
  <2>4. mode' \subseteq {"HALTED", "DATA32"}
    BY <1>3 DEF Fetch, Toggle, StopBit
  <2>5. asked' \in BOOLEAN
    BY <1>3 DEF Fetch
  <2>6. events' \subseteq {"hlt", "host", "opcode", "operand", "intr"}
    BY <1>3 DEF Fetch
  <2> QED
    BY <1>3, <2>1, <2>2, <2>3, <2>4, <2>5, <2>6 DEF Fetch
<1>4. CASE NoExec
  BY <1>4 DEF NoExec, Return, Reason
<1>5. ASSUME NEW e \in MemioHook \cup {{}}, Decode(e)
      PROVE  TypeOK'
  <2>1. intr' \in Intr \cup {None}
    BY <1>5, IntrType DEF Decode
  <2> QED
    BY <1>5, <2>1 DEF Decode, Reason, StopBit
<1>6. ASSUME NEW e \in MemioHook \cup {{}}, Exec(e)
      PROVE  TypeOK'
  <2>1. intr' \in Intr \cup {None}
    BY <1>6, IntrType DEF Exec
  <2>2. eip' \in Addr
    <3>1. Inc(eip) \in Addr /\ eip \in Int
      BY IncType
    <3>2. Near(Operand, Fetched(Inc(eip))) \in Int
      BY <3>1, OperandType, NearType
    <3>3. (eip + 2 + Near(Operand, Fetched(Inc(eip)))) % CodeSize \in Addr
      BY <3>1, <3>2, IpType
    <3>4. (eip + 1 + Operand) % CodeSize \in Addr
      BY <3>1, OperandType, IpType
    <3> QED
      BY <1>6, <3>1, <3>3, <3>4 DEF Exec, NextIp
  <2>3. sp' \in 0 .. (StackSize - 1)
    BY <1>6, CodeAssumption DEF Exec, Pop
  <2>4. tsc' \in 0 .. (TscMod - 1)
    BY <1>6, LimitAssumption DEF Exec
  <2>5. counted' \in 0 .. (MaxInstr + 1)
    BY <1>6, LimitAssumption DEF Exec
  <2>6. mode' \subseteq {"HALTED", "DATA32"}
    BY <1>6 DEF Exec, StopBit
  <2>7. asked' \in BOOLEAN
    BY <1>6 DEF Exec
  <2>8. events' \subseteq {"hlt", "host", "opcode", "operand", "intr"}
    BY <1>6 DEF Exec
  <2> QED
    BY <1>6, <2>1, <2>2, <2>3, <2>4, <2>5, <2>6, <2>7, <2>8 DEF Exec
<1>7. CASE NoIntr
  BY <1>7 DEF NoIntr
<1>8. ASSUME NEW e, NEW handled \in BOOLEAN, Deliver(e, handled)
      PROVE  TypeOK'
  <2>1. ReturnIp \in Addr /\ 0 \in Addr
    BY CodeAssumption DEF ReturnIp, Addr
  <2>2. eip' \in Addr
    BY <1>8, IntrAssumption DEF Deliver, Intr, cpu
  <2>3. sp' \in 0 .. (StackSize - 1)
    BY <1>8, CodeAssumption DEF Deliver, FrameSize, cpu
  <2>4. stack' \in [0 .. (StackSize - 1) -> Addr]
    <3>1. CASE handled
      BY <1>8, <3>1 DEF Deliver, cpu
    <3>2. CASE ~handled
      BY <1>8, <2>1, <3>2 DEF Deliver, Pushed
    <3> QED
      BY <3>1, <3>2
  <2>5. mode' \subseteq {"HALTED", "DATA32"} /\ asked' \in BOOLEAN
        /\ events' \subseteq {"hlt", "host", "opcode", "operand", "intr"}
    BY <1>8 DEF Deliver, StopBit
  <2> QED
    BY <1>8, <2>2, <2>3, <2>4, <2>5 DEF Deliver
<1>9. CASE LoopEnd
  BY <1>9, LimitAssumption DEF LoopEnd
<1> QED
  BY <1>1, <1>2, <1>3, <1>4, <1>5, <1>6, <1>7, <1>8, <1>9, HookAssumption DEF Step

LEMMA HostType ==
  ASSUME TypeOK, Host
  PROVE  TypeOK'
<1> USE DEF TypeOK
<1>1. ASSUME NEW f \in RunFlags, Run(f)
      PROVE  TypeOK'
  <2>1. flags' \in RunFlags \cup {{}} /\ rs' \subseteq Reason
    BY <1>1 DEF Run
  <2>2. /\ elapsed' \in 0 .. (Timeout + 1)
        /\ counted' \in 0 .. (MaxInstr + 1)
    BY <1>1, LimitAssumption DEF Run
  <2>3. /\ eip' \in Addr /\ saved' \in Addr /\ op' \in Opcode \cup {"seg", "data32"}
        /\ mode' \subseteq {"HALTED", "DATA32"} /\ tsc' \in 0 .. (TscMod - 1)
        /\ intr' \in Intr \cup {None}
        /\ sp' \in 0 .. (StackSize - 1) /\ stack' \in [0 .. (StackSize - 1) -> Addr]
        /\ events' \subseteq {"hlt", "host", "opcode", "operand", "intr"}
    BY <1>1 DEF Run
  <2>4. asked' \in BOOLEAN
    BY <1>1 DEF Run
  <2>5. phase' \in {"idle", "top", "fetch", "decode", "exec", "intr", "tail"}
    BY <1>1 DEF Run
  <2> QED
    BY <2>1, <2>2, <2>3, <2>4, <2>5
<1>2. ASSUME NEW e \in IdleHook, HostCall(e)
      PROVE  TypeOK'
  <2>1. intr' \in Intr \cup {None}
    BY <1>2, IntrType DEF HostCall
  <2> QED
    BY <1>2, <2>1 DEF HostCall, StopBit
<1>3. CASE Reset
  BY <1>3, CodeAssumption, LimitAssumption DEF Reset, Addr, Opcode
<1> QED
  BY <1>1, <1>2, <1>3 DEF Host

(* Every variable of the loop keeps to its range, whatever the program,    *)
(* the callbacks and the host do.                                          *)
THEOREM RunTypeCorrect == Spec => []TypeOK
<1>1. Init => TypeOK
  <2> SUFFICES ASSUME Init PROVE TypeOK
    OBVIOUS
  <2>1. eip \in Addr /\ saved \in Addr /\ 0 \in Addr
    BY CodeAssumption DEF Init, Addr
  <2>2. /\ elapsed \in 0 .. (Timeout + 1) /\ tsc \in 0 .. (TscMod - 1)
        /\ sp \in 0 .. (StackSize - 1) /\ counted \in 0 .. (MaxInstr + 1)
    BY CodeAssumption, LimitAssumption DEF Init
  <2>3. stack \in [0 .. (StackSize - 1) -> Addr]
    BY <2>1 DEF Init
  <2>4. flags \in RunFlags \cup {{}} /\ rs \subseteq Reason
    BY DEF Init
  <2>5. op \in Opcode /\ mode \subseteq {"HALTED", "DATA32"} /\ asked \in BOOLEAN
        /\ events \subseteq {"hlt", "host", "opcode", "operand", "intr"}
    BY DEF Init, Opcode
  <2> QED
    BY <2>1, <2>2, <2>3, <2>4, <2>5 DEF Init, TypeOK
<1>2. TypeOK /\ [Next]_vars => TypeOK'
  <2> SUFFICES ASSUME TypeOK, [Next]_vars
               PROVE  TypeOK'
    OBVIOUS
  <2>1. CASE Tick
    BY <2>1, LimitAssumption DEF Tick, TypeOK
  <2>2. CASE UNCHANGED vars
    BY <2>2 DEF vars, TypeOK
  <2> QED
    BY <2>1, <2>2, StepType, HostType DEF Next
<1> QED
  BY <1>1, <1>2, PTL DEF Spec

-----------------------------------------------------------------------------
(* The instruction limit.  It is compared with R_TSC, which counts         *)
(* instructions between two writes of the program: what was executed since *)
(* then never exceeds what the counter says.                               *)
Counting == "MAX_INSTR" \in flags /\ MaxInstr # 0

CountInv ==
  Counting =>
    /\ counted <= MaxInstr
    /\ phase = "top" => counted <= tsc
    /\ phase \in {"fetch", "decode", "exec"} => counted <= tsc /\ tsc < MaxInstr
    /\ phase \in {"intr", "tail"} =>
         counted = 0 \/ (counted <= tsc + 1 /\ tsc < MaxInstr)

LEMMA CountKept ==
  ASSUME TypeOK, CountInv, Step
  PROVE  CountInv'
<1> USE DEF CountInv, Counting
<1>1. CASE TopLimit
  BY <1>1 DEF TopLimit, Begin, Return
<1>2. ASSUME NEW e \in CodeHook, NEW answer \in CodeAnswer, TopHandler(e, answer)
      PROVE  CountInv'
  BY <1>2, LimitAssumption DEF TopHandler, Begin, Return, LimitReached, TypeOK
<1>3. ASSUME NEW e \in MemioHook, Fetch(e)
      PROVE  CountInv'
  BY <1>3 DEF Fetch
<1>4. CASE NoExec
  BY <1>4 DEF NoExec, Return
<1>5. ASSUME NEW e, Decode(e)
      PROVE  CountInv'
  BY <1>5 DEF Decode
<1>6. ASSUME NEW e, Exec(e)
      PROVE  CountInv'
  BY <1>6, LimitAssumption DEF Exec, TypeOK
<1>7. CASE NoIntr
  BY <1>7 DEF NoIntr
<1>8. ASSUME NEW e, NEW handled, Deliver(e, handled)
      PROVE  CountInv'
  BY <1>8 DEF Deliver
<1>9. CASE LoopEnd
  <2>1. Counting /\ counted # 0 => tsc' = tsc + 1
    BY <1>9, LimitAssumption DEF LoopEnd, TypeOK
  <2>2. tsc' >= 0
    BY <1>9, LimitAssumption DEF LoopEnd, TypeOK
  <2> QED
    BY <1>9, <2>1, <2>2, LimitAssumption DEF LoopEnd, TypeOK
<1> QED
  BY <1>1, <1>2, <1>3, <1>4, <1>5, <1>6, <1>7, <1>8, <1>9 DEF Step

(* No run with X86EMU_RUN_MAX_INSTR executes more than max_instr           *)
(* instructions without a write to the time stamp counter in between.      *)
THEOREM LimitHolds == Spec => []LimitRespected
<1>1. Init => CountInv
  BY DEF Init, CountInv, Counting
<1>2. TypeOK /\ CountInv /\ [Next]_vars => CountInv'
  <2> SUFFICES ASSUME TypeOK, CountInv, [Next]_vars
               PROVE  CountInv'
    OBVIOUS
  <2>1. CASE Step
    BY <2>1, CountKept
  <2>2. CASE Host
    BY <2>2, LimitAssumption DEF Host, Run, HostCall, Reset, CountInv, Counting, TypeOK
  <2>3. CASE Tick
    BY <2>3 DEF Tick, CountInv, Counting
  <2>4. CASE UNCHANGED vars
    BY <2>4 DEF vars, CountInv, Counting
  <2> QED
    BY <2>1, <2>2, <2>3, <2>4 DEF Next
<1>3. CountInv => LimitRespected
  BY DEF CountInv, Counting, LimitRespected
<1> QED
  BY <1>1, <1>2, <1>3, RunTypeCorrect, PTL DEF Spec

-----------------------------------------------------------------------------
(* Loop detection.  LOOP is set while the jump is decoded, with EIP at its *)
(* displacement, and stops the run; what it has found holds until the jump *)
(* is executed, and the jump goes where the check has said.                *)
LoopInv ==
  /\ phase \in {"top", "fetch", "decode"} => "LOOP" \notin rs
  /\ phase \in {"exec", "intr", "tail"} /\ "LOOP" \in rs => Stopped
  /\ phase = "exec" /\ "LOOP" \in rs => LoopFound
  /\ phase \in {"intr", "tail"} /\ "LOOP" \in rs /\ events \cap {"intr", "operand"} = {} =>
       \/ eip = saved
       \/ eip + 1 = saved /\ Code[eip].op = "flag"

(* The jump that was found                                                 *)
LEMMA JumpTaken ==
  ASSUME TypeOK, LoopFound, ~BadOperand
  PROVE  \/ NextIp = saved
         \/ NextIp + 1 = saved /\ Code[NextIp].op = "flag"
<1>0. eip \in Addr /\ saved \in Addr /\ Inc(eip) \in Addr /\ eip \in Int
  BY IncType DEF TypeOK
<1> DEFINE near == Near(Code[eip].val, Code[Inc(eip)].val)
<1>a. Code[eip].val \in Int /\ near \in Int
  BY <1>0, CodeAssumption, NearType DEF Cell
<1>b. \/ op = "jmp" /\ Ofs32 = Code[eip].val + 1 /\ NextIp = (eip + 1 + Code[eip].val) % CodeSize
      \/ op = "jmpn" /\ Ofs32 = near + 2 /\ NextIp = (eip + 2 + near) % CodeSize
  <2>1. op \in {"jmp", "jmpn"}
    BY DEF LoopFound, Ofs32
  <2>2. Code[eip].x /\ (op = "jmpn" => Code[Inc(eip)].x)
    BY <2>1 DEF BadOperand, Operands
  <2> QED
    BY <2>1, <2>2 DEF NextIp, Ofs32, Operand, Fetched
<1>1. eip \in Addr /\ saved \in Addr /\ Ofs32 \in Int
  BY <1>0, <1>a, <1>b
<1>2. NextIp = (eip + Ofs32) % CodeSize
  <2> HIDE DEF near
  <2>1. eip + 1 + Code[eip].val = eip + (Code[eip].val + 1) /\ eip + 2 + near = eip + (near + 2)
    BY <1>0, <1>a
  <2> QED BY <1>b, <2>1, Zenon
<1>3. \A a \in Addr : a % CodeSize = a
  BY CodeAssumption DEF Addr
<1>4. CASE eip + Ofs32 = saved
  BY <1>1, <1>2, <1>3, <1>4
<1>5. CASE eip + 1 + Ofs32 = saved /\ saved >= 1 /\ Code[saved - 1].op = "flag"
  <2>1. eip + Ofs32 = saved - 1 /\ saved - 1 \in Addr
    BY <1>1, <1>5, CodeAssumption DEF Addr
  <2> QED BY <1>1, <1>2, <1>3, <1>5, <2>1 DEF Addr
<1> QED
  BY <1>4, <1>5 DEF LoopFound

LEMMA LoopKept ==
  ASSUME TypeOK, LoopInv, Step
  PROVE  LoopInv'
<1> USE DEF LoopInv
<1>1. CASE TopLimit
  BY <1>1 DEF TopLimit, Begin, Return
<1>2. ASSUME NEW e \in CodeHook, NEW answer \in CodeAnswer, TopHandler(e, answer)
      PROVE  LoopInv'
  BY <1>2 DEF TopHandler, Begin, Return
<1>3. ASSUME NEW e \in MemioHook, Fetch(e)
      PROVE  LoopInv'
  BY <1>3 DEF Fetch
<1>4. CASE NoExec
  BY <1>4 DEF NoExec, Return
<1>5. ASSUME NEW e, Decode(e)
      PROVE  LoopInv'
  <2>1. "LOOP" \in rs' => LoopFound
    BY <1>5 DEF Decode
  <2>2. LoopFound => LoopFound' /\ Stopped'
    BY <1>5 DEF Decode, LoopFound, Ofs32, StopBit, Stopped
  <2> QED
    BY <1>5, <2>1, <2>2 DEF Decode
<1>6. ASSUME NEW e, Exec(e)
      PROVE  LoopInv'
  <2>1. Stopped => Stopped'
    BY <1>6 DEF Exec, Stopped
  <2>2. LoopFound /\ "operand" \notin events' => ~BadOperand
    BY <1>6 DEF Exec
  <2>3. eip' = NextIp /\ saved' = saved /\ rs' = rs
    BY <1>6 DEF Exec
  <2> QED
    BY <1>6, <2>1, <2>2, <2>3, JumpTaken DEF Exec
<1>7. CASE NoIntr
  BY <1>7 DEF NoIntr, Stopped
<1>8. ASSUME NEW e, NEW handled, Deliver(e, handled)
      PROVE  LoopInv'
  BY <1>8 DEF Deliver, Stopped
<1>9. CASE LoopEnd
  BY <1>9 DEF LoopEnd, Stopped
<1> QED
  BY <1>1, <1>2, <1>3, <1>4, <1>5, <1>6, <1>7, <1>8, <1>9 DEF Step

(* For every program: one that X86EMU_RUN_LOOP reports to loop does.       *)
THEOREM FoundLoopsLoop == Spec => []LoopIsLoop
<1>1. Init => LoopInv
  BY DEF Init, LoopInv
<1>2. TypeOK /\ LoopInv /\ [Next]_vars => LoopInv'
  <2> SUFFICES ASSUME TypeOK, LoopInv, [Next]_vars
               PROVE  LoopInv'
    OBVIOUS
  <2>1. CASE Step
    BY <2>1, LoopKept
  <2>2. CASE Host
    BY <2>2 DEF Host, Run, HostCall, Reset, LoopInv
  <2>3. CASE Tick
    BY <2>3 DEF Tick, LoopInv, Stopped, LoopFound, Ofs32
  <2>4. CASE UNCHANGED vars
    BY <2>4 DEF vars, LoopInv, Stopped, LoopFound, Ofs32
  <2> QED
    BY <2>1, <2>2, <2>3, <2>4 DEF Next
<1>3. LoopInv => LoopIsLoop
  BY DEF LoopInv, LoopIsLoop
<1> QED
  BY <1>1, <1>2, <1>3, RunTypeCorrect, PTL DEF Spec

-----------------------------------------------------------------------------
(***************************************************************************)
(* The run loop implements the processor of X86Cpu, for every program,     *)
(* every host and every sequence of runs.                                  *)
(***************************************************************************)

-----------------------------------------------------------------------------
(* Remainders *)
LEMMA DivMod ==
  ASSUME NEW x \in Int, NEW m \in Nat \ {0}
  PROVE  /\ x \div m \in Int /\ x % m \in 0 .. (m - 1)
         /\ x = m * (x \div m) + (x % m)
BY SMT

LEMMA ModUnique ==
  ASSUME NEW q \in Int, NEW z \in Nat, NEW m \in Nat \ {0}, z < m
  PROVE  (m * q + z) % m = z
<1> DEFINE x == m * q + z
           p == x \div m
           y == x % m
<1>1. x \in Int /\ p \in Int /\ y \in 0 .. (m - 1) /\ x = m * p + y
  BY DivMod
<1>2. m * (q - p) = y - z
  BY <1>1, SMT
<1> HIDE DEF p, y
<1>3. CASE q > p
  <2>1. m * (q - p) >= m
    BY <1>1, <1>3, SMT
  <2> QED BY <2>1, <1>1, <1>2, SMT
<1>4. CASE q < p
  <2>1. m * (p - q) >= m
    BY <1>1, <1>4, SMT
  <2>2. m * (p - q) = z - y
    BY <1>1, SMT
  <2> QED BY <2>1, <2>2, <1>1, SMT
<1>5. CASE q = p
  BY <1>5, <1>1, <1>2, SMT DEF y
<1> QED BY <1>1, <1>3, <1>4, <1>5, SMT

LEMMA ModAdd ==
  ASSUME NEW x \in Int, NEW i \in Int, NEW m \in Nat \ {0}
  PROVE  ((x % m) + i) % m = (x + i) % m
<1> DEFINE q == x \div m
           y == x % m
           p == (y + i) \div m
           z == (y + i) % m
<1>1. q \in Int /\ y \in 0 .. (m - 1) /\ x = m * q + y
  BY DivMod
<1>2. p \in Int /\ z \in 0 .. (m - 1) /\ y + i = m * p + z
  BY <1>1, DivMod, SMT
<1> HIDE DEF q, y, p, z
<1>3. x + i = m * (q + p) + z
  BY <1>1, <1>2, SMT
<1>4. (m * (q + p) + z) % m = z
  <2>1. q + p \in Int /\ z \in Nat /\ z < m
    BY <1>1, <1>2, SMT
  <2> QED BY <2>1, ModUnique
<1>5. (x + i) % m = z
  BY <1>3, <1>4
<1> QED BY <1>5 DEF z, y

LEMMA TurnAdded ==
  ASSUME NEW x \in Int, NEW m \in Nat \ {0}
  PROVE  (x + m) % m = x % m
<1>1. x \div m \in Int /\ x % m \in 0 .. (m - 1) /\ x = m * (x \div m) + (x % m)
  BY DivMod
<1> DEFINE q == x \div m
           y == x % m
<1> HIDE DEF q, y
<1>2. q \in Int /\ y \in 0 .. (m - 1) /\ x = m * q + y
  BY <1>1 DEF q, y
<1>3. x + m = m * (q + 1) + y /\ q + 1 \in Int /\ y \in Nat /\ y < m
  BY <1>2, SMT
<1>4. (m * (q + 1) + y) % m = y
  BY <1>3, ModUnique
<1> QED BY <1>3, <1>4 DEF y

LEMMA ModSmall ==
  ASSUME NEW m \in Nat \ {0}, NEW x \in 0 .. (m - 1)
  PROVE  x % m = x
<1>1. m * 0 + x = x /\ x \in Nat /\ x < m
  BY SMT
<1> QED BY <1>1, ModUnique, SMT

LEMMA ModBelow ==
  ASSUME NEW m \in Nat \ {0}, NEW x \in 0 .. (m - 1), NEW d \in 0 .. (m - 1)
  PROVE  (x - d) % m = IF d <= x THEN x - d ELSE x - d + m
<1>1. CASE d <= x
  <2>1. x - d \in 0 .. (m - 1)
    BY <1>1, SMT
  <2>2. (x - d) % m = x - d
    BY <2>1, ModSmall
  <2> QED BY <1>1, <2>2
<1>2. CASE ~(d <= x)
  <2>1. x - d + m \in 0 .. (m - 1) /\ x - d \in Int
    BY <1>2, SMT
  <2>2. (x - d + m) % m = x - d + m
    BY <2>1, ModSmall
  <2>3. (x - d + m) % m = (x - d) % m
    BY <2>1, TurnAdded
  <2> QED BY <1>2, <2>2, <2>3, Zenon
<1> QED BY <1>1, <1>2

-----------------------------------------------------------------------------
(* Places in the code segment *)
LEMMA Wraps ==
  /\ \A a \in Addr : a % CodeSize = a /\ a \in Int
  /\ \A a \in Int : a % CodeSize \in Addr
  /\ \A a, b \in Int : ((a % CodeSize) + b) % CodeSize = (a + b) % CodeSize
<1>1. \A a \in Addr : a % CodeSize = a /\ a \in Int
  BY CodeAssumption DEF Addr
<1>2. \A a \in Int : a % CodeSize \in Addr
  BY CodeAssumption DEF Addr
<1>3. CodeSize \in Nat \ {0}
  BY CodeAssumption
<1> QED BY <1>1, <1>2, <1>3, ModAdd

-----------------------------------------------------------------------------
(* While an instruction is fetched, EIP is at the first byte behind the    *)
(* prefixes, and behind them the opcode is what an instruction of X86Cpu   *)
(* begins with.  A segment full of prefixes never gets there.              *)
AtPrefix(k) ==
  /\ eip = (saved + k) % CodeSize
  /\ \A j \in 0 .. (k - 1) : Cpu!IsPrefix((saved + j) % CodeSize)

AtOpcode(o) ==
  /\ eip = Inc(o) /\ op = Code[o].op
  /\ Code[o].x /\ ~Cpu!IsPrefix(o)
  /\ \E k \in 0 .. (CodeSize - 1) :
       o = (saved + k) % CodeSize /\ \A j \in 0 .. (k - 1) : Cpu!IsPrefix((saved + j) % CodeSize)

FetchInv ==
  /\ phase = "fetch" => \E k \in 0 .. (CodeSize - 1) : AtPrefix(k)
  /\ phase = "exec" \/ (phase = "decode" /\ ~Stopped) => \E o \in Addr : AtOpcode(o)

LEMMA FetchKept ==
  ASSUME TypeOK, FetchInv, NEW e, Fetch(e)
  PROVE  FetchInv'
<1> DEFINE c == Code[eip]
<1>1. PICK k \in 0 .. (CodeSize - 1) : AtPrefix(k)
  BY DEF FetchInv, Fetch
<1>2. eip \in Addr /\ saved \in Int /\ eip = (saved + k) % CodeSize /\ eip' = (eip + 1) % CodeSize
  BY <1>1, Wraps DEF TypeOK, AtPrefix, Fetch, Inc
<1>3. saved' = saved
  BY DEF Fetch
<1>4. CASE c.x /\ c.op \in Prefix
  <2>1. phase' = "fetch" /\ Cpu!IsPrefix((saved + k) % CodeSize)
    BY <1>2, <1>4 DEF Fetch, Cpu!IsPrefix, Prefix
  <2>2. eip' = (saved + (k + 1)) % CodeSize
    <3>1. saved + k \in Int /\ saved + k + 1 = saved + (k + 1) /\ 1 \in Int
      BY <1>2, CodeAssumption
    <3>2. CodeSize \in Nat \ {0}
      BY CodeAssumption
    <3>3. (((saved + k) % CodeSize) + 1) % CodeSize = (saved + k + 1) % CodeSize
      BY <3>1, <3>2, ModAdd
    <3>4. eip' = (saved + k + 1) % CodeSize
      BY <1>2, <3>3, Zenon
    <3> QED BY <3>1, <3>4, Zenon
  <2>3. \A j \in 0 .. k : Cpu!IsPrefix((saved + j) % CodeSize)
    <3> SUFFICES ASSUME NEW j \in 0 .. k PROVE Cpu!IsPrefix((saved + j) % CodeSize)
      OBVIOUS
    <3>1. CASE j = k
      BY <2>1, <3>1
    <3>2. CASE j # k
      BY <1>1, <3>2 DEF AtPrefix
    <3> QED BY <3>1, <3>2
  <2>4. CASE k + 1 <= CodeSize - 1
    <3>1. k + 1 \in 0 .. (CodeSize - 1) /\ (k + 1) - 1 = k
      BY <2>4, CodeAssumption
    <3>2. AtPrefix(k + 1)'
      BY <1>3, <2>2, <2>3, <3>1 DEF AtPrefix, Cpu!IsPrefix
    <3> QED BY <2>1, <3>1, <3>2 DEF FetchInv
  <2>5. CASE k + 1 = CodeSize
    <3>1. eip' = (saved + 0) % CodeSize
      <4>1. (saved + CodeSize) % CodeSize = saved % CodeSize
        BY <1>2, CodeAssumption, TurnAdded
      <4> QED BY <1>2, <2>2, <2>5, <4>1
    <3>2. 0 \in 0 .. (CodeSize - 1) /\ 0 .. (0 - 1) = {}
      BY CodeAssumption
    <3>3. AtPrefix(0)'
      BY <1>3, <3>1, <3>2 DEF AtPrefix
    <3> QED BY <2>1, <3>2, <3>3 DEF FetchInv
  <2> QED BY <2>4, <2>5, CodeAssumption
<1>5. CASE ~c.x
  BY <1>5 DEF Fetch, FetchInv, StopBit, Stopped
<1>6. CASE c.x /\ c.op \notin Prefix
  <2>1. phase' = "decode" /\ op' = Code[eip].op
    BY <1>6 DEF Fetch
  <2>2. PICK o \in Addr : o = eip
    BY <1>2
  <2>3. ~Cpu!IsPrefix(o) /\ Code[o].x
    BY <1>6, <2>2 DEF Cpu!IsPrefix, Prefix
  <2>4. AtOpcode(o)'
    <3>1. \A j \in 0 .. (k - 1) : Cpu!IsPrefix((saved + j) % CodeSize)
      BY <1>1 DEF AtPrefix
    <3> QED BY <1>2, <1>3, <2>1, <2>2, <2>3, <3>1 DEF AtOpcode, Cpu!IsPrefix, Inc
  <2> QED BY <2>1, <2>4 DEF FetchInv
<1> QED BY <1>4, <1>5, <1>6

LEMMA FetchStep ==
  ASSUME TypeOK, FetchInv, [Next]_vars
  PROVE  FetchInv'
<1>1. ASSUME NEW e, Fetch(e) PROVE FetchInv'
  BY <1>1, FetchKept
<1>2. ASSUME NEW e, NEW answer, TopHandler(e, answer) PROVE FetchInv'
  <2>1. CASE phase' = "fetch"
    <3>1. eip' = saved' /\ saved' \in Addr
      BY <1>2 DEF TypeOK, TopHandler, Begin
    <3>2. eip' = (saved' + 0) % CodeSize
      BY <3>1, Wraps
    <3>3. 0 \in 0 .. (CodeSize - 1) /\ 0 .. (0 - 1) = {}
      BY CodeAssumption
    <3>4. AtPrefix(0)'
      BY <3>2, <3>3 DEF AtPrefix
    <3> QED BY <2>1, <3>3, <3>4 DEF FetchInv
  <2> QED BY <1>2, <2>1 DEF TopHandler, Return, FetchInv
<1>3. ASSUME NEW e, Decode(e) PROVE FetchInv'
  <2>1. PICK o \in Addr : AtOpcode(o)
    BY <1>3 DEF FetchInv, Decode
  <2>2. AtOpcode(o)'
    BY <1>3, <2>1 DEF Decode, AtOpcode, Cpu!IsPrefix, Inc
  <2> QED BY <1>3, <2>2 DEF FetchInv, Decode
<1>4. CASE Tick \/ UNCHANGED vars
  BY <1>4 DEF Tick, vars, FetchInv, AtPrefix, AtOpcode, Stopped
<1>5. CASE TopLimit \/ NoExec \/ NoIntr \/ LoopEnd
  BY <1>5 DEF TopLimit, Return, NoExec, NoIntr, LoopEnd, FetchInv
<1>6. ASSUME NEW e, Exec(e) \/ \E handled : Deliver(e, handled) PROVE FetchInv'
  BY <1>6 DEF Exec, Deliver, FetchInv
<1>7. CASE Host
  BY <1>7 DEF Host, Run, HostCall, Reset, FetchInv
<1> QED BY <1>1, <1>2, <1>3, <1>4, <1>5, <1>6, <1>7 DEF Next, Step

-----------------------------------------------------------------------------
(* Executing an opcode is an instruction of X86Cpu. *)
LEMMA NextIpIsFollowing ==
  ASSUME TypeOK, NEW o \in Addr, AtOpcode(o)
  PROVE  /\ Cpu!Plus(o, 1) = eip /\ Operand = Cpu!Byte(eip)
         /\ NextIp = Cpu!Following(o)
<1>1. Cpu!Plus(o, 1) = eip /\ Operand = Cpu!Byte(eip)
  BY DEF AtOpcode, Inc, Cpu!Plus, Operand, Fetched, Cpu!Byte, Ff
<1>2. o \in Int /\ eip \in Int /\ Operand \in Int /\ CodeSize \in Nat \ {0}
  BY Wraps, OperandType, CodeAssumption DEF TypeOK
<1>3. (eip + 1 + Operand) % CodeSize = Cpu!Plus(o, 2 + Operand)
  <2>1. 1 + Operand \in Int /\ o + 1 \in Int
    BY <1>2
  <2>2. (((o + 1) % CodeSize) + (1 + Operand)) % CodeSize = (o + 1 + (1 + Operand)) % CodeSize
    BY <1>2, <2>1, ModAdd
  <2>3. eip + 1 + Operand = eip + (1 + Operand) /\ o + 1 + (1 + Operand) = o + (2 + Operand)
    BY <1>2
  <2>4. eip = (o + 1) % CodeSize
    BY DEF AtOpcode, Inc
  <2> QED BY <2>2, <2>3, <2>4, Zenon DEF Cpu!Plus
<1>4. Inc(eip) = Cpu!Plus(o, 2)
  <2>1. o + 1 \in Int /\ o + 1 + 1 = o + 2 /\ 1 \in Int
    BY <1>2
  <2>2. (((o + 1) % CodeSize) + 1) % CodeSize = (o + 1 + 1) % CodeSize
    BY <1>2, <2>1, ModAdd
  <2>3. eip = (o + 1) % CodeSize
    BY DEF AtOpcode, Inc
  <2> QED BY <2>1, <2>2, <2>3, Zenon DEF Cpu!Plus, Inc
<1> DEFINE second == Cpu!Byte(Cpu!Plus(o, 2))
           near   == (Operand % 256) + 256 * second
<1>a. second \in Int /\ Fetched(Inc(eip)) = second
  <2>1. Inc(eip) \in Addr /\ Fetched(Inc(eip)) = second
    BY <1>4, IncType DEF Fetched, Cpu!Byte, Ff, TypeOK
  <2> QED BY <2>1, OperandType
<1>b. Near(Operand, Fetched(Inc(eip))) = near /\ near \in Int /\ Operand % 256 \in Int
  <2> HIDE DEF second
  <2> QED BY <1>2, <1>a DEF Near
<1>c. (eip + 2 + near) % CodeSize = Cpu!Plus(o, 3 + (Operand % 256) + 256 * second)
  <2>1. 2 + near \in Int /\ o + 1 \in Int
    BY <1>2, <1>b
  <2>2. (((o + 1) % CodeSize) + (2 + near)) % CodeSize = (o + 1 + (2 + near)) % CodeSize
    <3> HIDE DEF near
    <3> QED BY <1>2, <2>1, ModAdd
  <2>3. eip + 2 + near = eip + (2 + near)
    <3> HIDE DEF near
    <3> QED BY <1>2, <1>b
  <2>4. o + 1 + (2 + near) = o + (3 + (Operand % 256) + 256 * second)
    <3> HIDE DEF second
    <3> QED BY <1>2, <1>a, <1>b
  <2>5. eip = (o + 1) % CodeSize
    BY DEF AtOpcode, Inc
  <2> HIDE DEF near, second
  <2> QED BY <2>2, <2>3, <2>4, <2>5, Zenon DEF Cpu!Plus
<1>5. NextIp = CASE op = "jmp"  -> Cpu!Plus(o, 2 + Operand)
                 [] op = "jmpn" -> Cpu!Plus(o, 3 + (Operand % 256) + 256 * second)
                 [] op = "iret" -> stack[sp]
                 [] op \in Operands \ {"jmp", "jmpn"} -> Cpu!Plus(o, 2)
                 [] OTHER -> Cpu!Plus(o, 1)
  <2> HIDE DEF near, second
  <2> QED BY <1>1, <1>3, <1>4, <1>b, <1>c DEF NextIp
<1>6. op = Code[o].op
  BY DEF AtOpcode
<1> HIDE DEF Cpu!Plus
<1>7. NextIp = Cpu!Following(o)
  BY <1>1, <1>5, <1>6 DEF Cpu!Following, Operands
<1> QED BY <1>1, <1>7

LEMMA RaisedIsKept ==
  ASSUME TypeOK, NEW o \in Addr, AtOpcode(o), NEW e
  PROVE  \/ OwnIntr(Hooked(intr, e)) = Cpu!Keep(Cpu!Own(o))
         \/ OwnIntr(Hooked(intr, e)) = Cpu!Keep(HostIntr)
<1>1. Cpu!Plus(o, 1) = eip /\ Operand = Cpu!Byte(eip) /\ op = Code[o].op
  BY NextIpIsFollowing DEF AtOpcode
<1>2. HostIntr # None
  BY IntrAssumption DEF Intr, None
<1>3. ASSUME NEW pending
      PROVE  OwnIntr(pending) = IF pending = None THEN Cpu!Own(o) ELSE pending
  <2>1. OwnIntr(pending) = CASE op = "int" -> RaiseOn(pending, Cpu!Own(o))
                             [] op = "ud"  -> RaiseOn(pending, Cpu!Own(o))
                             [] op = "gp" /\ Code[eip].x -> RaiseOn(pending, Cpu!Own(o))
                             [] op = "wrmsr" /\ ~Code[eip].x -> RaiseOn(pending, Cpu!Own(o))
                             [] OTHER -> pending
    BY <1>1 DEF OwnIntr, Cpu!Own, Soft, FaultUD, FaultGP, UD, GP
  <2>2. ~(op \in {"int", "ud"} \/ (op = "gp" /\ Code[eip].x) \/ (op = "wrmsr" /\ ~Code[eip].x))
          => Cpu!Own(o) = None
    BY <1>1 DEF Cpu!Own
  <2> QED BY <2>1, <2>2 DEF RaiseOn
<1>4. CASE "raise" \in e
  BY <1>2, <1>3, <1>4 DEF Hooked, RaiseOn, Cpu!Keep
<1>5. CASE "raise" \notin e
  BY <1>3, <1>5 DEF Hooked, Cpu!Keep
<1> QED BY <1>4, <1>5

LEMMA ExecRefines ==
  ASSUME TypeOK, FetchInv, NEW e, Exec(e)
  PROVE  Cpu!Next
<1>1. PICK o \in Addr : AtOpcode(o)
  BY DEF FetchInv, Exec
<1>2. Cpu!OpcodeAt(o)
  BY <1>1 DEF AtOpcode, Cpu!OpcodeAt, Cpu!Plus, Decoding, Exec
<1>3. Cpu!Plus(o, 1) = eip /\ NextIp = Cpu!Following(o) /\ op = Code[o].op
  BY <1>1, NextIpIsFollowing DEF AtOpcode
<1>4. \/ intr' = Cpu!Keep(Cpu!Own(o))
      \/ intr' = Cpu!Keep(HostIntr)
  BY <1>1, RaisedIsKept DEF Exec
<1>5. o \in DOMAIN Code
  BY CodeAssumption
<1>6. WritesTsc <=> Code[o].op = "wrmsr" /\ Code[Cpu!Plus(o, 1)].x
  BY <1>3 DEF WritesTsc, BadOperand, Operands
<1>7. Cpu!Instruction(o)
  BY <1>2, <1>3, <1>4, <1>6 DEF Cpu!Instruction, Exec, Decoding, Pop
<1> QED BY <1>5, <1>7 DEF Cpu!Next

-----------------------------------------------------------------------------
(* Raising is an action of its own, or nothing. *)
LEMMA HookRefines ==
  ASSUME NEW e, intr' = Hooked(intr, e), UNCHANGED <<sp, stack, tsc>>,
         phase \notin {"intr", "tail"}, phase' \notin {"intr", "tail"},
         (IF Decoding THEN saved ELSE eip)' = IF Decoding THEN saved ELSE eip
  PROVE  [Cpu!Next]_(Cpu!vars)
<1>1. CASE "raise" \in e
  <2>1. Cpu!Raise
    BY <1>1 DEF Hooked, RaiseOn, Cpu!Raise, Cpu!Keep
  <2> QED BY <2>1 DEF Cpu!Next
<1>2. CASE "raise" \notin e
  BY <1>2 DEF Hooked, Cpu!vars
<1> QED BY <1>1, <1>2

(* Delivery.  A word of the stack is at SP - k for one k only. *)
LEMMA FrameWords ==
  ASSUME TypeOK, NEW n \in {3, 5}, NEW w \in 0 .. (StackSize - 1)
  PROVE  \A i \in 1 .. n : w = (sp - i) % StackSize <=> i = (sp - w) % StackSize
<1> DEFINE m == StackSize
<1>1. m \in Nat \ {0} /\ n < m /\ sp \in 0 .. (m - 1) /\ w \in 0 .. (m - 1)
  BY CodeAssumption DEF TypeOK
<1>2. TAKE i \in 1 .. n
<1>3. i \in 0 .. (m - 1)
  BY <1>1
<1>4. (sp - w) % m = IF w <= sp THEN sp - w ELSE sp - w + m
  BY <1>1, ModBelow
<1>5. (sp - i) % m = IF i <= sp THEN sp - i ELSE sp - i + m
  BY <1>1, <1>3, ModBelow
<1> DEFINE a == (sp - i) % m
           b == (sp - w) % m
<1>6. a = IF i <= sp THEN sp - i ELSE sp - i + m
  BY <1>5
<1>7. b = IF w <= sp THEN sp - w ELSE sp - w + m
  BY <1>4
<1> HIDE DEF a, b, m
<1>8. w = a <=> i = b
  BY <1>1, <1>3, <1>6, <1>7
<1> QED BY <1>8 DEF a, b, m

LEMMA DeliverRefines ==
  ASSUME TypeOK, NEW e, NEW handled, Deliver(e, handled)
  PROVE  Cpu!Next
<1> DEFINE n == IF intr.err THEN 5 ELSE 3
           resume == IF intr.restart THEN saved ELSE eip
           frame  == IF intr.err THEN <<0, 0, resume, 0, 0>> ELSE <<0, 0, resume>>
<1>1. n \in {3, 5} /\ n = FrameSize /\ resume = ReturnIp
  BY DEF FrameSize, ReturnIp
<1>2. \A k \in 1 .. n : frame[k] = Pushed(k)
  BY <1>1 DEF Pushed
<1>3. CASE handled
  <2>1. Cpu!Completion
    BY <1>3 DEF Deliver, cpu, Cpu!Completion, Decoding
  <2> QED BY <2>1 DEF Cpu!Next
<1>4. CASE ~handled
  <2> DEFINE at(w) == (sp - w) % StackSize
             hit(w) == \E k \in 1 .. n : w = (sp - k) % StackSize
  <2>1. ASSUME NEW w \in 0 .. (StackSize - 1)
        PROVE  (IF at(w) \in 1 .. n THEN Pushed(at(w)) ELSE stack[w])
                 = IF hit(w) THEN frame[CHOOSE k \in 1 .. n : w = (sp - k) % StackSize]
                   ELSE stack[w]
    <3>1. \A i \in 1 .. n : w = (sp - i) % StackSize <=> i = at(w)
      BY <1>1, FrameWords
    <3>2. CASE at(w) \in 1 .. n
      <4> DEFINE c == CHOOSE k \in 1 .. n : w = (sp - k) % StackSize
      <4>1. hit(w) /\ c = at(w)
        BY <3>1, <3>2
      <4> HIDE DEF c, at, hit, n, frame
      <4> QED BY <1>2, <3>2, <4>1 DEF c
    <3>3. CASE at(w) \notin 1 .. n
      <4>1. ~hit(w)
        BY <3>1, <3>3
      <4> HIDE DEF at, hit
      <4> QED BY <3>3, <4>1
    <3> QED BY <3>2, <3>3
  <2>2. stack' = [w \in 0 .. (StackSize - 1) |-> IF at(w) \in 1 .. n THEN Pushed(at(w)) ELSE stack[w]]
    BY <1>1, <1>4 DEF Deliver
  <2>3. stack' = [w \in 0 .. (StackSize - 1) |->
                   IF hit(w) THEN frame[CHOOSE k \in 1 .. n : w = (sp - k) % StackSize]
                   ELSE stack[w]]
    <3> HIDE DEF at, hit, n, frame
    <3> QED BY <2>1, <2>2, Zenon
  <2>4. /\ eip' = Idt[intr.nr] /\ sp' = (sp - n) % StackSize /\ phase = "intr" /\ phase' = "tail"
        /\ intr # None /\ intr' = None /\ tsc' = tsc
    BY <1>1, <1>4 DEF Deliver
  <2>5. Cpu!Vectored
    <3>1. ~Decoding /\ ~Decoding'
      BY <2>4 DEF Decoding
    <3> QED BY <2>3, <2>4, <3>1 DEF Cpu!Vectored
  <2>6. Cpu!Completion
    <3> HIDE DEF Cpu!Vectored
    <3> QED BY <2>4, <2>5 DEF Cpu!Completion
  <2> QED BY <2>6 DEF Cpu!Next
<1> QED BY <1>3, <1>4

-----------------------------------------------------------------------------
(* All other steps of the loop are none of X86Cpu, or raise an interrupt.  *)
LEMMA LoopRefines ==
  ASSUME TypeOK, FetchInv, Step
  PROVE  [Cpu!Next]_(Cpu!vars)
<1>1. CASE TopLimit
  BY <1>1 DEF TopLimit, Begin, Return, Cpu!vars, Decoding
<1>2. ASSUME NEW e, NEW answer, TopHandler(e, answer)
      PROVE  [Cpu!Next]_(Cpu!vars)
  BY <1>2, HookRefines DEF TopHandler, Begin, Return, Decoding
<1>3. ASSUME NEW e, Fetch(e) PROVE [Cpu!Next]_(Cpu!vars)
  BY <1>3, HookRefines DEF Fetch, Decoding
<1>4. CASE NoExec
  BY <1>4 DEF NoExec, Return, Cpu!vars, Decoding
<1>5. ASSUME NEW e, Decode(e) PROVE [Cpu!Next]_(Cpu!vars)
  BY <1>5, HookRefines DEF Decode, Decoding
<1>6. ASSUME NEW e, Exec(e) PROVE [Cpu!Next]_(Cpu!vars)
  BY <1>6, ExecRefines
<1>7. CASE NoIntr
  <2>1. Cpu!Completion
    BY <1>7 DEF NoIntr, Cpu!Completion, Decoding
  <2> QED BY <2>1 DEF Cpu!Next
<1>8. ASSUME NEW e, NEW handled, Deliver(e, handled)
      PROVE  [Cpu!Next]_(Cpu!vars)
  BY <1>8, DeliverRefines
<1>9. CASE LoopEnd
  BY <1>9 DEF LoopEnd, Cpu!vars, Decoding
<1> QED
  BY <1>1, <1>2, <1>3, <1>4, <1>5, <1>6, <1>7, <1>8, <1>9 DEF Step

LEMMA HostRefines ==
  ASSUME Host
  PROVE  [Cpu!Next]_(Cpu!vars)
<1>1. ASSUME NEW f, Run(f) PROVE [Cpu!Next]_(Cpu!vars)
  BY <1>1 DEF Run, Cpu!vars, Decoding
<1>2. ASSUME NEW e, HostCall(e) PROVE [Cpu!Next]_(Cpu!vars)
  BY <1>2, HookRefines DEF HostCall, Decoding
<1>3. CASE Reset
  <2>1. Cpu!Reset
    BY <1>3 DEF Reset, Cpu!Reset, Decoding
  <2> QED BY <2>1 DEF Cpu!Next
<1> QED BY <1>1, <1>2, <1>3 DEF Host

(* x86emu_run() implements a processor of whole instructions, each followed *)
(* by its interrupt: for every program, every host that stops and raises    *)
(* from any callback, and every sequence of runs.                           *)
THEOREM LoopImplementsCpu == Spec => ImplementsCpu
<1>1. Init => Cpu!Init
  BY DEF Init, Cpu!Init, Decoding
<1>2. Init => FetchInv
  BY DEF Init, FetchInv
<1>3. TypeOK /\ FetchInv /\ [Next]_vars => FetchInv'
  BY FetchStep
<1>4. TypeOK /\ FetchInv /\ [Next]_vars => [Cpu!Next]_(Cpu!vars)
  <2> SUFFICES ASSUME TypeOK, FetchInv, [Next]_vars
               PROVE  [Cpu!Next]_(Cpu!vars)
    OBVIOUS
  <2>1. CASE Tick \/ UNCHANGED vars
    BY <2>1 DEF Tick, vars, Cpu!vars, Decoding
  <2> QED BY <2>1, LoopRefines, HostRefines DEF Next
<1> QED
  BY <1>1, <1>2, <1>3, <1>4, RunTypeCorrect, PTL DEF Spec, ImplementsCpu, Cpu!Spec
=============================================================================
