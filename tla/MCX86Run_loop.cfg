SPECIFICATION FairSpec
CONSTANTS
  CodeSize = 32
  StackSize = 6
  Code <- AllClasses
  Vector <- AllVec
  Idt <- AllIdt
  RunFlags <- Mixed
  MaxInstr = 3
  Timeout = 1
  CheckEvery = 4
  TscMod = 4
  TscWrite = 0
  CodeHook <- Any
  MemioHook <- Any
  IntrHook <- Stops
  IdleHook <- Any
  CodeAnswer = {TRUE, FALSE}
  IntrAnswer = {TRUE, FALSE}
  HostIntr <- HostVector
INVARIANTS TypeOK StopHonoured LoopIsLoop LimitRespected
PROPERTIES ImplementsCpu Returns
