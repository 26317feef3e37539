SPECIFICATION Spec
CONSTANTS
  CodeSize = 6
  StackSize = 6
  Code <- Data
  Vector <- DataVec
  Idt <- DataIdt
  RunFlags <- MaxOnly
  MaxInstr = 3
  Timeout = 0
  CheckEvery = 4
  TscMod = 8
  TscWrite = 0
  CodeHook <- Raises
  MemioHook <- Quiet
  IntrHook <- Quiet
  IdleHook <- Quiet
  CodeAnswer = {FALSE}
  IntrAnswer = {FALSE}
  HostIntr <- HostVector
INVARIANT HandledBeforeNext
