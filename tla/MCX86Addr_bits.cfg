SPECIFICATION Spec
CONSTANTS
  ByteBits = 2
  None = None
  Machines <- MCMachines
  Operands <- BitOperands
  ImmArg <- MCImm
  DispArg <- MCDisp
  CountArg = {1, 9}
  MaxInstr = 2
INVARIANT BitFound
CHECK_DEADLOCK FALSE
