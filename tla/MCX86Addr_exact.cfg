SPECIFICATION Spec
CONSTANTS
  ByteBits = 2
  None = None
  Machines <- MCMachines
  Operands <- MCOperands
  ImmArg <- MCImm
  DispArg <- MCDisp
  CountArg = {1, 9}
  MaxInstr = 2
INVARIANTS TypeOK DecodesOperand Undone OnlyTarget
CHECK_DEADLOCK FALSE
