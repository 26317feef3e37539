SPECIFICATION Spec
CONSTANTS
  MaxBits = 10
  Wide = 10
  Size <- MCSize
  AccArg <- MCAcc
  ExtArg <- MCExt
  OperandArg <- MCOperand
  CountArg <- MCCount
  BaseArg <- MCBase
  FlagArg <- MCFlags
  DigitArg <- MCDigits
INVARIANTS TypeOK
PROPERTIES ArithmeticExact ConditionsDecide ShiftsStepwise RotationUndone
  DivisionExact DecimalExact
CHECK_DEADLOCK FALSE
