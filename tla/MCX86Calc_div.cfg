SPECIFICATION Spec
CONSTANTS
  MaxBits = 10
  Wide = 10
  Size <- MCLong
  AccArg <- MCAcc
  ExtArg <- MCExt
  OperandArg <- MCOperand
  CountArg <- MCCount
  BaseArg <- MCRealBase
  FlagArg <- MCFlags
  DigitArg <- MCNone
INVARIANTS DivisionFaults
CHECK_DEADLOCK FALSE
