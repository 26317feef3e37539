CONSTANTS
  Lo = 16
  Hi = 2
  Para = 2
  Gran = 32
  Entry = 2
  Descrs <- MCDescrs
  Vectors <- MCVectors
  UD = 0
  GP = 1
  Cpuid = TRUE
  Machines <- MCMachines
  Value = {21}
  Offset <- MCOffset
  Selector = {4, 10, 1}
  Count = {0, 3}
  Depth = {0, 2}
  Tables <- MCTables
  RegArg = {"ax", "sp"}
  MaxPlain = 2
  MaxInstr = 4
SPECIFICATION Spec
INVARIANTS
  TypeOK
  Undone
  SegmentsWhole
  FaultLeaves
  ArrivesWhole
PROPERTY UpperHalfKept
CHECK_DEADLOCK FALSE
