CONSTANTS
  m1 = m1
  m2 = m2
  Id <- Machines
  Ports = 6
  Device <- MCDevice
  Ff = 255
  WithIopl = TRUE
  Block = {1, 2, 3, 4, 5, 6, 7, 8, 9, 10, 11, 12}
  Page = {0, 1}
  HostPage <- MCHostPage
  HostInit <- MCHostInit
  MemPerm = {"R", "W"}
  IoPermOf = {"R"}
  PermArg <- MCPermArg
  RangeArg <- MCRangeArg
  IoPermArg <- MCIoPermArg
  PortArg = {1, 5}
  OutArg <- MCOutArg
  Msr = {16, 17}
  Tsc = 16
  ValueArg = {1}
  LogArg <- MCLogArg
  SayArg = {580, 1099, 1100}
  NoteArg <- MCNoteArg
  Iopl = {TRUE, FALSE}
  MaxCalls = 5
SYMMETRY Either
SPECIFICATION Spec
INVARIANTS
  TypeOK
  HeapSound
  PortsKept
  LogTells
PROPERTIES
  Apart
CHECK_DEADLOCK FALSE
