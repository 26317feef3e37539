SPECIFICATION MCSpec
CONSTANTS
  PageSize = 4
  NumPages = 2
  HostPage = {h1}
  Own = Own
  DefPerm <- RW
  AddrArg = {0, 3, 6}
  PermArg <- Perms
  RangeArg <- Ranges
  Val <- Values
  HostInit <- HostFill
  MaxOps = 3
INVARIANTS TypeOK ReadAnswer
PROPERTIES ImplementsFlat ProtectedDataUnchanged FlagsStable
CHECK_DEADLOCK FALSE
