SPECIFICATION MCSpec
CONSTANTS
  PageSize = 4
  NumPages = 2
  HostPage = {h1}
  Own = Own
  DefPerm <- RW
  AddrArg = {0}
  PermArg <- FewPerms
  RangeArg <- AllRanges
  Val <- Values
  HostInit <- HostFill
  MaxOps = 2
PROPERTY RangeIsSet
CHECK_DEADLOCK FALSE
