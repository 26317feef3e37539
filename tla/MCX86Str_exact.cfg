CONSTANTS
  Lo = 4
  Full = 16
  Value = {0, 1, 2}
  Base <- MCBase
  Limit <- MCLimit
  Instrs <- MCInstrs
  Starts <- MCStarts
  Port <- MCPort
SPECIFICATION FairSpec
INVARIANTS
  TypeOK
  RegistersTell
  ScanTells
  OnlyDestinationWritten
  CopyTells
  FaultTells
PROPERTY Finishes
