SPECIFICATION Spec
CONSTANTS
  Raws <- MCRaws
  Cells <- MCCells
  RootCells <- MCRootCells
  MaxNodes = 3
  MaxCalls = 2
  Absent = Absent
  Invalid = Invalid
  Padded = Padded
CHECK_DEADLOCK FALSE
INVARIANTS
  TypeOK
  PHandlesFaithful
  VerdictIsExact
