SPECIFICATION Spec
CONSTANTS
  Raws <- MCHandles
  Cells <- MCOneCells
  RootCells <- MCOneCells
  MaxNodes = 2
  MaxCalls = 1
  Absent = Absent
  Invalid = Invalid
  Padded = Padded
CHECK_DEADLOCK FALSE
INVARIANTS
  FailuresAreErrors
