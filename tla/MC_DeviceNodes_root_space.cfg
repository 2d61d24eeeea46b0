SPECIFICATION Spec
CONSTANTS
  Raws <- MCBuses
  Cells <- MCOneCells
  RootCells <- MCRootCells
  MaxNodes = 1
  MaxCalls = 1
  Absent = Absent
  Invalid = Invalid
  Padded = Padded
CHECK_DEADLOCK FALSE
INVARIANTS
  RootChildrenInRootSpace
