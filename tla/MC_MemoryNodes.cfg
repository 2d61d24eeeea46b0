SPECIFICATION Spec
CONSTANTS
  RootCells <- MCRootCells
  Parents <- MCParents
  ReservedKids <- MCReservedKids
  MemoryKids <- MCMemoryKids
  MaxKids = 3
  Base = 2
  None = None
  Invalid = Invalid
CHECK_DEADLOCK FALSE
INVARIANTS
  TypeOK
  RegionsAreWhatTheNodesSay
  VerdictIsExact
