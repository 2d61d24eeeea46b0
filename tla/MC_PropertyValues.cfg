SPECIFICATION FairValuesSpec
CONSTANTS
  Panic = Panic
  None = None
  Byte <- MCByte
  Values <- MCValues
  CellCounts <- MCCellCounts
  Texts <- MCTexts
  Okay <- MCOkay
  Disabled <- MCDisabled
  Reserved <- MCReserved
  Fail <- MCFail
  SpinTable <- MCSpinTable
  ChassisTypes <- MCChassisTypes
CHECK_DEADLOCK FALSE
INVARIANTS
  ValuesTypeOK
  CellsInPlace
  ValuesComeBack
  VerdictIsExact
PROPERTIES
  Terminates
