SPECIFICATION Spec
CONSTANTS
  soc = soc
  uart = uart
  bad = bad
  comma = comma
  Reserved = Reserved
  None = None
  Invalid = Invalid
  Panic = Panic
  Names <- MCNames
  Bad <- MCBad
  Commas <- MCCommas
  Trees <- MCTrees
  Lists <- MCLists
  Chosens <- MCChosen
  Paths <- MCPaths
CHECK_DEADLOCK FALSE
INVARIANTS
  TypeOK
  AliasesAreFullPaths
  LookupsFollowThePath
  ConsoleIsWhatChosenSays
  VerdictIsExact
