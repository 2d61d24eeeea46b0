SPECIFICATION Spec
CONSTANTS
  Symbols = 0
  Aliases = 1
  Chosen = 2
  Cpus = 3
  Memory = 4
  ReservedMemory = 6
  MaxUnit = 2
  Rpi = TRUE
  Roots <- MCRoots
CHECK_DEADLOCK FALSE
INVARIANTS
  TypeOK
  EveryChildOnce
  RoutedByName
  OrderOfConversions
  FirstFaultIsReported
