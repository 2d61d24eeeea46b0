SPECIFICATION Spec
CONSTANTS
  Parents <- MCParents
  CacheKids <- MCCacheKids
  CpuKids <- MCCpuKids
  BootIds <- MCBootIds
  MaxKids = 4
  None = None
  Invalid = Invalid
CHECK_DEADLOCK FALSE
INVARIANTS
  TypeOK
  NothingLost
  CachesAreThoseDeclared
  VerdictIsExact
PROPERTIES
  BootCpuHasItsId
