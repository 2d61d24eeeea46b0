SPECIFICATION MapSpec
CONSTANTS
  v1 = v1
  v2 = v2
  None = None
  Keys <- MCKeys
  Vals <- MCVals
  Batches <- MCDistinctBatches
  MaxLen = 4
INVARIANTS
  MapTypeOK
  ContentsSorted
  KeysDistinct
PROPERTIES
  ImplementsAbstractMap
