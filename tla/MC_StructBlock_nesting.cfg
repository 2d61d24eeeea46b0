SPECIFICATION Spec
CONSTANTS
  Names <- MCThreeNames
  Root <- MCRoot
  PropKeys = {k1, k2}
  MaxTokens = 7
CHECK_DEADLOCK FALSE
INVARIANTS
  TypeOK
  StacksInSync
  VerdictIsExact
  TreeIsNesting
PROPERTIES
  ImplementsGrammar
