CONSTANTS
  MaxNodes = 5
  Documents <- MCDocuments
  MaxDepths <- MCMaxDepths
SPECIFICATION Spec
INVARIANTS
  TypeOK
  GuardExact
PROPERTIES
  Returns
CHECK_DEADLOCK FALSE
