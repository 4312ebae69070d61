CONSTANTS
  Sizes = {1, 2, 3, 4, 5, 6, 7, 8}
  ArbitrarySizes = {1, 2, 3, 4}
  MaxPath = 3
  VectorSizes = {1, 2, 3, 7, 16}
  Half = 8
  Checkpoints <- MCCheckpoints
  Tree <- MCTree
  Claims <- MCClaims
SPECIFICATION Spec
INVARIANTS
  TypeOK
  PositionSound
  LeafSound
  OnlyAuditPathAccepted
  GenuineProofAccepted
  PublishedVectorsHold
  KernelsAgreeInRange
PROPERTIES
  Returns
CHECK_DEADLOCK FALSE
