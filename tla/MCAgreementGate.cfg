CONSTANTS
  Absent = Absent
  NotAString = NotAString
  Uncanonical = Uncanonical
  LoneSurrogate = LoneSurrogate
  Genesis = Genesis
  MaxLacks = 3
  Cases <- MCCases
  Regressions <- MCRegressions
  FieldDrafts <- MCFieldDrafts
SPECIFICATION Spec
INVARIANTS
  TypeOK
  AgreedOnCases
  GateSeparates
  RealKernelsAgree
CHECK_DEADLOCK FALSE
