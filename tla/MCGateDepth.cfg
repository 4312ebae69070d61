CONSTANTS
  Absent = Absent
  NotAString = NotAString
  Uncanonical = Uncanonical
  LoneSurrogate = LoneSurrogate
  Genesis = Genesis
  MaxLacks = 0
  Cases <- MCCases
  Regressions <- MCRegressions
  FieldDrafts <- MCFieldDrafts
SPECIFICATION Spec
INVARIANTS
  IdenticalVerdicts
CHECK_DEADLOCK FALSE
