CONSTANTS
  Absent = Absent
  NotAString = NotAString
  Uncanonical = Uncanonical
  MaxEdits = 5
  Drafts <- MCDrafts
  Keys <- MCKeys
  SpecVersions <- MCSpecVersions
  Payloads <- MCPayloads
  PayloadHashes <- MCPayloadHashes
  Bodies <- MCBodies
  Notes <- MCNotes
  CoSignatures <- MCCoSignatures
  Documents <- MCDocuments
SPECIFICATION Spec
INVARIANTS
  TypeOK
  AcceptedAsSigned
  AcceptedPayloadCommitted
  BenignEditsAccepted
CHECK_DEADLOCK FALSE
