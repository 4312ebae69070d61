CONSTANTS
  Absent = Absent
  NotAString = NotAString
  Uncanonical = Uncanonical
  NoAnswer = NoAnswer
  Unimportable = Unimportable
  MaxCheckpoints = 2
  MaxEvents = 1
  MaxEventsOnline = 1
  Rich = TRUE
  MaxRecords = 2
  MaxNesting = 2
  MaxEdits = 1
  Bundles <- MCExportBundles
  GatewayLists <- MCExportGateways
  Contents <- MCExportContents
  NoContent <- NoSideInput
  AttestationLists <- AllLists
  Drafts <- MCDrafts
  Fixture <- MCFixture
  PlantedLists <- MCPlantedLists
  ExportDefects <- MCExportDefects
  Replies <- MCReplies
  HonestGateways <- MCHonestGateways
  Chain <- MCChain
  Commits <- MCCommits
SPECIFICATION CorpusSpec
INVARIANTS
  ExportTypeOK
  VerifiedMeansAttested
  CachedVerdictTrue
  RoundTrip
  FailureReachesTheTop
  ExitThreeFromWithin
  DeclaredExit
PROPERTIES
  CallsReturn
CHECK_DEADLOCK FALSE
