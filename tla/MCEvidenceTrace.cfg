CONSTANTS
  Absent = Absent
  NotAString = NotAString
  Uncanonical = Uncanonical
  NoAnswer = NoAnswer
  MaxCheckpoints = 2
  MaxEvents = 2
  MaxEventsOnline = 1
  Bundles <- MCBundles
  GatewayLists <- MCGatewayLists
  Contents <- MCContents
  Replies <- MCReplies
  HonestGateways <- MCHonestGateways
  Chain <- MCChain
  Commits <- MCCommits
SPECIFICATION MCSpec
INVARIANTS
  TypeOK
  VerifiedMeansAnchored
  HonestGatewayDecides
  ExitZeroHidesNothing
PROPERTIES
  FindingsStand
  ImplementsVerdict
  Returns
CHECK_DEADLOCK FALSE
