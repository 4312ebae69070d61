CONSTANTS
  Absent = Absent
  NotAString = NotAString
  Uncanonical = Uncanonical
  NotOk = NotOk
  BodyLost = BodyLost
  Bundles <- MCBundles
  GatewayLists <- MCGatewayLists
  Replies <- MCReplies
  Commits <- MCCommits
SPECIFICATION Spec
INVARIANTS
  TypeOK
  VerifiedMeansCommitted
  KernelsAgree
  FirstDeliveryDecides
PROPERTIES
  Returns
CHECK_DEADLOCK FALSE
