CONSTANTS
  Absent = Absent
  NotAString = NotAString
  Uncanonical = Uncanonical
  NotOk = NotOk
  BodyLost = BodyLost
  Bundles <- MCBundles
  GatewayLists <- MCGatewayLists
  Replies <- MCReplies
  Commits <- MCCommits
SPECIFICATION Spec
INVARIANTS
  FailedMeansFinding
CHECK_DEADLOCK FALSE
