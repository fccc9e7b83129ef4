SPECIFICATION FairSpec
CONSTANTS
  e1 = e1
  nobody = nobody
  u1 = u1
  u2 = u2
  Entitlement = {e1}
  NoEntitlement = nobody
  User = {u1, u2}
  DownloadWorkers = 1
  UserMay = {"match", "retry", "ignore", "restore", "remove", "import"}
  MaxActs = 5
  MaxCrashes = 1
  MaxFaults = 1
INVARIANTS AxesAgree
PROPERTIES DecisionsHold IgnoredLeavesNothing
CHECK_DEADLOCK FALSE
