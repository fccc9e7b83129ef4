SPECIFICATION FairSpec
CONSTANTS
  i1 = i1
  i2 = i2
  main = main
  mirror = mirror
  Item = {i1, i2}
  NoItem = NoItem
  Host = {main, mirror}
  NoHost = NoHost
  NoFile = NoFile
  Rank <- MCRank
  OutputOf <- MCOutputOf
  DeadHosts = {}
  MaxRow = 2
  MaxInterrupts = 1
  MaxRetries = 1
INVARIANTS SingleFlight FailedHostLeavesNothing
PROPERTIES EveryItemSettles
