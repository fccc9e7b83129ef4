SPECIFICATION FairSpec
CONSTANTS
  i1 = i1
  i2 = i2
  main = main
  mirror = mirror
  Item = {i1}
  NoItem = NoItem
  Host = {main, mirror}
  NoHost = NoHost
  NoFile = NoFile
  Rank <- MCRank
  OutputOf <- MCOutputOf
  DeadHosts = {main}
  MaxRow = 1
  MaxInterrupts = 0
  MaxRetries = 0
PROPERTIES EveryItemSettles
