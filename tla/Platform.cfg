\* A boot, the way in, the edge, and the import of an existing library.
SPECIFICATION Spec
CONSTANTS
  Focus = {"boot", "access", "edge", "staging"}
  \* a boot
  Revisions = 3  Keep = 3  Deployments <- UsualDeployments
  Passwords = {"a", "b"}  Keys = {"k1", "k2"}  Unset = "-"
  \* the way in
  Clients <- UsualClients  Source <- ClientSource  Uses <- ClientUses
  SessionLife = 2  TouchAfter = 1  CacheLife = 1  CacheCapacity = 1
  Threshold = 2  Window = 2  BackoffBase = 1  RegistryCapacity = 2
  MaxNow = 2  MaxRequests = 3  MaxTokens = 2  MaxRestarts = 1
  \* the listener
  Reqs = {1, 2}  Writes <- RequestWrites  Peer <- RequestPeer  Sizes <- RequestSizes
  Rows = {"a", "b"}  Socks = {1, 2}  RateMax = 1  RateClients = 1
  QueueMax = 1  MaxConnections = 1  InboundMax = 1
  CancelledCommits = {"lands", "rolls back"}  MaxAborts = 1
  \* the import of a library
  MatchKey = {"k1", "k2"}  Volume = {"v1", "v2"}  NoVolume = "no volume"
  File = {"f1", "f2", "f3"}  KeyOf <- StagedKey  Rank <- KeyRank  Best <- KeyBest
  Loose = {"k2"}  Unparsed = {}  Accepted = {"f1", "f3"}  Scannable = {"f2", "f3"}
  Modes = {TRUE, FALSE}  Cap = 1  Overlap = FALSE
  MaxActs = 2  MaxScans = 2  MaxImports = 2  MaxFaults = 1  MaxCrashes = 1
INVARIANTS NothingLost ServedSound EndedIsRefused AnsweredOnce ConnectedSeesChanges
PROPERTIES BootUndoesNothing 
CHECK_DEADLOCK FALSE
