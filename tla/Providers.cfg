\* What talks to ComicVine, the pull feed, GetComics, the indexers and the store.
SPECIFICATION Spec
CONSTANTS
  Focus = {"comicvine", "pull", "getcomics", "store", "indexers"}
  Nobody = Nobody
  \* ComicVine
  Callers <- UsualCallers  Lane <- CallerLane  Method <- CallerMethod  Bucket <- CallerBucket
  SetInterval = 1  IntervalFloor = 1  SetBudget = 2  BudgetFloor = 1  BudgetCeiling = 2
  SetShare = 50  Window = 3  Backoff <- Delays  RetryAfters = {}
  Volume <- Listing  Shifts = {"new"}  PageSize = 2  MaxPages = 2  ItemCap = 5
  MaxNow = 5  MaxCalls = 3  MaxFaults = 2  MaxShifts = 1
  \* the pull list
  Key <- VolumeKey  Numbers = {1, 2}  Weeks = {1, 2, 3}  Ahead = 3  Back = 1
  PullSettings <- UsualSettings
  \* GetComics
  Fetchers = {"search", "sweep"}  FetchInterval = 2  Jitter = 1  Tiers = 2
  MaxResultPages = 2  Answers = {"page", "failure"}  Writable = {TRUE}
  MaxSearches = 3  MaxCrashes = 1
  \* the store
  Purchases = {1, 2, 3}  StoreSeries = {"s1", "s2"}  Best <- PurchaseBest  Sure = {1, 2}
  Unanswered = {3}  Group <- PurchaseGroup  StoreRegimes <- UsualRegimes
  \* the indexers
  Indexers = {1, 2}  Searches = {"backlog", "user", "again"}
  Interactive = {"user", "again"}  Requests = {"r1", "r2"}  Blowups = {"cleanup", "caps"}
  MaxLevel = 2  FastForward = 2  SearchRegimes <- UsualSearches
INVARIANTS GateSound   SweepOwedOnce
PROPERTIES PullListSound PagesSpaced DecisionsStand LinkSound
CHECK_DEADLOCK FALSE
