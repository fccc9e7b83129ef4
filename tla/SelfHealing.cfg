\* The loop under one disturbance: no release is handed over twice, and the issue
\* is obtained in the end.
SPECIFICATION FairSpec
CONSTANTS
  bad = bad
  good = good
  Release = {bad, good}
  Post <- OwnPosts
  Rank <- Order
  Good = {good}
  ByTitle = {}
  DownloadWorkers = 1
  UserMay = {"search", "grab", "block", "remove", "unblock"}
  Budgets <- OneTrouble
INVARIANTS SentOnce
PROPERTIES WantedIsObtained
