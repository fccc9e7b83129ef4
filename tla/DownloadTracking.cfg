SPECIFICATION Spec
CONSTANTS
  d1 = d1
  d2 = d2
  NoDownload = NoDownload
  IssueOf <- OneIssue
  Unmapped = {}
  Ddl = {d1}
  Tagged = {d1, d2}
  Settings <- Usual
  PollLimit = 2
  DownloadWorkers = 1
  MaxCrashes = 1
  MaxFaults = 1
  MaxIoErrors = 1
  MaxUser = 1
  Download = {d1, d2}
INVARIANTS  RowsSound
PROPERTIES NoFalseFailure ImportedOnce
CHECK_DEADLOCK FALSE
