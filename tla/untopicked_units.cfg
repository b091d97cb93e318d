SPECIFICATION MCSpec
CONSTANTS
  Clients = {}
  Specialists = {p1}
  MaxUnits = 2
  MaxSJobs = 2
  MaxSRetries = 1
  MaxSFailures = 1
  MaxCalls = 0
  MaxCrashes = 1
  Tasks = {t1}
  NoTask = NoTask
  MaxRuns = 2
  MaxScanMsgs = 2
  MaxKRetries = 1
  MaxFRetries = 1
  MaxFJobs = 2
  MaxFailures = 1
  MaxTroubles = 0
INVARIANTS
  QuietScanHasTopics
CHECK_DEADLOCK FALSE
