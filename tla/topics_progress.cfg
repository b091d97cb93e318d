SPECIFICATION MCFairSpec
CONSTANTS
  Clients = {c1}
  Specialists = {p1}
  MaxUnits = 2
  MaxSJobs = 4
  MaxSRetries = 1
  MaxSFailures = 1
  MaxCalls = 1
  MaxCrashes = 1
  Tasks = {t1}
  NoTask = NoTask
  MaxRuns = 1
  MaxScanMsgs = 2
  MaxKRetries = 1
  MaxFRetries = 1
  MaxFJobs = 3
  MaxFailures = 1
  MaxTroubles = 2
PROPERTIES
  UnitsGetTopics
CHECK_DEADLOCK FALSE
