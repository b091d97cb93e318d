SPECIFICATION RecoverySpec
CONSTANTS
  Docs = {d1}
  NoDoc = NoDoc
  Clients = {c1}
  Workers = {w1}
  Ensurers = {}
  KWorkers = {k1}
  MaxVersion = 2
  MaxJobs = 2
  MaxResults = 2
  MaxScans = 2
  MaxKJobs = 2
  MaxCalls = 2
  MaxKCalls = 0
  MaxTimeouts = 4
  MaxCrashes = 1
  MaxFailures = 1
  MaxKFailures = 1
  MaxRetries = 1
INVARIANTS
  CrashOrphansOneJob
PROPERTIES
  ActiveJobEnds
  WaitingKnowledgeEnds
  SubmittedVersionGetsResult
CHECK_DEADLOCK FALSE
