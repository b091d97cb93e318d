SPECIFICATION Spec
CONSTANTS
  Docs = {d1}
  NoDoc = NoDoc
  Clients = {c1}
  Workers = {w1}
  Ensurers = {}
  KWorkers = {}
  MaxVersion = 1
  MaxJobs = 2
  MaxResults = 2
  MaxScans = 2
  MaxKJobs = 2
  MaxCalls = 2
  MaxKCalls = 0
  MaxTimeouts = 0
  MaxCrashes = 0
  MaxFailures = 0
  MaxKFailures = 0
  MaxRetries = 0
SYMMETRY Symmetry
INVARIANTS
  NothingLeftOfDeletedJob
CHECK_DEADLOCK FALSE
