SPECIFICATION Spec
CONSTANTS
  Docs = {d1}
  NoDoc = NoDoc
  Clients = {c1}
  Workers = {w1}
  Ensurers = {e1}
  KWorkers = {k1, k2}
  MaxVersion = 1
  MaxJobs = 2
  MaxResults = 2
  MaxScans = 2
  MaxKJobs = 2
  MaxCalls = 2
  MaxKCalls = 1
  MaxTimeouts = 1
  MaxCrashes = 1
  MaxFailures = 0
  MaxKFailures = 1
  MaxRetries = 1
SYMMETRY Symmetry
INVARIANTS
  PipelineTypeOK
  NoOrphanRows
  PendingHasMessage
CHECK_DEADLOCK FALSE
