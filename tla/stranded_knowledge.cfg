SPECIFICATION Spec
CONSTANTS
  Docs = {d1}
  NoDoc = NoDoc
  Clients = {c1}
  Workers = {w1}
  Ensurers = {e1}
  KWorkers = {k1}
  MaxVersion = 1
  MaxJobs = 2
  MaxResults = 2
  MaxScans = 2
  MaxKJobs = 2
  MaxCalls = 2
  MaxKCalls = 1
  MaxTimeouts = 0
  MaxCrashes = 0
  MaxFailures = 0
  MaxKFailures = 0
  MaxRetries = 0
SYMMETRY Symmetry
INVARIANTS
  EnsuredKnowledgeIsOnItsWay
CHECK_DEADLOCK FALSE
