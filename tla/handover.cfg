SPECIFICATION Spec
CONSTANTS
  Docs = {d1, d2}
  NoDoc = NoDoc
  Clients = {c1, c2}
  Workers = {w1, w2}
  Ensurers = {}
  KWorkers = {}
  MaxVersion = 2
  MaxJobs = 3
  MaxResults = 3
  MaxScans = 3
  MaxKJobs = 3
  MaxCalls = 3
  MaxKCalls = 0
  MaxTimeouts = 0
  MaxCrashes = 0
  MaxFailures = 1
  MaxKFailures = 0
  MaxRetries = 0
SYMMETRY Symmetry
INVARIANTS
  ActiveJobIsDriven
  SucceededJobHasResult
  SubmittedVersionIsCovered
  WaitingKnowledgeIsReleased
  ResultsWithinProcesses
CHECK_DEADLOCK FALSE
