SPECIFICATION MCSpec
CONSTANTS
  Clients = {c1}
  Specialists = {p1}
  MaxUnits = 2
  MaxSJobs = 3
  MaxSRetries = 1
  MaxSFailures = 1
  MaxCalls = 1
  MaxCrashes = 1
  Tasks = {t1, t2}
  NoTask = NoTask
  MaxRuns = 2
  MaxScanMsgs = 2
  MaxKRetries = 1
  MaxFRetries = 1
  MaxFJobs = 2
  MaxFailures = 1
  MaxTroubles = 1
SYMMETRY Symmetry
INVARIANTS
  FinalTypeOK
  ActiveSpecialistIsDriven
  SucceededSpecialistHasResult
  FinalizationIsDriven
PROPERTIES
  JobsFollowLife
CHECK_DEADLOCK FALSE
