SPECIFICATION MCSpec
CONSTANTS
  Parts = {"payables", "upload", "review", "projections", "corrections", "statement",
           "segmentation", "agent", "index", "retrieval", "question"}
  BillUnits = {u1, u2, u3}
  Bills = {b1, b2}
  PayWorkers = {w1}
  MaxExtractions = 3
  Uploads = {a1, a2, a3}
  Contents = {x, y}
  DocIds = {d1, d2, d3}
  ExternalIds = {e1}
  ReviewUnits = {u1, u2}
  Topics = {t1, t2, t3}
  ArchiveTopics = {t2, t3}
  MaxDecisions = 3
  MaxMerges = 2
  Docs = {d1, d2}
  Organizations = {n1, n2}
  Addresses = {n1}
  Forms = {{n1, n2}}
  MaxEdits = 4
  Cells = {c1}
  FactKinds = {k1}
  Amounts = {1, 2}
  MaxCorrections = 2
  MaxJobRuns = 2
  MaxPayload = 2
  MaxTables = 2
  MaxSteps = 2
  MaxPages = 3
  MaxLines = 1
  Window = 2
  WindowOverlap = 1
  MaxAttempts = 2
  Confidences = {1, 2}
  Threshold = 2
  AgentPages = {1, 2}
  Queries = {q1}
  MaxAgentSteps = 2
  AutoPages = 1
  MaxToolCalls = 3
  SearchLimit = 1
  ReadLimit = 2
  SpecialistLimit = 1
  VisionLimit = 1
  IndexDocs = {i1}
  IndexWorker = indexer
  ApiRuns = {r1, r2}
  ChunkParts = {1, 2}
  MaxGenerations = 2
  MaxIndexRetries = 1
  MaxApiRuns = 2
  MaxText = 12
  MaxChars = 6
  Overlap = 2
  FoundDocs = 2
  FoundPages = 2
  MaxRank = 3
  RrfK = 60
  TopResults = 2
  MaxPerDoc = 1
  TableUnits = {u1, u2}
  Years = {1, 2}
  MaxAmount = 1
  MaxCredit = 0
  Details = {"x"}
  Totals = {"totale", "totale speso"}
INVARIANTS
  OneReminderPerBill
  StoredFileMatchesVersion
  AssignedScanIsReviewed
  EntityAnchoredOnce
  ContextsMatchEntities
  MentionsFindTheirEntity
  CorrectionsAreKept
  FactsMatchPayload
  CorrectionsStayInTheirCell
  AcceptedStatementIsRead
  EvidenceLocatesAmount
  UnitsFollowDecisions
  UncertainScansAreReviewed
  LinesKeepTheirPage
  CitedPagesWereRead
  EffortIsBounded
  NoResidueOfReprocessing
  ChunksCoverPage
  NothingBetterLeftOut
  TotalsAddUp
PROPERTIES
  ApprovedTopicIsActive
  MergedTopicHandsOver
CHECK_DEADLOCK FALSE
