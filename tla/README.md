# Megadoc: a verification development

Megadoc archives scanned documents. A PDF is uploaded through an HTTP API, an OCR worker
turns it into text, a knowledge worker cuts the text into document units and classifies
them, specialist workers extract bills and accounts, and the API lets a person search,
review and correct the result. All parts share one PostgreSQL database and one Redis broker;
nothing else coordinates them. This directory holds TLA+ models of the parts where that
coordination can go wrong, the TLC instances that check them, and TLAPS proofs of the
properties that matter most.

Tools: `tlc -workers 2 -config <run>.cfg <Module>.tla` for a run (its module is in section 6),
`tlapm <Module>.tla` for a proof module.

## 1. Inventory

| component | state | operations | what makes it correct |
|---|---|---|---|
| Ingestion jobs (`api/main.py`, `common/application/services.py`, `repositories.py`) | `documents`, `document_versions`, `ingestion_jobs` | upload, submit, replay, reingest, reconcile stale jobs, dispatch | an active job is always going to end; a submitted version is not forgotten; a job's status tells the truth |
| OCR worker (`worker/tasks.py`, `OCRService`) | `ocr_results`, the task in hand | `process_ingestion_job` | no more results of a version than processes; nothing survives of deleted work; the waiting knowledge is released by whoever empties the queue |
| Hand-over to knowledge (`common/application/knowledge.py`, `routers/knowledge.py` 1035-1110) | `scan_units`, `knowledge_jobs` | ensure, collect, mark pending, replay | no orphans, one scan unit per result, no knowledge job stranded |
| Knowledge worker (`knowledge_worker/tasks.py`) | status of the newest `full_processing` job | `process_scan_unit_task`: defer, run, retry | deferral ends, `pending` means that a message exists |
| Topic finalization (`finalize_scan_topics_task`) | `topic_finalization` jobs, an advisory lock | finalize, defer 15 s, retry 30 times, refresh the index | every processed scan unit gets topics after its specialists |
| Specialist jobs (`specialist_worker/tasks.py`, `application/specialists.py`) | `specialist_jobs`, `specialist_results` | route, deduplicate, run, retry, replay, correct | an active job is driven, a succeeded one has its result, corrections survive |
| Payables and calendar (`payables.py`, `calendar.py`) | `payables`, `calendar_events` | project, mark duplicates | a bill is on the calendar once, whichever documents announce it |
| Upload and storage (`DocumentService.save_upload`) | documents, versions, objects | deduplicate by hash or external id, store | the stored object is the committed version |
| Review (`routers/knowledge.py`) | proposals, topics, review statuses | accept, reject, merge, mark reviewed | a scan shown as assigned has nothing open, approved and merged topics hand their units over |
| Knowledge pipeline (`knowledge_classifier`) | document units, decisions | segment, route, classify, assign topics | every page in one unit as decided, unsure results reviewed, a unit read by its own text |
| Entities, contexts, graph | canonical entities, variants, memberships | consolidate, rebuild | an entity anchors one context, projections match the present entities |
| Accounting (`accounting.py`, `accounting_statement.py`, `accounting_agent.py`, `ask_accounting`) | facts, corrections, tables of results | extract, reconcile, score, correct, answer | corrections are kept and stay in their cell, nothing unchecked is accepted, totals are of one kind |
| Archive agent (`agent_orchestration.py`, `routers/knowledge.py` 2368-3260) | trace and tool budget of a question | collect evidence, use tools, answer, force an answer | effort is bounded, cited pages were read |
| Retrieval, search index | chunks | chunk, rank, refresh | no text lost, no residue of earlier processing, nothing better left out |

Left aside: image processing and OCR back ends, prompts, utility-bill expressions, the web
front end, the CLI, migrations, scripts, read-only summaries. `PROJECT.json` lists every part
with its status and its reason.

**How they interact.** The API commits a job and then sends a Celery message. The OCR task
commits its result, its job's status and the scan unit, then asks whether any ingestion job
is queued or running; if none is, it marks every waiting knowledge job pending and sends its
message. A knowledge task asks the same question first and, if OCR is busy, sends its message
again with a delay of 180 seconds. No table lock and no unique constraint protects the job
tables, messages are acknowledged on receipt, and reingest deletes rows under running tasks.

**What is hard.** A handler or task is several transactions and broker calls with everything
else in between: find-then-insert, commit-then-send, look-at-the-queue-then-commit. A job may
have several messages, and a scan unit too. A worker that dies takes its message along. A
status is written by whoever comes last. The hazards of `PROJECT.json` give each of these at
its line with the properties that watch it.

## 2. Plan

Done:

1. The ingestion pipeline: `IngestionJobs`, `KnowledgeQueue`, `OcrWorker`, `KnowledgeWorker`,
   composed in `Pipeline` (section 3), with proofs in `PipelineProofs`, `ResultProofs` and
   `KnowledgeProofs`, each extending the one before.
2. Specialist jobs and topic finalization: `SpecialistJobs`, composed with the two knowledge
   tasks in `TopicFinalization`, which implements the abstract life of a job, `JobLife`
   (section 4), with proofs in `FinalizationProofs` and `SpecialistProofs`.
3. The records each of these parts writes: `Payables`, `UploadStore`, `TopicReview`,
   `SemanticProjection`, `AccountingCorrections`, `StatementExtraction`, `Segmentation`,
   `ArchiveAgent`, `SearchIndex`, `Retrieval`, `AccountingAnswers` (section 5), with proofs in
   `RecordProofs` and `ReviewProofs` on the lemmas of `DataLemmas`.

Every safety, action and refinement property that a passing run checks has a proof.

Left: topic chunks of the index and a change of the embedding model; projections that are rebuilt
at once; two specialist tasks that project one bill at once.

## 3. The ingestion pipeline

Each module extends the one before it, and `Pipeline` adds the composition, fairness and
properties.

| module | models | state | actions |
|---|---|---|---|
| `IngestionJobs` | the API's ingestion handlers | `version`, `submitted`, `jobDoc`, `jobStatus`, `overdue`, `queue`, `result`, `api` | `Upload`, `Submit`, `ReplayIngestion`, then `ReconcileOwn`, `FindActiveJob`, `InsertJob`, `DispatchJob`; `ClientCrash`; `TimeoutElapses`, `ReconcileAll` |
| `KnowledgeQueue` | ensure, replay, reingest | `scanOf`, `kScan`, `kStatus`, `kqueue`, `ensurer` | `EnsureKnowledge`, `ReplayKnowledge`, `EnsureCommit`, `EnsureSend`, `EnsurerCrash`; `Reingest` |
| `OcrWorker` | `process_ingestion_job` | `worker` | `Receive`, `ReadVersion`, `RunOcr`, `StoreResult`, `MarkSucceeded`, `EnsureScanUnit`, `CommitScanUnit`, `DrainGate`, `Collect`, `Release`, `SendReleased`; `OcrFails`, `Except`; `WorkerCrash` |
| `KnowledgeWorker` | `process_scan_unit_task` | `kworker` | `KReceive`, `Defer`, `Resend`, `Start`, `RunPipeline`, `Finish`; `PipelineFails`, `Fail`, `Retry`; `KWorkerCrash` |

*Granularity.* One action is one transaction (what it reads and what it then writes) or one
broker call. Where a transaction reads, works and commits later (ensure in both processes) it
is two actions, the decision and the commit, because others may commit in between; the
decision is kept in the process (`plan`), and `Committable` says when the commit fails on a
foreign key or on a row that is gone. Rows carry identifiers in creation order, which is what
`ORDER BY created_at` orders by; a deleted row is "absent" and its identifier is never used
again.

*Processes.* `Clients` are handlers of the ingestion endpoints and `Ensurers` handlers of the
knowledge endpoints: FastAPI runs the synchronous ones in threads. `Workers` and `KWorkers`
are Celery processes. A crash ends one of them where it is; the message it held is gone. A
broker that refuses a message has the effect of a crash at that place, and in the release loop
it raises (`WorkerCrash`).

*Abstracted.* What OCR and the pipeline compute; the two ingestion queues are one; priorities,
attempts and messages of errors; the specialist and finalization messages a successful pipeline
sends (part 2 of the plan). Times are reduced to what they decide: an active job may become
`overdue`, and a message with a countdown is in the broker like any other.
Redis visibility timeouts, which could deliver a message twice, are not configured in the
repository and not modelled. `run_job_sync`, a stub, is left out.

*Bounds.* `MaxVersion`, `MaxJobs`, `MaxResults`, `MaxScans`, `MaxKJobs` bound rows ever
inserted; `MaxCalls` and `MaxKCalls` bound requests, `MaxTimeouts`, `MaxCrashes`,
`MaxFailures`, `MaxKFailures` the events of those names; `MaxRetries` is the code's
`max_retries`. An insert beyond its bound is not taken, so that a handler stops there; in the
liveness run the bounds on rows are large enough for the calls, so that nothing is cut off.

## 4. Specialist jobs and topic finalization

One scan unit from the pipeline run on. `TopicFinalization` extends `SpecialistJobs`, because
the knowledge worker's task makes the specialist jobs and its second task waits for them.

| module | models | state | actions |
|---|---|---|---|
| `SpecialistJobs` | `specialists.py`, `specialist_worker/tasks.py`, the endpoints that ensure, replay, review and delete | `unitRun` (the pipeline run that made a unit), `routed`, `sUnit`, `sStatus`, `squeue`, `results`, `client`, `spec` | `EnsureSpecialists`, `ReviewUnit`, `ReplaySpecialist`, then `ClientCommit`, `ClientSend`; `SReceive`, `Extract`, `LookForResult`, `StoreResult`, `MarkSucceeded`; `MarkFailed`, `SRetry`; `ClientCrash`, `SpecialistCrash` |
| `TopicFinalization` | `process_scan_unit_task` after its gate, `finalize_scan_topics_task` | `runs`, `scanq`, `topics`, `fStatus`, `finalq`, `lock`, `task` | `ScanMessage`, `StartPipeline`, `CommitPipeline`, `EnsureJobs`, `CommitJobs`, `DispatchJob`, `FindFinalJob`, `InsertFinalJob`, `Notify`, `ScanFails`, `RetryScan`; `FinalReceive`, `Begin`, `Check`, `AssignTopics`, `Refresh`, `Unlock`, `Defer`, `Resend`, `FinalFails`, `RetryFinal`; `TaskCrash` |
| `JobLife` | what a reader of the job table may assume | `st` | `Create`, `Start`, `Succeed`, `Fail`, `Remove` |

*Granularity.* As in section 3. The result of a specialist and the status of its job are two
transactions (`StoreResult`, `MarkSucceeded`), and between them a second run of the pipeline
may delete the unit, its jobs and its results. The pipeline reads the units it will delete
when it starts and replaces them when it commits, so that two runs may both leave units.
The gate in front of the pipeline and the `full_processing` job are `KnowledgeWorker`'s; here
a message for the scan is just there.

*Refinement.* `JobsFollowLife` is the specification of `JobLife` with the jobs of
`SpecialistJobs` for its jobs and `LifeOf` as the mapping: a job not inserted yet is "new", a
row that is gone is "gone". Every step of the composed system changes the job table as one
step of `JobLife` does: in particular no late message, retry or replay brings back a job that
succeeded.

*Fairness.* Weak fairness for each slot of the knowledge worker (its scan task, its
finalization, its reading of the queue), each specialist process, and each handler that has
begun: Celery polls, a process that runs keeps running. Nobody need call a handler, nothing
need fail. `UnitsGetTopics` exempts crashes, because nothing recovers the job of a specialist
worker that died and the finalization then defers for ever. It exempts scans with a
finalization that has ended, which is the finding of `untopicked_units`, and units whose result
was stored twice: whoever then ensures their jobs raises (`EnsureRaises`), so that a scan task
gives up with its units untouched. `FinalizationIsDriven` has the same two exceptions.

## 5. The records

Eleven modules, each a component with a state of its own, so that they are checked in one run,
`records`: its module `MCRecords` lets a behaviour belong to one part and keeps the others as
they were, and its states are the sum of the parts' states.

| module | models | state | actions |
|---|---|---|---|
| `Payables` | `project_payable`, the calendar | `payables`, `filed`, `events`, `projecting`, `deleted` | `LookForOriginal`, `Project`, `ProjectFails`, `DeleteBillUnit` |
| `UploadStore` | `save_upload` and the object store | `documents`, `objects`, `uploading` | `Find`, `WriteRows`, `Put`, `Commit`, `UploadFails` |
| `TopicReview` | finalization's topics, the review endpoints, `consolidation.py`, merges, clean-up | `kb` (topics, flags, assignments, proposals, review of units), `scan`, `cleaning`, `chained` (history) | `Finalize`, `SpecialistStores`, `Approve`, `Reject`, `ReviewUnit`, `MarkScanReviewed`, `MarkUnitReviewed`, `AddAssignment`, `DeleteAssignment`, `DeleteUnit`, `CreateTopic`, `Consolidate`, `MergeTopic`, `MakeSecondary`, `CleanupReads`, `CleanupDeletes` |
| `SemanticProjection` | `entities.py`, `contexts.py`, `graph.py`, `projections.py`, the back-fill script | `units`, `known`, `contexts`, `graph`, `fresh`, `merging` | `Process`, `FinalizeRebuilds`, `SpecialistProjects`, `MergeEntities`, `Backfill`, `DeleteProjectedUnit`, `Rebuild` |
| `AccountingCorrections` | `accounting.py`, the correction endpoint, the specialist's store | `result`, `facts`, `request`, `worker` | `Ask`, `Answer`, `Extract`, `Store`, `GiveUp`, `RebuildFacts` |
| `StatementExtraction` | `accounting_statement.py`, `accounting_agent.py`, `accounting_reconciliation.py`, `registry.py` | `stage`, `tables`, `accounts`, `provider`, `outcome` | `Parse`, `ToolExtract`, `ToolLlmExtract`, `ToolLabel`, `ToolRead`, `AgentEnds`, `Correct`, `Conclude` |
| `Segmentation` | `page_artifacts.py`, `segmentation.py`, the first half of `pipeline.py` | `split` | `StartScan`, `DraftWindow`, `ReviewWindow`, `MergeWindows`, `Adjudicate`, `Segment`, `RouteUnits`, `ClassifyUnit`, `ExtractEntities`, `FinishScan`, `ModelError` |
| `ArchiveAgent` | `chat_with_knowledge_agent`, `AgentToolBudget` | `chat` | `AutoRetrieve`, `AutoRead`, `OpenLoop`, `UseTool`, `ProposeFinal`, `ModelFails`, `OutOfSteps`, `ForceFinal`, `Persist`, `Disconnect` |
| `SearchIndex` | the refresh task, the two endpoints that rebuild | `generation`, `finalizing`, `messages`, `runs`, `rows` | `ProcessDocument`, `Finalized`, `Receive`, `CallApi`, `Collect`, `Delete`, `Insert`, `EmbeddingFails`, `WorkerDies` |
| `Retrieval` | `_split_search_text`, reciprocal rank fusion | `search` | `PageToIndex`, `Searched`, `Split`, `Fuse` |
| `AccountingAnswers` | `ask_accounting` | `question` | `ReceiveQuestion`, `AskAccounting` |

*What is data.* What a model answers, what an engine recognises, which titles are similar and
which score is the higher are choices: any answer, any pair. A threshold is kept, the number
it is compared with is one of two. A tie in a weight is broken either way (`Mergeable`). Where the
code sorts by a label nothing depends on, the order is that of `SetToSeq`. A loop over rows is
a recursive function on the number of rounds made (`DecidedAll`, `Merges`, `Groups`, `ProjectUnits`,
`RelabelAll`, `BudgetFromTrace`, `LinesBefore`, `SplitText`, `FuseRanked`), one operator for a
round, so that the proofs can speak of what holds after k of them. The sort of the fusion is the
sequence whose place k has the candidate with k - 1 before it (`Ordered`), and its scores are
fractions brought to a common denominator (`Scale`) and cut to whole numbers, where the code adds
floats. Amounts have either sign, as the parser of the code accepts a minus.

*Where a race is exempted.* Some of these components are right only for writers that do not
overlap, and the state says when they have: `raced` in `AccountingCorrections` (a request and
a specialist run that both read before either writes: the correction written first is lost),
`tangled` in `SearchIndex` (two refreshes of one document at once: neither deletes what the
other inserts), one entry in `PayWorkers` (two specialist tasks miss each other's original).
The properties then speak of the other behaviours, and these sentences are the statement of
what the code leaves open. `SemanticProjection` is serial: its rebuilds are one transaction each,
and what two at once do to one another's rows on the unique keys of the projections is not modelled.

*Consolidation over loaded lists.* `consolidate_topics` merges in memory, over topics it loaded
once, and flushes at the end. `_merge_topic_into` looks at the lists of the two topics: that of the
assignments grows as rows are appended and keeps rows already deleted, that of the proposals is never
changed. So a state of the loop (`Unmerged`, `MergeInto`) is the knowledge base that the end would
store, the rows deleted but still listed (`gone`), those of them a later merge has listed elsewhere
(`moved`, which the flush stores or not: either is a choice) and the pairs merged. What follows for
three similar topics, when one that has taken in another is merged itself: proposals that the first
merge moved are not in the list that the second reads (consolidation.py:795), so that an approved one
stays behind on a topic out of use, and a unit may lose its assignment as the double of a deleted
one. `chained` remembers the topics this happened to, for the properties only: `ApprovedTopicIsActive`
speaks of all other topics and `MergedTopicHandsOver` of all other requests. The titles decide which
topics are similar; here any two of the topics loaded may be, and one kept may be merged later, as the
groups of compatible classes and the weights allow. An archive of other documents' units, full or
empty, gives topics their weight.

*Regulations.* After classification `_consolidate_scan_semantics` turns a scan that reads like one
condominium regulation into a single unit under review, whatever the boundaries were
(`Segmentation!WholeRegulation`): `UnitsFollowDecisions` says so of these scans. Finalization does the same
to the units it finds (`TopicReview!Regulation`).

*Keys of the graph.* A node is found by a key that is normalised further than that of the entity
(accents, punctuation, forms of company: graph.py:471), and keeps the identity of the first entity
that mentions it (graph.py:333). `Forms` says which spellings the graph takes for one; of two entities
that share a node either may be the first, so `MentionsFindTheirEntity` promises the identity of the
entity itself or of one spelled alike, never a node without identity.

*Totals.* The code adds up every column "totale" or "totale ...", and takes each as the document
reports it, whatever its details say. `TotalsAddUp` is therefore about which columns an answer adds
up, the same for both periods: two columns that report one total are counted twice by the code, and
the property does not call that wrong.

*Simplified.* In `SearchIndex` the chunks of topics and a change of the embedding model are left
out, and only documents that are processed again change their text. In `AccountingAnswers` a period
is a pair of years. In `StatementExtraction` one row of one unit stands for a table, and in
`EvidenceLocatesAmount` signs and amounts of zero are left out. `AcceptedStatementIsRead` says that a
model is configured and accounts were found: the agent may have found none and the rules found them
after the model corrected the headers. In `ArchiveAgent` a call is a tool with all its parameters,
as the code compares them. In `Segmentation` page markers in the text are left out: what stands
before the first one belongs to no page, and their numbers are ignored.

## 6. Runs

| run | module | instance | shows |
|---|---|---|---|
| `tables` | `MCPipeline` | 1 document, one client, one ensurer, one OCR worker, two knowledge workers, a timeout, a crash, a pipeline failure and a retry: 590 thousand states | `PipelineTypeOK`; `NoOrphanRows`; `PendingHasMessage` |
| `handover` | `MCPipeline` | 2 documents with 2 versions, 2 clients, 2 OCR workers, 3 calls, an OCR failure: 560 thousand states | `ActiveJobIsDriven`; `SucceededJobHasResult`; `SubmittedVersionIsCovered`; `WaitingKnowledgeIsReleased`; `ResultsWithinProcesses` |
| `progress` | `MCPipeline` | 1 document with 2 versions, one process of each kind, a crash, a failure of each kind: 110 thousand states, with fairness | `CrashOrphansOneJob`; `ActiveJobEnds`; `WaitingKnowledgeEnds`; `SubmittedVersionGetsResult` |
| `finalization` | `MCTopicFinalization` | 2 units, 3 specialist jobs, 2 knowledge slots, one specialist worker, one handler, the scan processed twice, one retry of each kind, one call, failure or crash: 890 thousand states | `FinalTypeOK`; `ActiveSpecialistIsDriven`; `SucceededSpecialistHasResult`; `FinalizationIsDriven`; `JobsFollowLife` |
| `topics_progress` | `MCTopicFinalization` | one knowledge slot and one pipeline run with two calls, failures or crashes, with fairness: 180 thousand states | `UnitsGetTopics` |
| `records` | `MCRecords` | the eleven parts of section 5: 1.6 million states | see below |
| `duplicate_scan_unit` | `MCPipeline` | | refutes `OneScanUnitPerResult` |
| `stale_result` | `MCPipeline` | | refutes `NothingLeftOfDeletedJob` |
| `hidden_failure` | `MCPipeline` | | refutes `FailureShowsInJob` |
| `stranded_knowledge` | `MCPipeline` | | refutes `EnsuredKnowledgeIsOnItsWay` |
| `untopicked_units` | `MCTopicFinalization` | | refutes `QuietScanHasTopics` |
| `misread_units` | `Segmentation` | | refutes `UnitTextIsItsPages` |

*Why these bounds.* Every race the code has is between two processes, and each run has two of
the kind it is about: two handlers and two OCR tasks in `handover` (two documents, because the
drain gate looks at all of them), an OCR task, an ensurer and two knowledge tasks in `tables`.
Two versions are what `SubmittedVersionIsCovered` needs; three calls let a submission find,
or miss, the job of another while a reingest deletes it. In `handover` both OCR
tasks may find no result of a version and both store one, and the code then uses the latest:
`ResultsWithinProcesses` says that it stays at that, however often the version is asked for (three
messages for two processes). `OneScanUnitPerResult` has the consequence that two scan units make
`scalar_one_or_none` raise, and the models raise there too. Deadlock is not checked: when all
calls are made and all work is done the system stops, as it should.

*Fairness.* `FairSpec` gives weak fairness to each handler, each OCR worker and each knowledge
worker as a whole: a process that runs keeps running, and a free worker takes a message when
there is one (Celery polls). `Recovery` adds that time passes (`TimeoutElapses`) and that
somebody polls `GET /jobs` (`ReconcileAll`), which the front end does. Nothing obliges a
client to call, a run to fail, or a process to die. Under `RecoverySpec` an ingestion job ends
even after a crash; `WaitingKnowledgeEnds` exempts crashes, because nothing in the code
recovers a knowledge job whose task died, and `SubmittedVersionGetsResult` exempts crashes
and failed runs, because ingestion has no retry. `MaxTimeouts` in `progress` is as large as
the number of times a job can become active, so that the bound never stops time.

*The finalization's bounds.* Two slots are what the lock and the duplicate jobs need, two
pipeline runs what a unit needs to be replaced under its specialists, two messages of the scan
what the second run needs. `MaxTroubles` bounds the calls, failures and crashes of a behaviour
together: each alone, in every place, is in the run.

What the parts of `records` show:

| part | bounds | properties |
|---|---|---|
| payables | 3 units, 2 bills, 3 extractions: an original, a duplicate and a deletion between two projections | `OneReminderPerBill`: of the payables of one bill one at most has an event |
| upload | 3 uploads of 2 contents with or without an external id | `StoredFileMatchesVersion`: each committed version has its content in the store, although a failed commit leaves an object behind |
| review | 2 units, 3 topics, an archive that is empty or has all three (two of them with units of other scans), 3 decisions, 2 merges a consolidation | `AssignedScanIsReviewed`, `ApprovedTopicIsActive`, `MergedTopicHandsOver` |
| projections | 2 documents, 2 organisations that the graph spells alike, an address spelled like one of them, 4 changes | `EntityAnchoredOnce`, `ContextsMatchEntities`, `MentionsFindTheirEntity` |
| corrections | facts with and without a cell, 2 amounts, 2 corrections, 2 extractions | `CorrectionsAreKept`, `FactsMatchPayload`, `CorrectionsStayInTheirCell` |
| statement | 2 tables, 2 steps of the agent | `AcceptedStatementIsRead`, `EvidenceLocatesAmount` |
| segmentation | 3 pages, windows of 2 that overlap by 1, 2 attempts, 2 confidences; a regulation or not | `UnitsFollowDecisions`, `UncertainScansAreReviewed`, `LinesKeepTheirPage` |
| agent | 2 pages, a limit of each category reached in 2 steps after the automatic evidence (the total is not reached: it is the theorem that covers it) | `CitedPagesWereRead`, `EffortIsBounded` |
| index | a document processed twice, the index worker, 2 endpoint calls, a retry | `NoResidueOfReprocessing` |
| retrieval | every text of 12 letters and blanks in chunks of 6, two rankings of 3 over 4 pages | `ChunksCoverPage`, `NothingBetterLeftOut` |
| question | 2 tables, 2 years, a detail of 0 or 1, two columns of totals from -1 to 1, which need not agree with it | `TotalsAddUp` |

The chunks are six characters with an overlap of two where the code has 400 and 60: what a chunk
boundary meets (a blank in the second half, none, the end of the text within an overlap) all happens
in twelve characters, as `SplitAssumption` holds for both.

*Disagreements with the documentation.* The six refuted properties restate sentences of
`docs/` or docstrings; the findings in `PROJECT.json` quote them. Two messages of one job let
a success overwrite a failure; a running task outlives the reingest of its document; OCR task
and ensure create two scan units of one result, after which every later call for it raises;
a job ensured just before the OCR queue drains waits until somebody ingests something else;
the units of a scan processed again get no topics, because the finalization answers that it
has been done; and a document unit is classified by lines counted as if all pages had as many.

*Seen while modelling, and not a run.* The clean-up of inactive topics counts a topic as
deletable when only proposals already decided refer to it, and the foreign key then fails the
whole deletion (`CleanupDeletes` is that step). `merge_topic` keeps the heavier topic, so the
one the request names as target may be the one that goes. Deleting a payable that was the
original leaves its duplicates without an event until they are extracted again. Results that
specialists store after the finalization do not reopen the scan. Two jobs of one unit (two
handlers that ensure at once, or one and the pipeline's task) may store a result each, and
every later ensure for that scan then raises, the one in `process_scan_unit_task` included:
the exception `ResultStoredTwice` of section 4. Searches that were skipped
count as searches when the agent concludes that nothing was found.

*Not modelled.* Image processing and OCR engines, prompts, the regular expressions that read
bills and statements, embeddings, and topic retrieval's scores: inputs of the models, about
which no statement is made. The front end, the CLI and the scripts are callers of the
operations modelled (the back-fill of entities is an action). Job summaries only read.
Runtime settings are constants. The delay of a retry: retries come at any time.

## 7. Proofs

The theorems hold for all values of the constants that satisfy the assumptions of the modules.
Bounds are naturals, `NoDoc` is not a document, `NoTask` not a slot, `None` not a unit of a bill.
The sets of documents, handlers, slots and processes may be infinite; the units of a scan
(`ReviewAssumption`) and the spellings (`SpellingsAssumption`) are finite. `AgentAssumption`
numbers pages from 1. `BudgetAssumption` is what the automatic evidence relies on: the budget
pays for one search and for the pages read without the agent (the code has a total of 8, limits
3, 4, 2 and 1, and reads 3 pages). `SplitAssumption` asks that chunks overlap by less than half
(the code has 60 of 400), `SegmentationAssumption` that a scan has a page and that
confidences are percentages above 0, `WindowAssumption` that windows overlap by less than their size. `FuseAssumption` asks for a
limit of one result at least: the loop of the code looks at its limit after it has taken a result,
and every caller asks for one or more. `AnswerAssumption` has finitely many tables and categories, none
of them detail and total at once; `FormsAssumption` puts a spelling into one form at most.

Two theorems have a hypothesis of their own. `ResultsStayWithinProcesses` counts OCR processes, so
there are finitely many; nothing is assumed of their number (the `worker` service of
`docker-compose.yml` has as many as CPUs, and `worker_llm_vision` comes on top).
`BillsAreRemindedOnce` has one specialist task at a time, the default of that worker's
`--concurrency`; with two the property fails. Where a property names an exception (`raced`,
`tangled`, `chained`, crashes), the theorem has the same one.

| theorem | says |
|---|---|
| `PipelineProofs!TypeCorrect` | `Spec => []PipelineTypeOK` |
| `PipelineProofs!ActiveJobsAreDriven` | `Spec => []ActiveJobIsDriven` |
| `PipelineProofs!CrashesOrphanOneJobEach` | `Spec => []CrashOrphansOneJob` |
| `ResultProofs!SucceededJobsHaveResults` | `Spec => []SucceededJobHasResult` |
| `ResultProofs!SubmittedVersionsAreCovered` | `Spec => []SubmittedVersionIsCovered` |
| `ResultProofs!ResultsStayWithinProcesses` | `Spec => []ResultsWithinProcesses`, for finitely many processes |
| `KnowledgeProofs!RowsAreNoOrphans` | `Spec => []NoOrphanRows` |
| `KnowledgeProofs!WaitingKnowledgeReleased` | `Spec => []WaitingKnowledgeIsReleased` |
| `KnowledgeProofs!PendingJobsHaveMessages` | `Spec => []PendingHasMessage` |
| `FinalizationProofs!FinalTypeCorrect` | `Spec => []FinalTypeOK` |
| `FinalizationProofs!FinalizationsAreDriven` | `Spec => []FinalizationIsDriven` |
| `SpecialistProofs!JobsLiveAsPromised` | `Spec => JobsFollowLife`: `TopicFinalization` implements `JobLife` |
| `SpecialistProofs!SucceededSpecialistsHaveResults` | `Spec => []SucceededSpecialistHasResult` |
| `SpecialistProofs!ActiveSpecialistsAreDriven` | `Spec => []ActiveSpecialistIsDriven` |
| `RecordProofs!StoredFilesMatchVersions` | `UpSpec => []StoredFileMatchesVersion` |
| `RecordProofs!BillsAreRemindedOnce` | `PaySpec => []OneReminderPerBill`, for one task at a time |
| `RecordProofs!SettledDocumentsHaveNoResidue` | `IndexSpec => []NoResidueOfReprocessing` |
| `RecordProofs!AcceptedStatementsAreRead` | `StmtSpec => []AcceptedStatementIsRead` |
| `RecordProofs!FactsAreLocated` | `StmtSpec => []EvidenceLocatesAmount` |
| `RecordProofs!UnitsKeepToDecisions` | `SegSpec => []UnitsFollowDecisions` |
| `RecordProofs!UncertaintyIsReviewed` | `SegSpec => []UncertainScansAreReviewed` |
| `RecordProofs!LinesStayOnTheirPage` | `SegSpec => []LinesKeepTheirPage` |
| `RecordProofs!AnswersCiteReadPages` | `AgentSpec => []CitedPagesWereRead` |
| `RecordProofs!EffortsAreBounded` | `AgentSpec => []EffortIsBounded` |
| `RecordProofs!AcknowledgedCorrectionsStay` | `AccSpec => []CorrectionsAreKept` |
| `RecordProofs!FactsAreOfThePayload` | `AccSpec => []FactsMatchPayload` |
| `RecordProofs!CorrectedFactsAreTheirs` | `AccSpec => []CorrectionsStayInTheirCell` |
| `RecordProofs!AnswersAddUp` | `QuestionSpec => []TotalsAddUp` |
| `ReviewProofs!AssignedScansAreReviewed` | `ReviewSpec => []AssignedScanIsReviewed` |
| `ReviewProofs!ApprovedTopicsStayActive` | `ReviewSpec => ApprovedTopicIsActive`, an action property |
| `ReviewProofs!MergedTopicsHandOver` | `ReviewSpec => MergedTopicHandsOver`, an action property |
| `ReviewProofs!EntitiesAnchorOneContext` | `ProjSpec => []EntityAnchoredOnce` |
| `ReviewProofs!ContextsFollowEntities` | `ProjSpec => []ContextsMatchEntities` |
| `ReviewProofs!MentionsReachTheirEntity` | `ProjSpec => []MentionsFindTheirEntity` |
| `ReviewProofs!ChunksCoverTheirPage` | `SearchSpec => []ChunksCoverPage` |
| `ReviewProofs!NothingBetterIsLeftOut` | `SearchSpec => []NothingBetterLeftOut` |

### The ingestion pipeline

*Typing.* `PipelineTypeOK` is not inductive: a message could name a job never inserted, whose
document is not a document, and a task that reads it would leave its type. `Held` adds that
jobs beyond `lastJob` are absent and without messages, and that handlers and tasks hold jobs
that were inserted. `Typed` is the conjunction, with one lemma per group of actions.

*Active jobs.* Given `Typed`, `ActiveJobIsDriven` is inductive by itself. The argument: a step
that takes a driver away (a message received, a task that ends) either puts another in its
place or takes the job out of the active statuses. With crashes the same lemmas count:
`OrphanJobs`, the active jobs without a driver, gains at most the one job that the dying process
held, and no other step adds to it, so that its cardinality stays within `crashes`.

*Results.* `Grounded` adds that rows not inserted have no document, that nobody submits a
version that was not uploaded, and that a handler dispatches a job of its own document.
`SucceededJobHasResult` needs that a task about to mark its job has the job's result
(`MarkedHasResult`), unless the job is gone: reingest deletes both.
`SubmittedVersionIsCovered` is inductive on top of `Grounded`; its core is that a message for a
job becomes a task that has not read the version yet, so that whatever was submitted before
is read. `ResultsWithinProcesses` is not inductive: the tasks about to store a result of the
version count too (`WithinProcesses`). A task joins them only while there is no result, when they
are processes and nothing else is counted; a store turns one of them into a result.

*Knowledge.* `NoOrphanRows` rests on `Committable`, what the foreign keys check at the commit,
and on `Fresh`. `WaitingKnowledgeIsReleased` is not inductive: a task about to release its jobs
releases none of them when reingest has deleted one. `Relieved` therefore counts a release only
while all its jobs are there; a reingest that takes one brings a submission with it, whose task
drains again. `PendingHasMessage` needs `KnowledgeRows` (a row is there or it is not, and in
order), `Planned` (what a handler or task decided before its commit is about rows that exist or
are gone, never about the job of another scan unit) and `Holders` (who holds a scan unit is at the
place where it sends the message or writes the status).

### Specialists and finalization

*Typing.* `FinalTypeOK` needs two facts besides (`Typed`). `JobsHaveUnits`: a job that is there
has a unit; the unit of a new job is chosen by its rank in the plan, and `RankExists` shows by
the pigeonhole principle that a finite set of naturals has an element of each rank.
`RunsAreCounted`: the runs committed and those under way are within the bound, which keeps the
last commit inside it.

*The refinement.* That no step brings back a job that succeeded is not a property of the job
table alone: a late message would do it. `Placed` says that it cannot be late. A job that is not
inserted is nowhere (`Unborn`); an idle process has no job (`IdleHasNone`); a job is in one place
only, a message, the list of a handler, the list of a task or a process (`OnePlace`); and what
that place holds fits the status of its row (`RowFits`: a message to be received belongs to
a job that is queued or failed and to be retried, a process at "mark" to a job processing, or the row
is gone). Each action moves a job from one place to the next. The replay makes a new row, so that
it does not break this. Given `Placed`, each step of the system is a step of `JobLife` or
leaves its state.

*Results.* `WorkHasResult`: a process about to mark its job has the unit's result, unless the
unit, and with it the job, is gone. *Active jobs.* `SendersSend`: a handler or a task
with a list is at the place where it sends it. A step that removes a driver puts the next in its
place, as above.

*Finalizations.* `Ordered` is about the advisory lock: who runs a finalization holds the lock and
nobody else does (`OneAtATime`), rows are inserted in order, and a finalization that is about to let
the lock go without sending another message has left a row that says it has ended
(`LeaverHasEnded`), which nobody else can overwrite because writing needs the lock.
`UnitsAreAttended` names who brings the next finalization; a message that is dropped at the lock
leaves the one who holds it, and a scan task whose units are deleted under it leaves the one that
deleted them, who comes to its own notification later.

### The records

*Loops.* The prover has no induction here that takes a predicate as a parameter. `DataLemmas`
replaces it: a non-empty set of naturals has a least element (`LeastExists`), so that a set which
has 0 and with each k its successor has all naturals up to n (`UpTo`), and what holds of the empty
set and survives one more element holds of every finite set (`SubsetInduction`). `RecursionExists`
gives, by the same argument, the recursive function of a loop as a function into the set that a
round keeps. Each loop of the models is then reasoned about by what holds after every prefix of its rows.

*Uploads* (`UpInv`). `NextVersion`: an upload that has written its rows holds the version after the
latest committed one. `OneWriter`: the unique key on document and version lets only one upload past its rows.
`FilePut`: before its commit the file is in the store, and by the first two no other upload has
replaced it.

*Payables* (`PayInv`). Every payable is in the order of the rows (`FiledInOrder`), only one that is
no duplicate has a reminder, and a task that found no original meets no reminder of its bill when it
writes (`NoOtherReminder`), which is where one worker is needed.

*Search index* (`IndexInv`). A document that is settled has current rows (`SettledIsCurrent`). A run
that is alone with a document holds its current chunks, and before it inserts knows every row it
has to replace (`RunIsCurrent`); two runs with a document in common know it (`OverlapNoted`).

*Statements.* `StmtInv` ties the outcome to the end of the extraction, and `Confidence` to the cap
of what no model has read. `EvidenceInv` gives every fact the cell that it names: an extraction reads
its facts from cells, a merge keeps one of two located facts (`MergedStay`), and a corrected
header relabels cells and facts in the same step (`RelabelledStay`).

*Segmentation.* `SegInv` says what each stage has made of the decisions: none twice for a pair of
pages, no units before the segments, units that are runs from one cut to the next; and that an unsure
decision or type has set the review flag, which no later step clears. `OcrInv` says what the OCR
result can be: pages with sizes, whose borders are sums (`PagedLines`), or a text whose lines are divided
evenly (`EvenLines`). A line is then between two borders, and only two (`OneBetween`).

*Archive agent.* `AgentInv`: a step that shows a page with text and no error ran, on that page
(`Honest`), and what passes the validation cites only such pages (`Cited`). `EffortInv`: the budget
has paid for what the trace used and is within the limits (`Paid`). The loop is opened with a budget
computed from the trace of the preparation, not counted along with it, so the invariant first
bounds that trace (`Prepared`: one search and a reading per block) and then shows by the recursion of
`BudgetFromTrace` that the computed budget pays for it (`PreparedIsPaid`). `Remembered` says that the
calls made are known, hence none succeeds twice (`EachOnce`).

*Corrections* (`AccInv`). The stored result, and what a request or the worker has read of it, are
coherent: a reviewed fact has a correction that names its cell or none (`InTheirCell`). What has
been read is the stored result or an older version of it (`ReadBefore`); a store over a newer one
sets `raced`. Reapplying the log keeps its order and its anchors, and the facts are projected anew
from the payload stored with them.

*Review* (`ReviewInv`). A scan shown as assigned has nothing open, in tables that keep their shape. A
finalization decides and groups the units one after the other, so what it leaves behind is shown for
every prefix of the order. The two properties about topics are of single steps, and the step that is
hard is the consolidation. `MergeInv` holds after any number of its merges, for any number of topics:
the proposals are where the loaded lists take them, on a topic in use or one that is `chained`; and
as long as nothing is chained, every topic kept is in use (`Winners`), a row deleted but listed has
another one in its place (`Replaced`), and the units of the loaded topics are filed under topics in
use (`UnitsFollow`). `HandsOver` is what a step promises of a topic it takes out of use.

*Projections* (`ProjInv`). The groups partition the eligible entities after every entity that joins,
each of them with one organisation at most, because organisations come first and an address joins
(`Anchored`, `ContextsOf`). For the graph, projecting a unit gives its entities nodes with an identity
of their spelling (`Reaches`) and takes none away from the units before it.

*Chunks* (`ChunksOf`). Each chunk starts where the one before it says and, after k rounds, what comes
before the end of the last chunk is in one of them. The core is `EndsAreFurther`: a cut at a space
leaves at least half a chunk, which is more than the overlap, so the next chunk ends later. A
start grows by one at least in each round, so that as many rounds as the text has letters reach its
end (`SplitReachesEnd`).

*Fusion* (`FusionInv`, `ChosenFrom`). Three facts carry it. The scores, with document and page for
ties, put what is found in a total order (`FoundIsOrdered`). In a finite total order, counting what
lies below gives every element a place of its own and fills all places (`PlacesFilled`, by the
pigeonhole principle), so the sort leaves nothing out and repeats nothing (`OrderedIsSorted`). And
`ChosenFrom`, the invariant of the loop: of the first k candidates, each is among the results or
lost to results ranked above it that fill the list or the share of its document. One more
candidate keeps this (`TakeKeeps`), because a result taken later is never ranked above an
earlier candidate.

*Answers* (`QuestionInv`). An answer is the one to its question (`AnswerTo`), and `TotalsAddUp` is a
fact about that operator. `DataLemmas` shows what a sum over a finite set is, since the library
does not: it can be taken in any order (`SummedInAnyOrder`), leaves out what counts for nothing
(`SumWithoutZeros`) and may be taken by rows or by columns (`SumsExchange`). When a column of
totals comes to something in either period it is shown, and the totals are the sums of the columns
shown; otherwise those of the details shown. The columns left out count for nothing in both periods,
and the sum by category is the sum by row.

### Only model-checked

Liveness (`ActiveJobEnds`, `WaitingKnowledgeEnds`, `SubmittedVersionGetsResult`,
`UnitsGetTopics`) is out of the prover's reach. The refuted properties have no theorem, of course.
