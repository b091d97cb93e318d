---------------------------- MODULE IngestionJobs ----------------------------
(***************************************************************************)
(* The ingestion half of the HTTP API: documents and their versions, the   *)
(* ingestion_jobs and ocr_results tables, the Celery queue of              *)
(* process_ingestion_job, and the request handlers that create, find,      *)
(* reconcile and dispatch ingestion jobs.                                  *)
(*                                                                         *)
(* A handler is a sequence of database transactions and broker calls.      *)
(* Each of them is one action here, so that everything another handler or  *)
(* a worker can do between two of them is a behaviour of the model.        *)
(* Row identifiers are naturals handed out in creation order; a deleted    *)
(* row keeps its identifier, which is never reused.                        *)
(***************************************************************************)
EXTENDS Naturals

CONSTANTS
  Docs,         \* the documents of the archive
  NoDoc,        \* marks a row that does not exist
  Clients,      \* request handlers (threads of one or more API processes)
  MaxVersion,   \* bound: versions uploaded per document
  MaxJobs,      \* bound: rows ever inserted in ingestion_jobs
  MaxResults,   \* bound: rows ever inserted in ocr_results
  MaxCalls,     \* bound: calls served by Clients
  MaxTimeouts,  \* bound: jobs that outlive their timeout
  MaxCrashes    \* bound: handlers and tasks that die half way

ASSUME IngestionAssumption ==
  /\ NoDoc \notin Docs
  /\ MaxVersion \in Nat /\ MaxJobs \in Nat /\ MaxResults \in Nat
  /\ MaxCalls \in Nat /\ MaxTimeouts \in Nat /\ MaxCrashes \in Nat

VARIABLES
  version,    \* document -> number of its latest committed version (0: none)
  submitted,  \* document -> version the last accepted submission asked for
  jobDoc,     \* ingestion job -> its document (kept when the row is deleted: a
              \* worker may still hold the row in memory)
  jobStatus,  \* ingestion job -> status column ("absent": no such row)
  overdue,    \* active jobs older than the running or the queued timeout
  lastJob,    \* ingestion jobs inserted so far
  queue,      \* ingestion job -> process_ingestion_job messages in the broker
  result,     \* OCR result -> the row (doc = NoDoc: no such row)
  lastResult, \* OCR results inserted so far
  api,        \* request handler -> where it is
  calls, timeouts, crashes   \* uses made of the bounds

jobVars == <<jobDoc, jobStatus, overdue, lastJob>>
boundVars == <<calls, timeouts, crashes>>
ingestVars == <<version, submitted, jobVars, queue, result, lastResult, api, boundVars>>

JobIds == 1..MaxJobs
ResultIds == 1..MaxResults
ActiveStatuses == {"queued", "running"}
JobStatuses == ActiveStatuses \cup {"succeeded", "failed", "absent"}
Results == [doc: Docs \cup {NoDoc}, ver: 0..MaxVersion, job: 0..MaxJobs]
NoResult == [doc |-> NoDoc, ver |-> 0, job |-> 0]
ClientStates == [pc: {"idle", "check", "find", "insert", "dispatch"},
                 doc: Docs \cup {NoDoc}, job: 0..MaxJobs]
IdleClient == [pc |-> "idle", doc |-> NoDoc, job |-> 0]

IngestTypeOK ==
  /\ version \in [Docs -> 0..MaxVersion]
  /\ submitted \in [Docs -> 0..MaxVersion]
  /\ jobDoc \in [JobIds -> Docs \cup {NoDoc}]
  /\ jobStatus \in [JobIds -> JobStatuses]
  /\ overdue \subseteq JobIds
  /\ lastJob \in 0..MaxJobs
  /\ queue \in [JobIds -> Nat]
  /\ result \in [ResultIds -> Results]
  /\ lastResult \in 0..MaxResults
  /\ api \in [Clients -> ClientStates]
  /\ calls \in 0..MaxCalls
  /\ timeouts \in 0..MaxTimeouts
  /\ crashes \in 0..MaxCrashes

IngestInit ==
  /\ version = [d \in Docs |-> 0]
  /\ submitted = [d \in Docs |-> 0]
  /\ jobDoc = [j \in JobIds |-> NoDoc]
  /\ jobStatus = [j \in JobIds |-> "absent"]
  /\ overdue = {}
  /\ lastJob = 0
  /\ queue = [j \in JobIds |-> 0]
  /\ result = [r \in ResultIds |-> NoResult]
  /\ lastResult = 0
  /\ api = [c \in Clients |-> IdleClient]
  /\ calls = 0
  /\ timeouts = 0
  /\ crashes = 0

-----------------------------------------------------------------------------
(* Queries over the tables. *)

Active(j) == jobStatus[j] \in ActiveStatuses

\* has_active_ingestion_jobs: any queued or running job, of any document.
HasActiveIngestion == \E j \in JobIds : Active(j)

\* find_active_ingest_job: the query has no ORDER BY, any row may come first.
ActiveJobsOf(d) == {j \in JobIds : jobDoc[j] = d /\ Active(j)}

\* Mutant of Reconciled: a status that no reader of the table knows.
ReconciledAsStale(S) ==
  [j \in JobIds |-> IF j \in S \cap overdue /\ Active(j) THEN "stale" ELSE jobStatus[j]]

\* Mutant of Reconciled: the queued timeout is forgotten.
ReconciledRunning(S) ==
  [j \in JobIds |-> IF j \in S \cap overdue /\ jobStatus[j] = "running" THEN "failed"
                   ELSE jobStatus[j]]

\* reconcile_stale_jobs restricted to the jobs in S: the statuses it leaves.
Reconciled(S) ==
  [j \in JobIds |-> IF j \in S \cap overdue /\ Active(j) THEN "failed" ELSE jobStatus[j]]

-----------------------------------------------------------------------------
(* create_ingest_job and the dispatch that follows it in every handler. *)

\* A handler starts create_ingest_job for document d.
BeginSubmission(c, d) == api' = [api EXCEPT ![c] = [pc |-> "check", doc |-> d, job |-> 0]]

AcceptCall(c) ==
  /\ api[c].pc = "idle"
  /\ calls < MaxCalls
  /\ calls' = calls + 1

\* POST /documents/upload whose content is new: save_upload commits the next
\* version of d; without auto_submit the handler ends there.
Upload(c, d) ==
  /\ AcceptCall(c)
  /\ version[d] < MaxVersion
  /\ version' = [version EXCEPT ![d] = @ + 1]
  /\ \/ /\ BeginSubmission(c, d)
        /\ submitted' = [submitted EXCEPT ![d] = version[d] + 1]
     \/ UNCHANGED <<api, submitted>>
  /\ UNCHANGED <<jobVars, queue, result, lastResult, timeouts, crashes>>

\* POST /jobs/ingest, and an upload answered "deduplicated".
Submit(c, d) ==
  /\ AcceptCall(c)
  /\ version[d] > 0
  /\ BeginSubmission(c, d)
  /\ submitted' = [submitted EXCEPT ![d] = version[d]]
  /\ UNCHANGED <<version, jobVars, queue, result, lastResult, timeouts, crashes>>

\* POST /jobs/ingestion/{id}/replay of a failed job whose document has no
\* active job (the other answers of the handler change nothing).
ReplayIngestion(c, j) ==
  /\ AcceptCall(c)
  /\ jobStatus[j] = "failed"
  /\ ActiveJobsOf(jobDoc[j]) = {}
  /\ BeginSubmission(c, jobDoc[j])
  /\ submitted' = [submitted EXCEPT ![jobDoc[j]] = version[jobDoc[j]]]
  /\ UNCHANGED <<version, jobVars, queue, result, lastResult, timeouts, crashes>>

\* create_ingest_job: the document's stale jobs are failed first ...
ReconcileOwn(c) ==
  /\ api[c].pc = "check"
  /\ \E j \in overdue : jobDoc[j] = api[c].doc /\ Active(j)
  /\ jobStatus' = Reconciled({j \in JobIds : jobDoc[j] = api[c].doc})
  /\ api' = [api EXCEPT ![c].pc = "find"]
  /\ UNCHANGED <<version, submitted, jobDoc, overdue, lastJob, queue, result,
                 lastResult, boundVars>>

\* ... then an active one is looked for (at once when none was stale). The rows
\* are not locked and no constraint makes an active job unique.
FindActiveJob(c) ==
  LET d == api[c].doc
  IN  /\ api[c].pc \in {"check", "find"}
      /\ api[c].pc = "check" => \A j \in overdue : ~(jobDoc[j] = d /\ Active(j))
      /\ \/ \E j \in ActiveJobsOf(d) :
              api' = [api EXCEPT ![c].pc = "dispatch", ![c].job = j]
         \/ ActiveJobsOf(d) = {} /\ api' = [api EXCEPT ![c].pc = "insert"]
      /\ UNCHANGED <<version, submitted, jobVars, queue, result, lastResult, boundVars>>

\* ... and, if there was none, a queued job is inserted and committed.
InsertJob(c) ==
  LET j == lastJob + 1
  IN  /\ api[c].pc = "insert"
      /\ lastJob < MaxJobs
      /\ lastJob' = j
      /\ jobDoc' = [jobDoc EXCEPT ![j] = api[c].doc]
      /\ jobStatus' = [jobStatus EXCEPT ![j] = "queued"]
      /\ api' = [api EXCEPT ![c].pc = "dispatch", ![c].job = j]
      /\ UNCHANGED <<version, submitted, overdue, queue, result, lastResult, boundVars>>

\* Mutant of DispatchJob: a job that is already running is not sent again.
DispatchUnlessRunning(c) ==
  /\ api[c].pc = "dispatch"
  /\ queue' = IF jobStatus[api[c].job] = "running" THEN queue
              ELSE [queue EXCEPT ![api[c].job] = @ + 1]
  /\ api' = [api EXCEPT ![c] = IdleClient]
  /\ UNCHANGED <<version, submitted, jobVars, result, lastResult, boundVars>>

\* dispatch_ingestion_job: sent even when the job was already active, so one
\* job may have several messages.
DispatchJob(c) ==
  /\ api[c].pc = "dispatch"
  /\ queue' = [queue EXCEPT ![api[c].job] = @ + 1]
  /\ api' = [api EXCEPT ![c] = IdleClient]
  /\ UNCHANGED <<version, submitted, jobVars, result, lastResult, boundVars>>

\* The API process dies, or the broker refuses the message: the handler ends
\* where it is and what it committed stays.
ClientCrash(c) ==
  /\ api[c].pc # "idle"
  /\ crashes < MaxCrashes
  /\ crashes' = crashes + 1
  /\ api' = [api EXCEPT ![c] = IdleClient]
  /\ UNCHANGED <<version, submitted, jobVars, queue, result, lastResult, calls, timeouts>>

-----------------------------------------------------------------------------
(* Time and reconciliation. *)

\* An active job outlives ingestion_job_running_timeout_seconds (6 hours since
\* started_at) or ingestion_job_queued_timeout_seconds (24 hours).
TimeoutElapses(j) ==
  /\ Active(j)
  /\ j \notin overdue
  /\ timeouts < MaxTimeouts
  /\ timeouts' = timeouts + 1
  /\ overdue' = overdue \cup {j}
  /\ UNCHANGED <<version, submitted, jobDoc, jobStatus, lastJob, queue, result,
                 lastResult, api, calls, crashes>>

\* GET /jobs, GET /jobs/{id} and API start-up: reconcile_stale_jobs() over the
\* whole table. Nothing else happens: knowledge waiting for OCR is not released.
ReconcileAll ==
  /\ \E j \in overdue : Active(j)
  /\ jobStatus' = Reconciled(JobIds)
  /\ UNCHANGED <<version, submitted, jobDoc, overdue, lastJob, queue, result,
                 lastResult, api, boundVars>>
=============================================================================
