--------------------------- MODULE KnowledgeQueue ---------------------------
(***************************************************************************)
(* The hand-over from OCR to knowledge: scan_units and their               *)
(* full_processing knowledge_jobs, the Celery queue of                     *)
(* process_scan_unit_task, the functions of common/application/knowledge   *)
(* that both the OCR worker and the API call, and the API handlers that    *)
(* ensure or replay the knowledge of a document.                           *)
(*                                                                         *)
(* A knowledge job is "queued" while it waits for the OCR queue to drain   *)
(* and "pending" once a message for its scan unit is on its way.           *)
(***************************************************************************)
EXTENDS IngestionJobs

CONSTANTS
  Ensurers,      \* request handlers of the knowledge router
  MaxScans,      \* bound: rows ever inserted in scan_units
  MaxKJobs,      \* bound: full_processing rows ever inserted in knowledge_jobs
  MaxKCalls,     \* bound: calls served by Ensurers
  MaxRetries     \* max_retries of process_scan_unit_task

ASSUME KnowledgeAssumption ==
  MaxScans \in Nat /\ MaxKJobs \in Nat /\ MaxKCalls \in Nat /\ MaxRetries \in Nat

VARIABLES
  scanOf,    \* scan unit -> its OCR result (0: no such row)
  lastScan,  \* scan units inserted so far
  kScan,     \* knowledge job -> its scan unit (0: no such row)
  kStatus,   \* knowledge job -> status column
  lastKJob,  \* knowledge jobs inserted so far
  kqueue,    \* <<scan unit, retries>> -> messages in the broker, ETA ones included
  ensurer,   \* request handler -> where it is
  kcalls     \* calls served by Ensurers so far

tableVars == <<scanOf, lastScan, kScan, kStatus, lastKJob>>
knowledgeVars == <<tableVars, kqueue, ensurer, kcalls>>

ScanIds == 1..MaxScans
KJobIds == 1..MaxKJobs
KMessages == ScanIds \X (0..MaxRetries)
KStatuses == {"queued", "pending", "processing", "succeeded", "failed", "absent"}
Writes == {"new_scan", "new_job", "requeue", "nothing"}
Plans == [scan: 0..MaxScans, kjob: 0..MaxKJobs, write: Writes]
NoPlan == [scan |-> 0, kjob |-> 0, write |-> "nothing"]
EnsurerStates == [pc: {"idle", "wait", "release", "replay", "send"},
                  res: 0..MaxResults, plan: Plans, send: 0..MaxScans]
IdleEnsurer == [pc |-> "idle", res |-> 0, plan |-> NoPlan, send |-> 0]

KnowledgeTypeOK ==
  /\ scanOf \in [ScanIds -> 0..MaxResults]
  /\ lastScan \in 0..MaxScans
  /\ kScan \in [KJobIds -> 0..MaxScans]
  /\ kStatus \in [KJobIds -> KStatuses]
  /\ lastKJob \in 0..MaxKJobs
  /\ kqueue \in [KMessages -> Nat]
  /\ ensurer \in [Ensurers -> EnsurerStates]
  /\ kcalls \in 0..MaxKCalls

KnowledgeInit ==
  /\ scanOf = [s \in ScanIds |-> 0]
  /\ lastScan = 0
  /\ kScan = [k \in KJobIds |-> 0]
  /\ kStatus = [k \in KJobIds |-> "absent"]
  /\ lastKJob = 0
  /\ kqueue = [m \in KMessages |-> 0]
  /\ ensurer = [e \in Ensurers |-> IdleEnsurer]
  /\ kcalls = 0

-----------------------------------------------------------------------------
(* Queries over the tables. *)

LiveResults == {r \in ResultIds : result[r].doc # NoDoc}
ScansOf(r) == {s \in ScanIds : scanOf[s] = r}

\* ORDER BY created_at DESC LIMIT 1: k is the newest job of scan unit s, or 0
\* when s has none.
IsNewestJob(k, s) ==
  /\ k # 0 => kScan[k] = s
  /\ \A m \in KJobIds : kScan[m] = s => m <= k

\* get_dispatchable_knowledge_scan_unit_ids followed, for every scan unit found,
\* by the test in mark_knowledge_job_pending_dispatch. (The scan unit the caller
\* adds to the list passes that test only if it is in the list already.)
Dispatchable ==
  {k \in KJobIds : kScan[k] # 0 /\ kStatus[k] = "queued" /\ IsNewestJob(k, kScan[k])}

SendScan(s, retries) == kqueue' = [kqueue EXCEPT ![<<s, retries>>] = @ + 1]

-----------------------------------------------------------------------------
(* ensure_scan_unit_for_ocr_result: what it reads and what it then writes. *)

\* The decision taken from the newest job k of scan unit s.
WriteFor(k) ==
  IF k = 0 THEN "new_job"
  ELSE IF kStatus[k] = "failed" THEN "new_job"
  ELSE IF kStatus[k] = "pending" THEN "requeue"
  ELSE "nothing"

\* p is what the function decides for OCR result r; two scan units of one result
\* make scalar_one_or_none raise, and there is no decision.
IsPlan(p, r) ==
  \/ ScansOf(r) = {} /\ p = [scan |-> 0, kjob |-> 0, write |-> "new_scan"]
  \/ /\ ScansOf(r) = {p.scan}
     /\ IsNewestJob(p.kjob, p.scan)
     /\ p.write = WriteFor(p.kjob)

ShouldDispatch(p) == p.write # "nothing"

\* Mutant of Committable: the OCR result may be gone.
CommittableAnyway(p, r) ==
  /\ p.write = "new_job" => scanOf[p.scan] # 0
  /\ p.write = "requeue" => kScan[p.kjob] # 0

\* The rows the decision refers to are still there: no foreign key error on
\* INSERT, no StaleDataError on UPDATE.
Committable(p, r) ==
  /\ p.write = "new_scan" => r \in LiveResults
  /\ p.write = "new_job" => scanOf[p.scan] # 0
  /\ p.write = "requeue" => kScan[p.kjob] # 0

\* The scan unit the committed decision is about.
PlanScan(p) == IF p.write = "new_scan" THEN lastScan + 1 ELSE p.scan

\* The commit, with the status the caller gives the job.
ApplyPlan(p, r, status) ==
  /\ IF p.write = "new_scan"
     THEN /\ lastScan < MaxScans
          /\ lastScan' = lastScan + 1
          /\ scanOf' = [scanOf EXCEPT ![lastScan + 1] = r]
     ELSE UNCHANGED <<lastScan, scanOf>>
  /\ IF p.write \in {"new_scan", "new_job"}
     THEN /\ lastKJob < MaxKJobs
          /\ lastKJob' = lastKJob + 1
          /\ kScan' = [kScan EXCEPT ![lastKJob + 1] = PlanScan(p)]
          /\ kStatus' = [kStatus EXCEPT ![lastKJob + 1] = status]
     ELSE /\ UNCHANGED <<lastKJob, kScan>>
          /\ IF p.write = "requeue"
             THEN kStatus' = [kStatus EXCEPT ![p.kjob] = status]
             ELSE UNCHANGED kStatus

-----------------------------------------------------------------------------
(* Handlers of the knowledge router, and the knowledge branch of replay. *)

AcceptKCall(e) ==
  /\ ensurer[e].pc = "idle"
  /\ kcalls < MaxKCalls
  /\ kcalls' = kcalls + 1

\* POST /scan-units/from-ocr/{id} and POST /documents/{id}/ensure up to the
\* commit: the decision is flushed but no other transaction sees it yet, and the
\* OCR queue is looked at now.
EnsureKnowledge(e, r) ==
  /\ AcceptKCall(e)
  /\ r \in LiveResults
  /\ \E p \in Plans :
       /\ IsPlan(p, r)
       /\ ensurer' = [ensurer EXCEPT ![e] =
            [pc |-> IF ShouldDispatch(p) /\ ~HasActiveIngestion THEN "release" ELSE "wait",
             res |-> r, plan |-> p, send |-> 0]]
  /\ UNCHANGED <<tableVars, kqueue>>

\* POST /jobs/knowledge/{id}/replay of a failed job whose scan unit has no job
\* queued, pending or processing: a new job is flushed for it.
ReplayKnowledge(e, k) ==
  /\ AcceptKCall(e)
  /\ kStatus[k] = "failed"
  /\ \A m \in KJobIds : kScan[m] = kScan[k] => kStatus[m] \in {"succeeded", "failed"}
  /\ ensurer' = [ensurer EXCEPT ![e] =
       [pc |-> "replay", res |-> 0, send |-> 0,
        plan |-> [scan |-> kScan[k], kjob |-> 0, write |-> "new_job"]]]
  /\ UNCHANGED <<tableVars, kqueue>>

\* The commit. A handler that found the OCR queue empty leaves the job pending
\* and goes on to dispatch; a replay goes on to dispatch whatever OCR is doing.
EnsureCommit(e) ==
  LET h == ensurer[e]
  IN  /\ h.pc \in {"wait", "release", "replay"}
      /\ \/ /\ Committable(h.plan, h.res)
            /\ ApplyPlan(h.plan, h.res, IF h.pc = "release" THEN "pending" ELSE "queued")
            /\ ensurer' = [ensurer EXCEPT ![e] =
                 IF h.pc = "wait" THEN IdleEnsurer
                 ELSE [IdleEnsurer EXCEPT !.pc = "send", !.send = PlanScan(h.plan)]]
         \/ /\ ~Committable(h.plan, h.res)
            /\ ensurer' = [ensurer EXCEPT ![e] = IdleEnsurer]
            /\ UNCHANGED tableVars
      /\ UNCHANGED <<kqueue, kcalls>>

\* dispatch_scan_unit_processing.
EnsureSend(e) ==
  /\ ensurer[e].pc = "send"
  /\ SendScan(ensurer[e].send, 0)
  /\ ensurer' = [ensurer EXCEPT ![e] = IdleEnsurer]
  /\ UNCHANGED <<tableVars, kcalls>>

\* The API process dies, or the broker refuses the message: what was only flushed
\* is rolled back, what was committed stays.
EnsurerCrash(e) ==
  /\ ensurer[e].pc # "idle"
  /\ crashes < MaxCrashes
  /\ crashes' = crashes + 1
  /\ ensurer' = [ensurer EXCEPT ![e] = IdleEnsurer]
  /\ UNCHANGED <<version, submitted, jobVars, queue, result, lastResult, api, calls, timeouts,
                 tableVars, kqueue, kcalls>>

-----------------------------------------------------------------------------
(* POST /documents/{id}/reingest. *)

\* Mutant of DeletedJobs: a job that is running is spared.
IdleJobs(d) == {j \in JobIds : jobDoc[j] = d /\ jobStatus[j] # "running"}

DeletedJobs(d) == {j \in JobIds : jobDoc[j] = d}

\* One transaction deletes the document's OCR results, what the database hangs
\* from them (scan units and knowledge jobs, ON DELETE CASCADE) and its ingestion
\* jobs; the handler then goes through create_ingest_job and dispatch. Messages
\* and workers already under way are left alone.
Reingest(c, d) ==
  LET gone == {s \in ScanIds : scanOf[s] # 0 /\ result[scanOf[s]].doc = d}
  IN  /\ AcceptCall(c)
      /\ version[d] > 0
      /\ BeginSubmission(c, d)
      /\ submitted' = [submitted EXCEPT ![d] = version[d]]
      /\ result' = [r \in ResultIds |-> IF result[r].doc = d THEN NoResult ELSE result[r]]
      /\ jobStatus' = [j \in JobIds |-> IF j \in DeletedJobs(d) THEN "absent" ELSE jobStatus[j]]
      /\ scanOf' = [s \in ScanIds |-> IF s \in gone THEN 0 ELSE scanOf[s]]
      /\ kStatus' = [k \in KJobIds |-> IF kScan[k] \in gone THEN "absent" ELSE kStatus[k]]
      /\ kScan' = [k \in KJobIds |-> IF kScan[k] \in gone THEN 0 ELSE kScan[k]]
      /\ UNCHANGED <<version, jobDoc, overdue, lastJob, queue, lastResult, timeouts, crashes,
                     lastScan, lastKJob, kqueue, ensurer, kcalls>>
=============================================================================
