------------------------------ MODULE OcrWorker ------------------------------
(***************************************************************************)
(* process_ingestion_job, the only task of the OCR worker: run one         *)
(* ingestion job, hand its OCR result to knowledge, and release every      *)
(* knowledge job that was waiting when the OCR queue is found empty.       *)
(*                                                                         *)
(* The message is acknowledged when it is received (Celery's default), so  *)
(* a worker that dies takes it along. The task has no retry.               *)
(***************************************************************************)
EXTENDS KnowledgeQueue

CONSTANTS
  Workers,      \* Celery processes serving process_ingestion_job
  MaxFailures   \* bound: OCR runs that raise

ASSUME WorkerAssumption == MaxFailures \in Nat

VARIABLES
  worker,    \* worker -> the task it is running
  failures   \* OCR runs that raised so far

workerVars == <<worker, failures>>

\* pc names the next database transaction or broker call of the task; ok says
\* that it is in the try block, whose exceptions lead to the except branch.
WorkerPcs == {"idle", "read", "ocr", "store", "mark", "ensure", "commit",
              "drain", "collect", "release", "send", "failing"}
WorkerStates ==
  [pc: WorkerPcs, job: 0..MaxJobs, ver: 0..MaxVersion, res: 0..MaxResults, plan: Plans,
   ok: BOOLEAN, jobs: SUBSET KJobIds, send: SUBSET ScanIds]
IdleWorker == [pc |-> "idle", job |-> 0, ver |-> 0, res |-> 0, plan |-> NoPlan,
               ok |-> TRUE, jobs |-> {}, send |-> {}]

WorkerTypeOK ==
  /\ worker \in [Workers -> WorkerStates]
  /\ failures \in 0..MaxFailures

WorkerInit ==
  /\ worker = [w \in Workers |-> IdleWorker]
  /\ failures = 0

\* The task of w goes on at pc, or ends.
Goto(w, pc) == worker' = [worker EXCEPT ![w].pc = pc]
EndTask(w) == worker' = [worker EXCEPT ![w] = IdleWorker]

\* Mutant of IsResultFor: every run stores its own result.
NeverReuse(r, d, v) == r = 0

\* The latest OCR result of version v of document d (0: none).
IsResultFor(r, d, v) ==
  LET rows == {q \in ResultIds : result[q].doc = d /\ result[q].ver = v}
  IN  IF rows = {} THEN r = 0 ELSE r \in rows /\ \A q \in rows : q <= r

-----------------------------------------------------------------------------
(* The try block. *)

\* A message for a deleted job raises, and the except branch finds no job either.
Receive(w, j) ==
  /\ worker[w].pc = "idle"
  /\ queue[j] > 0
  /\ queue' = [queue EXCEPT ![j] = @ - 1]
  /\ \/ /\ jobStatus[j] = "absent"
        /\ UNCHANGED <<jobStatus, overdue, worker>>
     \/ /\ jobStatus[j] # "absent"
        /\ jobStatus' = [jobStatus EXCEPT ![j] = "running"]
        /\ overdue' = overdue \ {j}
        /\ worker' = [worker EXCEPT ![w] = [IdleWorker EXCEPT !.pc = "read", !.job = j]]
  /\ UNCHANGED <<version, submitted, jobDoc, lastJob, result, lastResult, api, boundVars,
                 knowledgeVars, failures>>

\* process_job takes the document's latest version, whatever version was latest
\* when the job was created. That the job was deleted since it was marked running
\* is noticed unless the session still holds its row.
ReadVersion(w) ==
  /\ worker[w].pc = "read"
  /\ \/ worker' = [worker EXCEPT ![w].pc = "ocr", ![w].ver = version[jobDoc[worker[w].job]]]
     \/ jobStatus[worker[w].job] = "absent" /\ Goto(w, "failing")
  /\ UNCHANGED <<ingestVars, knowledgeVars, failures>>

\* The OCR run ends; a result stored for this version meanwhile is reused.
RunOcr(w) ==
  /\ worker[w].pc = "ocr"
  /\ \E r \in 0..MaxResults :
       /\ IsResultFor(r, jobDoc[worker[w].job], worker[w].ver)
       /\ worker' = [worker EXCEPT ![w].pc = IF r = 0 THEN "store" ELSE "mark",
                                   ![w].res = r]
  /\ UNCHANGED <<ingestVars, knowledgeVars, failures>>

\* Download, preflight, OCR or an upload of the derivatives raises.
OcrFails(w) ==
  /\ worker[w].pc \in {"ocr", "store"}
  /\ failures < MaxFailures
  /\ failures' = failures + 1
  /\ Goto(w, "failing")
  /\ UNCHANGED <<ingestVars, knowledgeVars>>

\* _store_ocr_result commits the row; nothing makes (document, version) unique.
StoreResult(w) ==
  LET r == lastResult + 1
      j == worker[w].job
  IN  /\ worker[w].pc = "store"
      /\ lastResult < MaxResults
      /\ lastResult' = r
      /\ result' = [result EXCEPT ![r] = [doc |-> jobDoc[j], ver |-> worker[w].ver, job |-> j]]
      /\ worker' = [worker EXCEPT ![w].pc = "mark", ![w].res = r]
      /\ UNCHANGED <<version, submitted, jobVars, queue, api, boundVars, knowledgeVars, failures>>

\* mark_succeeded, whatever the row says by now; a deleted row raises.
MarkSucceeded(w) ==
  LET j == worker[w].job
  IN  /\ worker[w].pc = "mark"
      /\ \/ /\ jobStatus[j] = "absent"
            /\ Goto(w, "failing")
            /\ UNCHANGED jobStatus
         \/ /\ jobStatus[j] # "absent"
            /\ jobStatus' = [jobStatus EXCEPT ![j] = "succeeded"]
            /\ Goto(w, "ensure")
      /\ UNCHANGED <<version, submitted, jobDoc, overdue, lastJob, queue, result, lastResult,
                     api, boundVars, knowledgeVars, failures>>

\* ensure_scan_unit_for_ocr_result up to the commit.
EnsureScanUnit(w) ==
  /\ worker[w].pc = "ensure"
  /\ \/ \E p \in Plans :
          /\ IsPlan(p, worker[w].res)
          /\ worker' = [worker EXCEPT ![w].pc = "commit", ![w].plan = p]
     \/ /\ \A p \in Plans : ~IsPlan(p, worker[w].res)
        /\ Goto(w, "failing")
  /\ UNCHANGED <<ingestVars, knowledgeVars, failures>>

\* The commit; the rows may be gone by now.
CommitScanUnit(w) ==
  LET p == worker[w].plan
      r == worker[w].res
  IN  /\ worker[w].pc = "commit"
      /\ \/ /\ Committable(p, r)
            /\ ApplyPlan(p, r, "queued")
            /\ worker' = [worker EXCEPT ![w] =
                 [IdleWorker EXCEPT !.pc = "drain", !.job = worker[w].job]]
         \/ /\ ~Committable(p, r)
            /\ Goto(w, "failing")
            /\ UNCHANGED tableVars
      /\ UNCHANGED <<ingestVars, kqueue, ensurer, kcalls, failures>>

-----------------------------------------------------------------------------
(* Releasing knowledge, at the end of the try block and of the except branch. *)

\* has_active_ingestion_jobs: somebody else will release what is waiting.
DrainGate(w) ==
  /\ worker[w].pc = "drain"
  /\ \/ HasActiveIngestion /\ EndTask(w)
     \/ ~HasActiveIngestion /\ Goto(w, "collect")
  /\ UNCHANGED <<ingestVars, knowledgeVars, failures>>

Collect(w) ==
  /\ worker[w].pc = "collect"
  /\ \/ /\ Dispatchable = {}
        /\ EndTask(w)
     \/ /\ Dispatchable # {}
        /\ worker' = [worker EXCEPT ![w].pc = "release", ![w].jobs = Dispatchable]
  /\ UNCHANGED <<ingestVars, knowledgeVars, failures>>

\* An exception in the try block leads to the except branch, one there ends the
\* task.
Raise(w) == IF worker[w].ok THEN Goto(w, "failing") ELSE EndTask(w)

\* The commit of the pending statuses: all of them or, if a row is gone, none.
Release(w) ==
  LET ks == worker[w].jobs
  IN  /\ worker[w].pc = "release"
      /\ \/ /\ \A k \in ks : kScan[k] # 0
            /\ kStatus' = [k \in KJobIds |-> IF k \in ks THEN "pending" ELSE kStatus[k]]
            /\ worker' = [worker EXCEPT ![w].pc = "send", ![w].jobs = {},
                                        ![w].send = {kScan[k] : k \in ks}]
         \/ /\ \E k \in ks : kScan[k] = 0
            /\ Raise(w)
            /\ UNCHANGED kStatus
      /\ UNCHANGED <<ingestVars, scanOf, lastScan, kScan, lastKJob, kqueue, ensurer, kcalls,
                     failures>>

SendReleased(w, s) ==
  /\ worker[w].pc = "send"
  /\ s \in worker[w].send
  /\ SendScan(s, 0)
  /\ IF worker[w].send = {s} THEN EndTask(w)
     ELSE worker' = [worker EXCEPT ![w].send = @ \ {s}]
  /\ UNCHANGED <<ingestVars, tableVars, ensurer, kcalls, failures>>

-----------------------------------------------------------------------------
(* The except branch, and what ends a task from outside. *)

\* Mutant of Except: the job is not marked failed.
ExceptUnmarked(w) ==
  /\ worker[w].pc = "failing"
  /\ worker' = [worker EXCEPT ![w] =
       [IdleWorker EXCEPT !.pc = "drain", !.job = worker[w].job, !.ok = FALSE]]
  /\ UNCHANGED <<ingestVars, knowledgeVars, failures>>

\* Mutant of Except: a failed run does not release the waiting knowledge.
ExceptWithoutDrain(w) ==
  LET j == worker[w].job
  IN  /\ worker[w].pc = "failing"
      /\ EndTask(w)
      /\ jobStatus' = [jobStatus EXCEPT ![j] = IF @ = "absent" THEN @ ELSE "failed"]
      /\ UNCHANGED <<version, submitted, jobDoc, overdue, lastJob, queue, result, lastResult,
                     api, boundVars, knowledgeVars, failures>>

\* mark_failed and on to the release; a job deleted meanwhile ends the task with
\* nothing released.
Except(w) ==
  LET j == worker[w].job
  IN  /\ worker[w].pc = "failing"
      /\ \/ /\ jobStatus[j] = "absent"
            /\ EndTask(w)
            /\ UNCHANGED jobStatus
         \/ /\ jobStatus[j] # "absent"
            /\ jobStatus' = [jobStatus EXCEPT ![j] = "failed"]
            /\ worker' = [worker EXCEPT ![w] =
                 [IdleWorker EXCEPT !.pc = "drain", !.job = j, !.ok = FALSE]]
      /\ UNCHANGED <<version, submitted, jobDoc, overdue, lastJob, queue, result, lastResult,
                     api, boundVars, knowledgeVars, failures>>

\* The process dies, or the broker refuses a message half way through the release.
WorkerCrash(w) ==
  /\ worker[w].pc # "idle"
  /\ crashes < MaxCrashes
  /\ crashes' = crashes + 1
  /\ \/ EndTask(w)
     \/ worker[w].pc = "send" /\ Raise(w)
  /\ UNCHANGED <<version, submitted, jobVars, queue, result, lastResult, api, calls, timeouts,
                 knowledgeVars, failures>>
=============================================================================
