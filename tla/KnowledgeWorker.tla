--------------------------- MODULE KnowledgeWorker ---------------------------
(***************************************************************************)
(* process_scan_unit_task of the knowledge worker, as the queue sees it:   *)
(* the gate that lets OCR go first, the status it keeps on the scan unit's *)
(* newest job, its retries. What the pipeline computes is left out.        *)
(*                                                                         *)
(* The task is given a scan unit, not a job: every status it writes goes   *)
(* to whatever job of that scan unit is the newest at that moment.         *)
(***************************************************************************)
EXTENDS OcrWorker

CONSTANTS
  KWorkers,       \* Celery processes serving process_scan_unit_task
  MaxKFailures    \* bound: pipeline runs that raise

ASSUME KWorkerAssumption == MaxKFailures \in Nat

VARIABLES
  kworker,     \* worker -> the task it is running
  kfailures    \* pipeline runs that raised so far

kworkerVars == <<kworker, kfailures>>

KPcs == {"idle", "defer", "resend", "start", "run", "finish", "fail", "retry"}
KWorkerStates == [pc: KPcs, scan: 0..MaxScans, retries: 0..MaxRetries]
IdleKWorker == [pc |-> "idle", scan |-> 0, retries |-> 0]

KWorkerTypeOK ==
  /\ kworker \in [KWorkers -> KWorkerStates]
  /\ kfailures \in 0..MaxKFailures

KWorkerInit ==
  /\ kworker = [k \in KWorkers |-> IdleKWorker]
  /\ kfailures = 0

KGoto(n, pc) == kworker' = [kworker EXCEPT ![n].pc = pc]
KEndTask(n) == kworker' = [kworker EXCEPT ![n] = IdleKWorker]

\* _update_knowledge_job: the newest job of the scan unit, if it has one.
WriteNewest(s, status) ==
  kStatus' = [k \in KJobIds |->
                IF kScan[k] = s /\ IsNewestJob(k, s) THEN status ELSE kStatus[k]]

\* The tables a task of this worker never writes.
KUnchanged == UNCHANGED <<ingestVars, scanOf, lastScan, kScan, lastKJob, ensurer, kcalls, workerVars>>

-----------------------------------------------------------------------------
(* The gate. *)

\* The message is received and the OCR queue is looked at.
KReceive(n, m) ==
  /\ kworker[n].pc = "idle"
  /\ kqueue[m] > 0
  /\ kqueue' = [kqueue EXCEPT ![m] = @ - 1]
  /\ kworker' = [kworker EXCEPT ![n] =
       [pc |-> IF HasActiveIngestion THEN "defer" ELSE "start", scan |-> m[1], retries |-> m[2]]]
  /\ UNCHANGED <<kStatus, kfailures>>
  /\ KUnchanged

\* OCR is busy: the newest job waits ...
Defer(n) ==
  /\ kworker[n].pc = "defer"
  /\ WriteNewest(kworker[n].scan, "pending")
  /\ KGoto(n, "resend")
  /\ UNCHANGED <<kqueue, kfailures>>
  /\ KUnchanged

\* Mutant of Resend: the deferred message is not sent again.
DropDeferred(n) ==
  /\ kworker[n].pc = "resend"
  /\ KEndTask(n)
  /\ UNCHANGED <<kStatus, kqueue, kfailures>>
  /\ KUnchanged

\* ... for a new message with a countdown of 180 seconds and no retries used.
Resend(n) ==
  /\ kworker[n].pc = "resend"
  /\ SendScan(kworker[n].scan, 0)
  /\ KEndTask(n)
  /\ UNCHANGED <<kStatus, kfailures>>
  /\ KUnchanged

-----------------------------------------------------------------------------
(* The run. *)

Start(n) ==
  /\ kworker[n].pc = "start"
  /\ WriteNewest(kworker[n].scan, "processing")
  /\ KGoto(n, "run")
  /\ UNCHANGED <<kqueue, kfailures>>
  /\ KUnchanged

\* The pipeline commits its output, specialists and topic finalization are sent.
RunPipeline(n) ==
  /\ kworker[n].pc = "run"
  /\ scanOf[kworker[n].scan] # 0
  /\ KGoto(n, "finish")
  /\ UNCHANGED <<kStatus, kqueue, kfailures>>
  /\ KUnchanged

\* The pipeline raises: its model is unreachable, or the scan unit is gone.
PipelineFails(n) ==
  /\ kworker[n].pc = "run"
  /\ \/ scanOf[kworker[n].scan] = 0 /\ UNCHANGED kfailures
     \/ kfailures < MaxKFailures /\ kfailures' = kfailures + 1
  /\ KGoto(n, "fail")
  /\ UNCHANGED <<kStatus, kqueue>>
  /\ KUnchanged

Finish(n) ==
  /\ kworker[n].pc = "finish"
  /\ WriteNewest(kworker[n].scan, "succeeded")
  /\ KEndTask(n)
  /\ UNCHANGED <<kqueue, kfailures>>
  /\ KUnchanged

\* The newest job fails, and self.retry raises when the retries are used up.
Fail(n) ==
  /\ kworker[n].pc = "fail"
  /\ WriteNewest(kworker[n].scan, "failed")
  /\ IF kworker[n].retries < MaxRetries THEN KGoto(n, "retry") ELSE KEndTask(n)
  /\ UNCHANGED <<kqueue, kfailures>>
  /\ KUnchanged

Retry(n) ==
  /\ kworker[n].pc = "retry"
  /\ SendScan(kworker[n].scan, kworker[n].retries + 1)
  /\ KEndTask(n)
  /\ UNCHANGED <<kStatus, kfailures>>
  /\ KUnchanged

\* The process dies and its message with it; nothing reconciles the job.
KWorkerCrash(n) ==
  /\ kworker[n].pc # "idle"
  /\ crashes < MaxCrashes
  /\ crashes' = crashes + 1
  /\ KEndTask(n)
  /\ UNCHANGED <<version, submitted, jobVars, queue, result, lastResult, api, calls, timeouts,
                 knowledgeVars, workerVars, kfailures>>
=============================================================================
