------------------------------ MODULE Pipeline ------------------------------
(***************************************************************************)
(* The ingestion pipeline as it is deployed: the API, the OCR workers and  *)
(* the knowledge workers around one database and one broker.               *)
(***************************************************************************)
EXTENDS KnowledgeWorker, FiniteSets

vars == <<ingestVars, knowledgeVars, workerVars, kworkerVars>>

Init == IngestInit /\ KnowledgeInit /\ WorkerInit /\ KWorkerInit

\* A step that stays within the API and the ingestion tables.
Ingestion ==
  /\ \/ \E c \in Clients, d \in Docs : Upload(c, d) \/ Submit(c, d)
     \/ \E c \in Clients, j \in JobIds : ReplayIngestion(c, j)
     \/ \E c \in Clients :
          ReconcileOwn(c) \/ FindActiveJob(c) \/ InsertJob(c) \/ DispatchJob(c) \/ ClientCrash(c)
     \/ \E j \in JobIds : TimeoutElapses(j)
     \/ ReconcileAll
  /\ UNCHANGED <<knowledgeVars, workerVars, kworkerVars>>

DeletingOcr ==
  /\ \E c \in Clients, d \in Docs : Reingest(c, d)
  /\ UNCHANGED <<workerVars, kworkerVars>>

EnsuringKnowledge ==
  /\ \/ \E e \in Ensurers, r \in ResultIds : EnsureKnowledge(e, r)
     \/ \E e \in Ensurers, k \in KJobIds : ReplayKnowledge(e, k)
     \/ \E e \in Ensurers : EnsureCommit(e) \/ EnsureSend(e)
  /\ UNCHANGED <<ingestVars, workerVars, kworkerVars>>

LosingEnsurer ==
  /\ \E e \in Ensurers : EnsurerCrash(e)
  /\ UNCHANGED <<workerVars, kworkerVars>>

\* What an OCR worker does of itself, once it has a message.
OcrTask(w) ==
  \/ ReadVersion(w) \/ RunOcr(w) \/ StoreResult(w) \/ MarkSucceeded(w)
  \/ EnsureScanUnit(w) \/ CommitScanUnit(w)
  \/ DrainGate(w) \/ Collect(w) \/ Release(w) \/ (\E s \in ScanIds : SendReleased(w, s))
  \/ Except(w)

Ocr ==
  /\ \E w \in Workers :
       \/ \E j \in JobIds : Receive(w, j)
       \/ OcrTask(w)
       \/ OcrFails(w)
       \/ WorkerCrash(w)
  /\ UNCHANGED kworkerVars

\* What a knowledge worker does of itself, once it has a message.
KTask(n) ==
  \/ Defer(n) \/ Resend(n)
  \/ Start(n) \/ RunPipeline(n) \/ PipelineFails(n)
  \/ Finish(n) \/ Fail(n) \/ Retry(n)

Knowledge ==
  \E n \in KWorkers :
    \/ \E m \in KMessages : KReceive(n, m)
    \/ KTask(n)
    \/ KWorkerCrash(n)

Next == Ingestion \/ DeletingOcr \/ EnsuringKnowledge \/ LosingEnsurer \/ Ocr \/ Knowledge

Spec == Init /\ [][Next]_vars

-----------------------------------------------------------------------------
(* Fairness. A request handler and a running task go on unless the process *)
(* dies (a crash is a step like any other, and nothing obliges it to       *)
(* happen). A free worker takes a message when there is one. Nothing       *)
(* obliges a client to call, a run to fail or a timeout to elapse.         *)

Served(c) ==
  /\ ReconcileOwn(c) \/ FindActiveJob(c) \/ InsertJob(c) \/ DispatchJob(c)
  /\ UNCHANGED <<knowledgeVars, workerVars, kworkerVars>>

EnsurerServed(e) ==
  /\ EnsureCommit(e) \/ EnsureSend(e)
  /\ UNCHANGED <<ingestVars, workerVars, kworkerVars>>

OcrServed(w) ==
  /\ OcrTask(w) \/ \E j \in JobIds : Receive(w, j)
  /\ UNCHANGED kworkerVars

KServed(n) == KTask(n) \/ \E m \in KMessages : KReceive(n, m)

Fairness ==
  /\ \A c \in Clients : WF_vars(Served(c))
  /\ \A e \in Ensurers : WF_vars(EnsurerServed(e))
  /\ \A w \in Workers : WF_vars(OcrServed(w))
  /\ \A n \in KWorkers : WF_vars(KServed(n))

FairSpec == Spec /\ Fairness

\* Time passes and the job list is polled: what recovery from a crash rests on.
Recovery ==
  /\ WF_vars(\E j \in JobIds : TimeoutElapses(j) /\ UNCHANGED <<knowledgeVars, workerVars, kworkerVars>>)
  /\ WF_vars(ReconcileAll /\ UNCHANGED <<knowledgeVars, workerVars, kworkerVars>>)

RecoverySpec == FairSpec /\ Recovery

-----------------------------------------------------------------------------
(* Safety. *)

\* Every variable stays in its type: the states of handlers, tasks and rows are
\* the ones the code has names for.
PipelineTypeOK == IngestTypeOK /\ KnowledgeTypeOK /\ WorkerTypeOK /\ KWorkerTypeOK

\* Somebody is going to take ingestion job j to its end: a message in the broker,
\* a handler about to send one, or a task that has not marked it yet.
Driven(j) ==
  \/ queue[j] > 0
  \/ \E c \in Clients : api[c].pc = "dispatch" /\ api[c].job = j
  \/ \E w \in Workers : /\ worker[w].job = j
                        /\ worker[w].pc \in {"read", "ocr", "store", "mark", "failing"}

\* As long as no process dies, an ingestion job that is queued or running, and so
\* holds back all knowledge processing, is being driven: a job is found by one
\* handler, run by a second message, reconciled, deleted and failed under the
\* feet of the others without ever being left active with nobody to end it.
ActiveJobIsDriven == crashes = 0 => \A j \in JobIds : Active(j) => Driven(j)

\* Each handler or task that dies takes at most one ingestion job with it.
CrashOrphansOneJob ==
  Cardinality({j \in JobIds : Active(j) /\ ~Driven(j)}) <= crashes

\* An ingestion job shown as succeeded has an OCR result behind it: reingest never
\* takes the result from a job it leaves in the list, whoever is still running.
SucceededJobHasResult ==
  \A j \in JobIds : jobStatus[j] = "succeeded" => \E r \in ResultIds : result[r].doc = jobDoc[j]

\* What the consistency probe calls orphans cannot arise: no scan unit without its
\* OCR result and no knowledge job without its scan unit, although reingest deletes
\* both while tasks and handlers hold on to them.
NoOrphanRows ==
  /\ \A s \in ScanIds : scanOf[s] # 0 => scanOf[s] \in LiveResults
  /\ \A k \in KJobIds : kScan[k] # 0 => scanOf[kScan[k]] # 0

\* What may still bring, or has brought, the version last submitted of document d
\* to an OCR result: a result of it, a handler whose job is there, a message for a
\* job that is there, or a task that will read it or has read it.
ResultCovers(r, d) == result[r].doc = d /\ result[r].ver >= submitted[d]
ClientCovers(c, d) ==
  /\ api[c].doc = d
  /\ \/ api[c].pc \in {"check", "find", "insert"}
     \/ api[c].pc = "dispatch" /\ jobStatus[api[c].job] # "absent"
MessageCovers(j, d) == jobDoc[j] = d /\ queue[j] > 0 /\ jobStatus[j] # "absent"
WorkerCovers(w, d) ==
  /\ worker[w].job # 0
  /\ jobDoc[worker[w].job] = d
  /\ \/ worker[w].pc = "read" /\ jobStatus[worker[w].job] # "absent"
     \/ worker[w].pc \in {"ocr", "store"} /\ worker[w].ver >= submitted[d]
VersionCovered(d) ==
  \/ \E r \in ResultIds : ResultCovers(r, d)
  \/ \E c \in Clients : ClientCovers(c, d)
  \/ \E j \in JobIds : MessageCovers(j, d)
  \/ \E w \in Workers : WorkerCovers(w, d)

\* The last version a client submitted is not forgotten: it (or a later one) has
\* an OCR result, or something is under way that will read it. This is what
\* justifies answering a submission with a job that is already running: one more
\* message is sent for it.
SubmittedVersionIsCovered ==
  crashes = 0 /\ failures = 0 => \A d \in Docs : submitted[d] > 0 => VersionCovered(d)

\* Somebody will look at the OCR queue again and release the waiting knowledge.
Draining ==
  \/ \E c \in Clients : api[c].pc \in {"check", "find", "insert"}
  \/ \E c \in Clients : api[c].pc = "dispatch" /\ jobStatus[api[c].job] # "absent"
  \/ \E j \in JobIds : queue[j] > 0 /\ jobStatus[j] # "absent"
  \/ \E w \in Workers : \/ worker[w].pc \in {"drain", "collect"}
                        \/ /\ worker[w].pc \in {"read", "ocr", "store", "mark", "ensure",
                                                "commit", "failing"}
                           /\ jobStatus[worker[w].job] # "absent"

\* As long as no process dies and no handler ensures or replays knowledge, a
\* knowledge job that waits for the OCR queue is released in the end: the task
\* that finds the queue empty collects it, even when several finish together,
\* fail, are reconciled or lose their job to a reingest.
WaitingKnowledgeIsReleased ==
  crashes = 0 /\ kcalls = 0 =>
    \A k \in Dispatchable :
      Draining \/ \E w \in Workers : worker[w].pc = "release" /\ k \in worker[w].jobs

\* A message for scan unit s is in the broker or about to be sent or handled.
MessageFor(s) ==
  \/ \E m \in KMessages : m[1] = s /\ kqueue[m] > 0
  \/ \E w \in Workers : s \in worker[w].send
  \/ \E e \in Ensurers : ensurer[e].send = s
  \/ \E n \in KWorkers : kworker[n].scan = s

\* "pending" means what it says: as long as no process dies, the newest job of a
\* scan unit is pending only while a message for it is on its way, although every
\* task writes the status of whatever job is the newest.
PendingHasMessage ==
  crashes = 0 =>
    \A k \in KJobIds :
      kStatus[k] = "pending" /\ IsNewestJob(k, kScan[k]) => MessageFor(kScan[k])

\* A task stores a result only if it found none when it looked, in a transaction of
\* its own before the store. So however many messages, replays and repeated uploads
\* ask for a version, it has at most one result for every OCR process: those of the
\* tasks that had looked when the first one was stored (services.py:363).
ResultsOf(d, v) == {r \in LiveResults : result[r].doc = d /\ result[r].ver = v}
ResultsWithinProcesses ==
  \A d \in Docs, v \in 0..MaxVersion : Cardinality(ResultsOf(d, v)) <= Cardinality(Workers)

-----------------------------------------------------------------------------
(* What documents and comments of the repository say, and the code does not *)
(* keep (each is refuted by a run).                                        *)

\* docs/system_manual.md: the system creates or reuses a scan unit. Once there are
\* two for one result, ensure_scan_unit_for_ocr_result raises for ever.
OneScanUnitPerResult ==
  \A s, t \in ScanIds : scanOf[s] # 0 /\ scanOf[s] = scanOf[t] => s = t

\* reingest_document: delete all OCR artifacts and ingestion jobs of a document,
\* then ingest it again. No result is left of a job that reingest deleted.
NothingLeftOfDeletedJob ==
  \A r \in LiveResults : jobStatus[result[r].job] # "absent"

\* docs/api.md: failures show in the status of the job. A document whose submitted
\* version was given up has a failed job.
FailureShowsInJob ==
  \A d \in Docs :
    /\ crashes = 0 /\ submitted[d] > 0 /\ ~VersionCovered(d)
    /\ \A w \in Workers : worker[w].pc = "failing" => jobDoc[worker[w].job] # d
    => \E j \in JobIds : jobDoc[j] = d /\ jobStatus[j] = "failed"

\* docs/api.md: ensure queues the job if necessary; the activity page says that it
\* waits for OCR or for a knowledge worker. So somebody is to release it, or there
\* is a message for it.
EnsuredKnowledgeIsOnItsWay ==
  crashes = 0 =>
    \A k \in Dispatchable :
      \/ Draining \/ MessageFor(kScan[k])
      \/ \E w \in Workers : worker[w].pc = "release" /\ k \in worker[w].jobs

-----------------------------------------------------------------------------
(* Liveness, under RecoverySpec. What a crash or a failed run may cost is said *)
(* in each property.                                                        *)

\* An active ingestion job ends: a task or, if its process died, the timeout ends
\* it. No job keeps knowledge waiting for ever.
ActiveJobEnds == \A j \in JobIds : Active(j) ~> ~Active(j)

\* Knowledge that waits, for OCR or for a worker, is processed unless a process
\* dies: deferring to OCR is not for ever.
Waiting(k) == kStatus[k] \in {"queued", "pending"} /\ IsNewestJob(k, kScan[k])
WaitingKnowledgeEnds == \A k \in KJobIds : Waiting(k) ~> (~Waiting(k) \/ crashes > 0)

\* A submitted document ends with an OCR result of the version submitted, unless a
\* run raises or a process dies.
SubmittedVersionGetsResult ==
  \A d \in Docs : submitted[d] > 0 ~>
    \/ \E r \in ResultIds : result[r].doc = d /\ result[r].ver >= submitted[d]
    \/ failures > 0 \/ crashes > 0
=============================================================================
