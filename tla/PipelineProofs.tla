--------------------------- MODULE PipelineProofs ---------------------------
(***************************************************************************)
(* Safety of Pipeline, for every number of documents, handlers and workers *)
(* and every value of the bounds.                                          *)
(***************************************************************************)
EXTENDS Pipeline, FiniteSetTheorems, TLAPS

\* What the types leave open: a handler or a task that is under way holds the id
\* of a document or of an ingestion job that has been inserted, and a row that was
\* never inserted is absent.
Held ==
  /\ \A j \in JobIds : j > lastJob => jobStatus[j] = "absent" /\ queue[j] = 0
  /\ \A j \in JobIds : j <= lastJob => jobDoc[j] \in Docs
  /\ \A c \in Clients : api[c].pc # "idle" => api[c].doc \in Docs
  /\ \A c \in Clients : api[c].pc = "dispatch" => api[c].job \in 1..lastJob
  /\ \A w \in Workers : worker[w].pc # "idle" => worker[w].job \in 1..lastJob

Typed == PipelineTypeOK /\ Held

\* The empty database, the empty broker and the idle processes have their types.
LEMMA TypedInit == Init => Typed
  BY IngestionAssumption, KnowledgeAssumption, WorkerAssumption, KWorkerAssumption
  DEF Init, Typed, PipelineTypeOK, Held, IngestInit, KnowledgeInit, WorkerInit, KWorkerInit,
      IngestTypeOK, KnowledgeTypeOK, WorkerTypeOK, KWorkerTypeOK, JobIds, ResultIds, JobStatuses,
      ActiveStatuses, NoResult, IdleClient, ScanIds, KJobIds, KMessages, KStatuses, Plans, NoPlan,
      Writes, IdleEnsurer, WorkerPcs, IdleWorker, KPcs, IdleKWorker, Results, ClientStates,
      EnsurerStates, WorkerStates, KWorkerStates

\* A row that is there was inserted, for a document of the archive.
LEMMA PresentJob ==
  ASSUME IngestTypeOK, Held, NEW j \in JobIds, jobStatus[j] # "absent"
  PROVE  j \in 1..lastJob /\ jobDoc[j] \in Docs
<1>1. ~(j > lastJob)
  BY DEF Held
<1>2. j <= lastJob /\ j \in 1..lastJob
  BY <1>1, IngestionAssumption DEF IngestTypeOK, JobIds
<1>3. QED
  BY <1>2 DEF Held

-----------------------------------------------------------------------------
(* Steps of the API over the ingestion tables. *)

\* Every handler that submits a document starts create_ingest_job the same way.
LEMMA SubmissionTyped ==
  ASSUME IngestTypeOK, Held, UNCHANGED <<version, jobDoc, lastJob, worker>>,
         NEW c \in Clients, NEW d \in Docs, AcceptCall(c), BeginSubmission(c, d),
         submitted' = [submitted EXCEPT ![d] = version[d]],
         UNCHANGED <<overdue, queue, lastResult, timeouts, crashes>>,
         jobStatus' \in [JobIds -> JobStatuses], result' \in [ResultIds -> Results],
         \A j \in JobIds : jobStatus[j] = "absent" => jobStatus'[j] = "absent"
  PROVE  IngestTypeOK' /\ Held'
<1> USE IngestionAssumption DEF IngestTypeOK
<1> DEFINE s == [pc |-> "check", doc |-> d, job |-> 0]
<1>1. s \in ClientStates
  BY DEF ClientStates
<1>2. calls' \in 0..MaxCalls
  BY DEF AcceptCall
<1> HIDE DEF s
<1>3. api' = [api EXCEPT ![c] = s]
  BY DEF BeginSubmission, s
<1>4. IngestTypeOK'
  BY <1>1, <1>2, <1>3
<1>5. Held'
  BY <1>1, <1>3 DEF Held, s
<1>6. QED
  BY <1>4, <1>5

\* An upload and the submission it may start keep the ingestion types.
LEMMA UploadTyped ==
  ASSUME IngestTypeOK, Held, worker' = worker, NEW c \in Clients, NEW d \in Docs, Upload(c, d)
  PROVE  IngestTypeOK' /\ Held'
<1> USE IngestionAssumption DEF IngestTypeOK, jobVars
<1> DEFINE s == [pc |-> "check", doc |-> d, job |-> 0]
<1>1. s \in ClientStates
  BY DEF ClientStates
<1>2. version' \in [Docs -> 0..MaxVersion] /\ version[d] + 1 \in 0..MaxVersion
  BY DEF Upload
<1>3. calls' \in 0..MaxCalls
  BY DEF Upload, AcceptCall
<1> HIDE DEF s
<1>4. CASE api' = [api EXCEPT ![c] = s] /\ submitted' = [submitted EXCEPT ![d] = version[d] + 1]
  <2>1. IngestTypeOK'
    BY <1>1, <1>2, <1>3, <1>4 DEF Upload
  <2>2. Held'
    BY <1>1, <1>4 DEF Held, Upload, s
  <2>3. QED
    BY <2>1, <2>2
<1>5. CASE UNCHANGED <<api, submitted>>
  BY <1>2, <1>3, <1>5 DEF Held, Upload
<1>6. QED
  BY <1>4, <1>5 DEF Upload, BeginSubmission, s

\* A handler that finds an active job holds a job that was inserted.
LEMMA FindActiveJobTyped ==
  ASSUME IngestTypeOK, Held, worker' = worker, NEW c \in Clients, FindActiveJob(c)
  PROVE  IngestTypeOK' /\ Held'
<1> USE DEF IngestTypeOK, jobVars, boundVars
<1>1. api[c].pc # "idle" /\ api[c].doc \in Docs
  BY DEF FindActiveJob, Held
<1>2. ASSUME NEW s \in ClientStates, api' = [api EXCEPT ![c] = s], s.pc # "idle",
             s.doc = api[c].doc, s.pc = "dispatch" => s.job \in 1..lastJob
      PROVE  IngestTypeOK' /\ Held'
  <2>1. IngestTypeOK'
    BY <1>2 DEF FindActiveJob
  <2>2. Held'
    BY <1>1, <1>2 DEF Held, FindActiveJob
  <2>3. QED
    BY <2>1, <2>2
<1>3. ASSUME NEW j \in ActiveJobsOf(api[c].doc),
             api' = [api EXCEPT ![c].pc = "dispatch", ![c].job = j]
      PROVE  IngestTypeOK' /\ Held'
  <2> DEFINE s == [api[c] EXCEPT !.pc = "dispatch", !.job = j]
  <2>1. j \in JobIds /\ j \in 0..MaxJobs /\ j \in 1..lastJob
    BY IngestionAssumption DEF ActiveJobsOf, Active, ActiveStatuses, Held, JobIds
  <2>2. s \in ClientStates /\ s.pc = "dispatch" /\ s.doc = api[c].doc /\ s.job = j
    BY <2>1 DEF ClientStates
  <2>3. api' = [api EXCEPT ![c] = s]
    BY <1>3
  <2>4. QED
    BY <1>2, <2>1, <2>2, <2>3
<1>4. ASSUME api' = [api EXCEPT ![c].pc = "insert"]
      PROVE  IngestTypeOK' /\ Held'
  <2> DEFINE s == [api[c] EXCEPT !.pc = "insert"]
  <2>1. s \in ClientStates /\ s.pc = "insert" /\ s.doc = api[c].doc
    BY DEF ClientStates
  <2>2. api' = [api EXCEPT ![c] = s]
    BY <1>4
  <2>3. QED
    BY <1>2, <2>1, <2>2
<1>5. QED
  BY <1>3, <1>4 DEF FindActiveJob

\* The inserted job is typed, and it is now the last one.
LEMMA InsertJobTyped ==
  ASSUME IngestTypeOK, Held, worker' = worker, NEW c \in Clients, InsertJob(c)
  PROVE  IngestTypeOK' /\ Held'
<1> USE IngestionAssumption DEF IngestTypeOK
<1> DEFINE j == lastJob + 1
           s == [api[c] EXCEPT !.pc = "dispatch", !.job = j]
<1>1. j \in JobIds /\ j \in 0..MaxJobs
  BY DEF InsertJob, JobIds
<1>2. api[c].pc # "idle" /\ api[c].doc \in Docs
  BY DEF InsertJob, Held
<1> HIDE DEF j
<1>3. s \in ClientStates /\ s.pc = "dispatch" /\ s.job = j /\ s.doc = api[c].doc
  BY <1>1 DEF ClientStates
<1>4. /\ api' = [api EXCEPT ![c] = s]
      /\ jobDoc' = [jobDoc EXCEPT ![j] = api[c].doc]
      /\ jobStatus' = [jobStatus EXCEPT ![j] = "queued"]
      /\ lastJob' = j
      /\ UNCHANGED <<version, submitted, overdue, queue, result, lastResult, boundVars>>
  BY DEF InsertJob, j
<1> HIDE DEF s
<1>5. IngestTypeOK'
  BY <1>1, <1>2, <1>3, <1>4 DEF JobStatuses, ActiveStatuses, boundVars
<1>6. Held'
  BY <1>1, <1>2, <1>3, <1>4, SMTT(30) DEF Held, j, JobIds
<1>7. QED
  BY <1>5, <1>6

\* A handler sends a message for a job that was inserted.
LEMMA DispatchJobTyped ==
  ASSUME IngestTypeOK, Held, worker' = worker, NEW c \in Clients, DispatchJob(c)
  PROVE  IngestTypeOK' /\ Held'
<1> USE IngestionAssumption DEF IngestTypeOK, jobVars, boundVars
<1> DEFINE j == api[c].job
<1>1. j \in JobIds /\ j \in 1..lastJob
  BY DEF DispatchJob, Held, JobIds
<1>2. IdleClient \in ClientStates /\ IdleClient.pc = "idle"
  BY DEF ClientStates, IdleClient
<1>3. queue' = [queue EXCEPT ![j] = @ + 1]
  BY DEF DispatchJob
<1> HIDE DEF j
<1>4. IngestTypeOK'
  BY <1>1, <1>2, <1>3 DEF DispatchJob
<1>5. Held'
  BY <1>1, <1>2, <1>3 DEF DispatchJob, Held, JobIds
<1>6. QED
  BY <1>4, <1>5

\* A handler of the ingestion API that dies is idle again.
LEMMA ClientCrashTyped ==
  ASSUME IngestTypeOK, Held, worker' = worker, NEW c \in Clients, ClientCrash(c)
  PROVE  IngestTypeOK' /\ Held'
<1> USE IngestionAssumption DEF IngestTypeOK, jobVars
<1>1. IdleClient \in ClientStates /\ IdleClient.pc = "idle"
  BY DEF ClientStates, IdleClient
<1>2. IngestTypeOK'
  BY <1>1 DEF ClientCrash
<1>3. Held'
  BY <1>1 DEF ClientCrash, Held
<1>4. QED
  BY <1>2, <1>3

\* Every step of the API over the ingestion tables keeps the types.
LEMMA TypedIngestion == Typed /\ Ingestion => Typed'
<1> SUFFICES ASSUME Typed, Ingestion PROVE Typed'
  OBVIOUS
<1>1. KnowledgeTypeOK' /\ WorkerTypeOK' /\ KWorkerTypeOK' /\ worker' = worker
  BY DEF Typed, PipelineTypeOK, Ingestion, KnowledgeTypeOK, WorkerTypeOK, KWorkerTypeOK,
         knowledgeVars, tableVars, workerVars, kworkerVars
<1>2. IngestTypeOK /\ Held
  BY DEF Typed, PipelineTypeOK
<1>3. SUFFICES IngestTypeOK' /\ Held'
  BY <1>1 DEF Typed, PipelineTypeOK
<1>4. ASSUME NEW c \in Clients, NEW d \in Docs, Upload(c, d)
      PROVE  IngestTypeOK' /\ Held'
  BY <1>1, <1>2, <1>4, UploadTyped
<1>5. ASSUME NEW c \in Clients, NEW d \in Docs, Submit(c, d)
      PROVE  IngestTypeOK' /\ Held'
  BY <1>1, <1>2, <1>5, SubmissionTyped DEF Submit, IngestTypeOK, jobVars
<1>6. ASSUME NEW c \in Clients, NEW j \in JobIds, ReplayIngestion(c, j)
      PROVE  IngestTypeOK' /\ Held'
  <2>1. jobDoc[j] \in Docs
    BY <1>2, <1>6, PresentJob DEF ReplayIngestion
  <2>2. QED
    BY <1>1, <1>2, <1>6, <2>1, SubmissionTyped DEF ReplayIngestion, IngestTypeOK, jobVars
<1>7. ASSUME NEW c \in Clients, ReconcileOwn(c)
      PROVE  IngestTypeOK' /\ Held'
  BY <1>1, <1>2, <1>7, IngestionAssumption
  DEF ReconcileOwn, Reconciled, Active, IngestTypeOK, Held, JobIds, JobStatuses, ActiveStatuses,
      boundVars, ClientStates
<1>8. ASSUME NEW c \in Clients, FindActiveJob(c)
      PROVE  IngestTypeOK' /\ Held'
  BY <1>1, <1>2, <1>8, FindActiveJobTyped
<1>9. ASSUME NEW c \in Clients, InsertJob(c)
      PROVE  IngestTypeOK' /\ Held'
  BY <1>1, <1>2, <1>9, InsertJobTyped
<1>10. ASSUME NEW c \in Clients, DispatchJob(c)
      PROVE  IngestTypeOK' /\ Held'
  BY <1>1, <1>2, <1>10, DispatchJobTyped
<1>11. ASSUME NEW c \in Clients, ClientCrash(c)
      PROVE  IngestTypeOK' /\ Held'
  BY <1>1, <1>2, <1>11, ClientCrashTyped
<1>12. ASSUME NEW j \in JobIds, TimeoutElapses(j)
      PROVE  IngestTypeOK' /\ Held'
  BY <1>1, <1>2, <1>12, IngestionAssumption DEF TimeoutElapses, IngestTypeOK, Held
<1>13. ASSUME ReconcileAll
      PROVE  IngestTypeOK' /\ Held'
  BY <1>1, <1>2, <1>13, IngestionAssumption
  DEF ReconcileAll, Reconciled, Active, IngestTypeOK, Held, JobStatuses, ActiveStatuses, boundVars
<1>14. QED
  BY <1>4, <1>5, <1>6, <1>7, <1>8, <1>9, <1>10, <1>11, <1>12, <1>13 DEF Ingestion

\* Reingest deletes rows of typed tables and starts a submission.
LEMMA TypedDeletingOcr == Typed /\ DeletingOcr => Typed'
<1> SUFFICES ASSUME Typed, NEW c \in Clients, NEW d \in Docs, Reingest(c, d),
                    UNCHANGED <<workerVars, kworkerVars>>
             PROVE  Typed'
  BY DEF DeletingOcr
<1> USE IngestionAssumption, KnowledgeAssumption DEF Typed, PipelineTypeOK
<1>1. WorkerTypeOK' /\ KWorkerTypeOK' /\ worker' = worker
  BY DEF WorkerTypeOK, KWorkerTypeOK, workerVars, kworkerVars
<1>2. jobStatus' \in [JobIds -> JobStatuses]
  BY DEF Reingest, IngestTypeOK, JobStatuses
<1>3. result' \in [ResultIds -> Results]
  <2>1. NoResult \in Results
    BY DEF NoResult, Results
  <2>2. QED
    BY <2>1 DEF Reingest, IngestTypeOK
<1>4. \A j \in JobIds : jobStatus[j] = "absent" => jobStatus'[j] = "absent"
  BY DEF Reingest
<1>5. IngestTypeOK' /\ Held'
  BY <1>1, <1>2, <1>3, <1>4, SubmissionTyped DEF Reingest
<1>6. KnowledgeTypeOK'
  BY DEF KnowledgeTypeOK, Reingest, KStatuses
<1>7. QED
  BY <1>1, <1>5, <1>6
-----------------------------------------------------------------------------
(* Steps on the knowledge tables. *)

\* The commit of a plan keeps the types of the knowledge tables.
LEMMA ApplyPlanTyped ==
  ASSUME KnowledgeTypeOK, NEW p \in Plans, NEW r \in 0..MaxResults,
         NEW status \in KStatuses, ApplyPlan(p, r, status)
  PROVE  /\ scanOf' \in [ScanIds -> 0..MaxResults]
         /\ lastScan' \in 0..MaxScans
         /\ kScan' \in [KJobIds -> 0..MaxScans]
         /\ kStatus' \in [KJobIds -> KStatuses]
         /\ lastKJob' \in 0..MaxKJobs
         /\ PlanScan(p) \in 0..MaxScans
<1> USE KnowledgeAssumption DEF KnowledgeTypeOK
<1>1. lastScan' \in 0..MaxScans /\ scanOf' \in [ScanIds -> 0..MaxResults]
  BY DEF ApplyPlan
<1>2. PlanScan(p) \in 0..MaxScans
  BY DEF ApplyPlan, PlanScan, Plans
<1> HIDE DEF KnowledgeTypeOK
<1>3. lastKJob' \in 0..MaxKJobs
  BY DEF ApplyPlan, KnowledgeTypeOK
<1>4. kScan' \in [KJobIds -> 0..MaxScans] /\ kStatus' \in [KJobIds -> KStatuses]
  BY <1>2 DEF ApplyPlan, KnowledgeTypeOK
<1>5. QED
  BY <1>1, <1>2, <1>3, <1>4

\* One more message keeps the type of the knowledge queue.
LEMMA SendScanTyped ==
  ASSUME KnowledgeTypeOK, NEW s, NEW n, SendScan(s, n)
  PROVE  kqueue' \in [KMessages -> Nat]
<1> DEFINE m == <<s, n>>
<1>1. kqueue' = [kqueue EXCEPT ![m] = @ + 1] /\ kqueue \in [KMessages -> Nat]
  BY DEF SendScan, KnowledgeTypeOK
<1> HIDE DEF m
<1>2. CASE m \in KMessages
  BY <1>1, <1>2
<1>3. CASE m \notin KMessages
  BY <1>1, <1>3
<1>4. QED
  BY <1>2, <1>3

\* A handler of the knowledge router keeps the types of the knowledge tables.
LEMMA TypedEnsuringKnowledge == Typed /\ EnsuringKnowledge => Typed'
<1> SUFFICES ASSUME Typed, EnsuringKnowledge PROVE Typed'
  OBVIOUS
<1>1. /\ IngestTypeOK' /\ WorkerTypeOK' /\ KWorkerTypeOK' /\ Held'
      /\ KnowledgeTypeOK
  BY DEF Typed, PipelineTypeOK, EnsuringKnowledge, IngestTypeOK, WorkerTypeOK, KWorkerTypeOK, Held,
         ingestVars, jobVars, boundVars, workerVars, kworkerVars
<1>2. SUFFICES KnowledgeTypeOK'
  BY <1>1 DEF Typed, PipelineTypeOK
<1>3. ASSUME NEW e \in Ensurers, AcceptKCall(e), UNCHANGED <<tableVars, kqueue>>,
             NEW s \in EnsurerStates, ensurer' = [ensurer EXCEPT ![e] = s]
      PROVE  KnowledgeTypeOK'
  BY <1>1, <1>3, KnowledgeAssumption DEF KnowledgeTypeOK, AcceptKCall, tableVars
<1>4. ASSUME NEW e \in Ensurers, NEW r \in ResultIds, EnsureKnowledge(e, r)
      PROVE  KnowledgeTypeOK'
  <2>1. PICK p \in Plans :
          ensurer' = [ensurer EXCEPT ![e] =
            [pc |-> IF ShouldDispatch(p) /\ ~HasActiveIngestion THEN "release" ELSE "wait",
             res |-> r, plan |-> p, send |-> 0]]
    BY <1>4 DEF EnsureKnowledge
  <2>2. [pc |-> IF ShouldDispatch(p) /\ ~HasActiveIngestion THEN "release" ELSE "wait",
         res |-> r, plan |-> p, send |-> 0] \in EnsurerStates
    BY IngestionAssumption, KnowledgeAssumption DEF EnsurerStates, ResultIds
  <2>3. QED
    BY <1>3, <1>4, <2>1, <2>2 DEF EnsureKnowledge
<1>5. ASSUME NEW e \in Ensurers, NEW k \in KJobIds, ReplayKnowledge(e, k)
      PROVE  KnowledgeTypeOK'
  <2>1. [scan |-> kScan[k], kjob |-> 0, write |-> "new_job"] \in Plans
    BY <1>1, KnowledgeAssumption DEF KnowledgeTypeOK, Plans, Writes
  <2>2. [pc |-> "replay", res |-> 0, send |-> 0,
         plan |-> [scan |-> kScan[k], kjob |-> 0, write |-> "new_job"]] \in EnsurerStates
    BY <2>1, IngestionAssumption, KnowledgeAssumption DEF EnsurerStates
  <2>3. QED
    BY <1>3, <1>5, <2>2 DEF ReplayKnowledge
<1>6. NoPlan \in Plans
  BY KnowledgeAssumption DEF NoPlan, Plans, Writes
<1>7. IdleEnsurer \in EnsurerStates
  BY <1>6, IngestionAssumption, KnowledgeAssumption DEF IdleEnsurer, EnsurerStates
<1>8. ASSUME NEW e \in Ensurers, EnsureCommit(e)
      PROVE  KnowledgeTypeOK'
  <2>1. ensurer[e].plan \in Plans /\ ensurer[e].res \in 0..MaxResults
    BY <1>1 DEF KnowledgeTypeOK, EnsurerStates
  <2>2. kqueue' = kqueue /\ kcalls' = kcalls
    BY <1>8 DEF EnsureCommit
  <2>3. CASE Committable(ensurer[e].plan, ensurer[e].res)
    <3> DEFINE status == IF ensurer[e].pc = "release" THEN "pending" ELSE "queued"
               t == IF ensurer[e].pc = "wait" THEN IdleEnsurer
                    ELSE [IdleEnsurer EXCEPT !.pc = "send", !.send = PlanScan(ensurer[e].plan)]
    <3>1. status \in KStatuses
      BY DEF KStatuses
    <3>2. ApplyPlan(ensurer[e].plan, ensurer[e].res, status) /\ ensurer' = [ensurer EXCEPT ![e] = t]
      BY <1>8, <2>3 DEF EnsureCommit
    <3> HIDE DEF status
    <3>3. /\ scanOf' \in [ScanIds -> 0..MaxResults] /\ lastScan' \in 0..MaxScans
          /\ kScan' \in [KJobIds -> 0..MaxScans] /\ kStatus' \in [KJobIds -> KStatuses]
          /\ lastKJob' \in 0..MaxKJobs /\ PlanScan(ensurer[e].plan) \in 0..MaxScans
      BY <1>1, <2>1, <3>1, <3>2, ApplyPlanTyped
    <3>4. t \in EnsurerStates
      BY <1>7, <3>3 DEF EnsurerStates
    <3> HIDE DEF t
    <3>5. QED
      BY <1>1, <2>2, <3>2, <3>3, <3>4 DEF KnowledgeTypeOK
  <2>4. CASE ~Committable(ensurer[e].plan, ensurer[e].res)
    <3>1. ensurer' = [ensurer EXCEPT ![e] = IdleEnsurer] /\ UNCHANGED tableVars
      BY <1>8, <2>4 DEF EnsureCommit
    <3>2. QED
      BY <1>1, <1>7, <2>2, <3>1 DEF KnowledgeTypeOK, tableVars
  <2>5. QED
    BY <2>3, <2>4
<1>9. ASSUME NEW e \in Ensurers, EnsureSend(e)
      PROVE  KnowledgeTypeOK'
  <2>1. kqueue' \in [KMessages -> Nat]
    BY <1>1, <1>9, SendScanTyped DEF EnsureSend
  <2>2. QED
    BY <1>1, <1>7, <1>9, <2>1 DEF EnsureSend, KnowledgeTypeOK, tableVars
<1>10. QED
  BY <1>4, <1>5, <1>8, <1>9 DEF EnsuringKnowledge

\* A handler of the knowledge router that dies is idle again.
LEMMA TypedLosingEnsurer == Typed /\ LosingEnsurer => Typed'
<1> SUFFICES ASSUME Typed, LosingEnsurer PROVE Typed'
  OBVIOUS
<1>1. PICK e \in Ensurers : EnsurerCrash(e)
  BY DEF LosingEnsurer
<1>2. UNCHANGED <<workerVars, kworkerVars>>
  BY DEF LosingEnsurer
<1>3. IngestTypeOK' /\ WorkerTypeOK' /\ KWorkerTypeOK' /\ Held'
  BY <1>1, <1>2, IngestionAssumption
  DEF Typed, PipelineTypeOK, EnsurerCrash, IngestTypeOK, WorkerTypeOK, KWorkerTypeOK, Held,
      jobVars, workerVars, kworkerVars
<1>4. NoPlan \in Plans
  BY KnowledgeAssumption DEF NoPlan, Plans, Writes
<1>5. IdleEnsurer \in EnsurerStates
  BY <1>4, IngestionAssumption, KnowledgeAssumption DEF IdleEnsurer, EnsurerStates
<1>6. KnowledgeTypeOK'
  BY <1>1, <1>5 DEF Typed, PipelineTypeOK, EnsurerCrash, KnowledgeTypeOK, tableVars
<1>7. QED
  BY <1>3, <1>6 DEF Typed, PipelineTypeOK

-----------------------------------------------------------------------------
(* Steps of an OCR worker. *)

\* A task moves to a typed state; if it goes on, it holds an inserted job.
WorkerMoves(w) ==
  \E s \in WorkerStates : /\ worker' = [worker EXCEPT ![w] = s]
                          /\ s.pc # "idle" => s.job \in 1..lastJob

\* A task that is not idle keeps its job when it only moves on.
LEMMA GotoMoves ==
  ASSUME WorkerTypeOK, Held, NEW w \in Workers, worker[w].pc # "idle",
         NEW pc \in WorkerPcs, Goto(w, pc)
  PROVE  WorkerMoves(w)
<1> DEFINE s == [worker[w] EXCEPT !.pc = pc]
<1>1. worker[w] \in WorkerStates /\ worker[w].job \in 1..lastJob
  BY DEF WorkerTypeOK, Held
<1>2. s \in WorkerStates /\ s.job = worker[w].job
  BY <1>1 DEF WorkerStates
<1>3. worker' = [worker EXCEPT ![w] = s]
  BY DEF Goto
<1>4. QED
  BY <1>1, <1>2, <1>3 DEF WorkerMoves

\* The idle task is a typed state.
LEMMA IdleWorkerTyped == IdleWorker \in WorkerStates /\ IdleWorker.pc = "idle"
<1>1. NoPlan \in Plans
  BY KnowledgeAssumption DEF NoPlan, Plans, Writes
<1>2. QED
  BY <1>1, IngestionAssumption, KnowledgeAssumption DEF IdleWorker, WorkerStates, WorkerPcs

\* A task may end at any time.
LEMMA EndTaskMoves ==
  ASSUME NEW w \in Workers, EndTask(w)
  PROVE  WorkerMoves(w)
  BY IdleWorkerTyped DEF EndTask, WorkerMoves

\* A task moves, the bounds and the statuses of rows keep their types: so do all
\* the variables.
LEMMA WorkerStepTyped ==
  ASSUME Typed, NEW w \in Workers, WorkerMoves(w), UNCHANGED <<kworkerVars, lastJob, api, jobDoc>>,
         IngestTypeOK', KnowledgeTypeOK', failures' \in 0..MaxFailures,
         \A j \in JobIds : j > lastJob => jobStatus'[j] = "absent" /\ queue'[j] = 0
  PROVE  Typed'
<1>1. PICK s \in WorkerStates : /\ worker' = [worker EXCEPT ![w] = s]
                                /\ s.pc # "idle" => s.job \in 1..lastJob
  BY DEF WorkerMoves
<1>2. WorkerTypeOK'
  BY <1>1 DEF Typed, PipelineTypeOK, WorkerTypeOK
<1>3. KWorkerTypeOK'
  BY DEF Typed, PipelineTypeOK, KWorkerTypeOK, kworkerVars
<1>4. Held'
  BY <1>1 DEF Typed, PipelineTypeOK, WorkerTypeOK, Held
<1>5. QED
  BY <1>2, <1>3, <1>4 DEF Typed, PipelineTypeOK

\* A step that leaves the ingestion tables alone.
LEMMA WorkerLocalStepTyped ==
  ASSUME Typed, NEW w \in Workers, WorkerMoves(w), UNCHANGED <<kworkerVars, ingestVars>>,
         KnowledgeTypeOK', failures' \in 0..MaxFailures
  PROVE  Typed'
<1>1. IngestTypeOK' /\ UNCHANGED <<lastJob, api, jobDoc, jobStatus, queue>>
  BY DEF Typed, PipelineTypeOK, IngestTypeOK, ingestVars, jobVars, boundVars
<1>2. \A j \in JobIds : j > lastJob => jobStatus'[j] = "absent" /\ queue'[j] = 0
  BY <1>1 DEF Typed, Held
<1>3. QED
  BY <1>1, <1>2, WorkerStepTyped

\* A step that changes no more than the status of a job in the ingestion tables.
LEMMA WorkerStatusStepTyped ==
  ASSUME Typed, NEW w \in Workers, WorkerMoves(w), worker[w].pc # "idle",
         NEW st \in JobStatuses,
         jobStatus' = jobStatus \/ jobStatus' = [jobStatus EXCEPT ![worker[w].job] = st],
         UNCHANGED <<version, submitted, jobDoc, overdue, lastJob, queue, result, lastResult,
                     api, boundVars, knowledgeVars, failures, kworkerVars>>
  PROVE  Typed'
<1>1. KnowledgeTypeOK' /\ failures' \in 0..MaxFailures
  BY DEF Typed, PipelineTypeOK, KnowledgeTypeOK, WorkerTypeOK, knowledgeVars, tableVars
<1>2. IngestTypeOK'
  BY DEF Typed, PipelineTypeOK, IngestTypeOK, boundVars
<1>3. \A j \in JobIds : j > lastJob => jobStatus'[j] = "absent" /\ queue'[j] = 0
  BY IngestionAssumption DEF Typed, PipelineTypeOK, IngestTypeOK, Held, JobIds
<1>4. QED
  BY <1>1, <1>2, <1>3, WorkerStepTyped

\* A message is taken.
LEMMA ReceiveTyped ==
  ASSUME Typed, NEW w \in Workers, NEW j \in JobIds, Receive(w, j), UNCHANGED kworkerVars
  PROVE  Typed'
<1>1. KnowledgeTypeOK' /\ failures' \in 0..MaxFailures
  BY DEF Typed, PipelineTypeOK, KnowledgeTypeOK, WorkerTypeOK, knowledgeVars, tableVars, Receive
<1>2. IngestTypeOK /\ Held
  BY DEF Typed, PipelineTypeOK
<1>3. queue' \in [JobIds -> Nat]
  BY <1>2 DEF Receive, IngestTypeOK
<1>4. IngestTypeOK'
  BY <1>2, <1>3 DEF Receive, IngestTypeOK, JobStatuses, ActiveStatuses, boundVars
<1>5. j \in 1..lastJob
  <2>1. ~(j > lastJob)
    BY <1>2 DEF Receive, Held
  <2>2. QED
    BY <1>2, <2>1, IngestionAssumption DEF IngestTypeOK, JobIds
<1>6. ASSUME NEW i \in JobIds, i > lastJob
      PROVE  jobStatus'[i] = "absent" /\ queue'[i] = 0
  <2>1. jobStatus[i] = "absent" /\ queue[i] = 0 /\ i # j
    BY <1>2, <1>5, <1>6, IngestionAssumption DEF Held, IngestTypeOK, JobIds
  <2>2. QED
    BY <1>2, <2>1 DEF Receive, IngestTypeOK
<1>7. WorkerMoves(w)
  <2> DEFINE s == [IdleWorker EXCEPT !.pc = "read", !.job = j]
  <2>1. j \in 0..MaxJobs
    BY IngestionAssumption DEF JobIds
  <2>2. s \in WorkerStates /\ s.job = j
    BY <2>1, IdleWorkerTyped DEF WorkerStates, WorkerPcs
  <2> HIDE DEF s
  <2>3. CASE worker' = [worker EXCEPT ![w] = s]
    BY <1>5, <2>2, <2>3 DEF WorkerMoves
  <2>4. CASE worker' = worker
    <3>1. worker' = [worker EXCEPT ![w] = worker[w]] /\ worker[w] \in WorkerStates
      BY <2>4 DEF Typed, PipelineTypeOK, WorkerTypeOK
    <3>2. QED
      BY <3>1 DEF WorkerMoves, Typed, Held
  <2>5. QED
    BY <2>3, <2>4 DEF Receive, s
<1>8. QED
  BY <1>1, <1>4, <1>6, <1>7, WorkerStepTyped DEF Receive, boundVars

\* An OCR result is stored.
LEMMA StoreResultTyped ==
  ASSUME Typed, NEW w \in Workers, StoreResult(w), UNCHANGED kworkerVars
  PROVE  Typed'
<1> DEFINE j == worker[w].job
           r == lastResult + 1
           row == [doc |-> jobDoc[j], ver |-> worker[w].ver, job |-> j]
           s == [worker[w] EXCEPT !.pc = "mark", !.res = r]
<1>1. IngestTypeOK /\ KnowledgeTypeOK /\ WorkerTypeOK /\ Held
  BY DEF Typed, PipelineTypeOK
<1>2. worker[w] \in WorkerStates /\ j \in 1..lastJob /\ j \in 0..MaxJobs /\ j \in JobIds
  <2>1. worker[w] \in WorkerStates /\ j \in 1..lastJob
    BY <1>1 DEF WorkerTypeOK, Held, StoreResult
  <2>2. QED
    BY <1>1, <2>1, IngestionAssumption DEF JobIds, IngestTypeOK
<1>3. r \in 0..MaxResults /\ r \in ResultIds
  BY <1>1, IngestionAssumption DEF StoreResult, IngestTypeOK, ResultIds
<1>4. row \in Results
  BY <1>1, <1>2 DEF IngestTypeOK, Results, WorkerStates
<1>5. s \in WorkerStates /\ s.job = j
  BY <1>2, <1>3 DEF WorkerStates, WorkerPcs
<1>6. /\ worker' = [worker EXCEPT ![w] = s]
      /\ result' = [result EXCEPT ![r] = row]
      /\ lastResult' = r
      /\ UNCHANGED <<version, submitted, jobVars, queue, api, boundVars, knowledgeVars, failures>>
  BY DEF StoreResult
<1> HIDE DEF j, r, row, s
<1>7. WorkerMoves(w)
  BY <1>2, <1>5, <1>6 DEF WorkerMoves
<1>8. IngestTypeOK'
  BY <1>1, <1>3, <1>4, <1>6 DEF IngestTypeOK, jobVars, boundVars
<1>9. KnowledgeTypeOK' /\ failures' \in 0..MaxFailures
  BY <1>1, <1>6 DEF KnowledgeTypeOK, WorkerTypeOK, knowledgeVars, tableVars
<1>10. \A i \in JobIds : i > lastJob => jobStatus'[i] = "absent" /\ queue'[i] = 0
  BY <1>1, <1>6 DEF Held, jobVars
<1>11. QED
  BY <1>6, <1>7, <1>8, <1>9, <1>10, WorkerStepTyped DEF jobVars

\* A scan unit and its job are committed.
LEMMA CommitScanUnitTyped ==
  ASSUME Typed, NEW w \in Workers, CommitScanUnit(w), UNCHANGED kworkerVars
  PROVE  Typed'
<1>1. KnowledgeTypeOK /\ WorkerTypeOK /\ Held /\ worker[w].pc # "idle"
  BY DEF Typed, PipelineTypeOK, CommitScanUnit
<1>2. /\ worker[w].plan \in Plans /\ worker[w].res \in 0..MaxResults
      /\ worker[w].job \in 1..lastJob /\ worker[w].job \in 0..MaxJobs
  BY <1>1 DEF WorkerTypeOK, WorkerStates, Held
<1>3. kqueue' = kqueue /\ ensurer' = ensurer /\ kcalls' = kcalls /\ UNCHANGED ingestVars
      /\ failures' \in 0..MaxFailures
  BY <1>1 DEF CommitScanUnit, WorkerTypeOK
<1>4. CASE Committable(worker[w].plan, worker[w].res)
  <2> DEFINE s == [IdleWorker EXCEPT !.pc = "drain", !.job = worker[w].job]
  <2>1. s \in WorkerStates /\ s.job = worker[w].job
    BY <1>2, IdleWorkerTyped DEF WorkerStates, WorkerPcs
  <2>2. ApplyPlan(worker[w].plan, worker[w].res, "queued") /\ worker' = [worker EXCEPT ![w] = s]
    BY <1>4 DEF CommitScanUnit
  <2> HIDE DEF s
  <2>3. "queued" \in KStatuses
    BY DEF KStatuses
  <2>4. KnowledgeTypeOK'
    BY <1>1, <1>2, <1>3, <2>2, <2>3, ApplyPlanTyped DEF KnowledgeTypeOK
  <2>5. WorkerMoves(w)
    BY <1>2, <2>1, <2>2 DEF WorkerMoves
  <2>6. QED
    BY <1>3, <2>4, <2>5, WorkerLocalStepTyped
<1>5. CASE ~Committable(worker[w].plan, worker[w].res)
  <2>1. Goto(w, "failing") /\ UNCHANGED tableVars
    BY <1>5 DEF CommitScanUnit
  <2>2. "failing" \in WorkerPcs
    BY DEF WorkerPcs
  <2>3. KnowledgeTypeOK'
    BY <1>1, <1>3, <2>1 DEF KnowledgeTypeOK, tableVars
  <2>4. QED
    BY <1>1, <1>3, <2>1, <2>2, <2>3, GotoMoves, WorkerLocalStepTyped
<1>6. QED
  BY <1>4, <1>5

\* The release: statuses first, then one message after the other.
LEMMA ReleaseTyped ==
  ASSUME Typed, NEW w \in Workers, UNCHANGED kworkerVars,
         Release(w) \/ \E s \in ScanIds : SendReleased(w, s)
  PROVE  Typed'
<1>1. KnowledgeTypeOK /\ WorkerTypeOK /\ Held /\ worker[w].pc # "idle"
  BY DEF Typed, PipelineTypeOK, Release, SendReleased
<1>2. worker[w] \in WorkerStates /\ worker[w].job \in 1..lastJob
  BY <1>1 DEF WorkerTypeOK, Held
<1>3. UNCHANGED ingestVars /\ failures' \in 0..MaxFailures
  BY <1>1 DEF Release, SendReleased, WorkerTypeOK
<1>4. ASSUME \A k \in worker[w].jobs : kScan[k] # 0,
             kStatus' = [k \in KJobIds |-> IF k \in worker[w].jobs THEN "pending" ELSE kStatus[k]],
             worker' = [worker EXCEPT ![w].pc = "send", ![w].jobs = {},
                                      ![w].send = {kScan[k] : k \in worker[w].jobs}],
             UNCHANGED <<scanOf, lastScan, kScan, lastKJob, kqueue, ensurer, kcalls>>
      PROVE  Typed'
  <2> DEFINE ss == {kScan[k] : k \in worker[w].jobs}
             s == [worker[w] EXCEPT !.pc = "send", !.jobs = {}, !.send = ss]
  <2>1. ss \in SUBSET ScanIds
    BY <1>1, <1>2, <1>4, KnowledgeAssumption DEF KnowledgeTypeOK, WorkerStates, ScanIds
  <2>2. worker' = [worker EXCEPT ![w] = s]
    BY <1>4
  <2> HIDE DEF ss
  <2>3. s \in WorkerStates /\ s.job = worker[w].job
    BY <1>2, <2>1 DEF WorkerStates, WorkerPcs
  <2> HIDE DEF s
  <2>4. WorkerMoves(w)
    BY <1>2, <2>2, <2>3 DEF WorkerMoves
  <2>5. KnowledgeTypeOK'
    BY <1>1, <1>4 DEF KnowledgeTypeOK, KStatuses
  <2>6. QED
    BY <1>3, <2>4, <2>5, WorkerLocalStepTyped
<1>5. ASSUME Raise(w), UNCHANGED <<kStatus, scanOf, lastScan, kScan, lastKJob, kqueue, ensurer, kcalls>>
      PROVE  Typed'
  <2>1. "failing" \in WorkerPcs
    BY DEF WorkerPcs
  <2>2. WorkerMoves(w)
    BY <1>1, <1>5, <2>1, GotoMoves, EndTaskMoves DEF Raise
  <2>3. KnowledgeTypeOK'
    BY <1>1, <1>5 DEF KnowledgeTypeOK
  <2>4. QED
    BY <1>3, <2>2, <2>3, WorkerLocalStepTyped
<1>6. ASSUME NEW s \in ScanIds, SendReleased(w, s)
      PROVE  Typed'
  <2>1. KnowledgeTypeOK'
    BY <1>1, <1>6, SendScanTyped DEF SendReleased, KnowledgeTypeOK, tableVars
  <2>2. WorkerMoves(w)
    <3>1. CASE EndTask(w)
      BY <3>1, EndTaskMoves
    <3>2. CASE worker' = [worker EXCEPT ![w].send = @ \ {s}]
      <4> DEFINE t == [worker[w] EXCEPT !.send = @ \ {s}]
      <4>1. t \in WorkerStates /\ t.job = worker[w].job
        BY <1>2 DEF WorkerStates
      <4>2. worker' = [worker EXCEPT ![w] = t]
        BY <3>2
      <4>3. QED
        BY <1>2, <4>1, <4>2 DEF WorkerMoves
    <3>3. QED
      BY <1>6, <3>1, <3>2 DEF SendReleased
  <2>3. QED
    BY <1>3, <2>1, <2>2, WorkerLocalStepTyped
<1>7. ASSUME Release(w) PROVE Typed'
  BY <1>4, <1>5, <1>7 DEF Release
<1>8. QED
  BY <1>6, <1>7

\* Every step of an OCR worker keeps the types.
LEMMA TypedOcr == Typed /\ Ocr => Typed'
<1> SUFFICES ASSUME Typed, NEW w \in Workers, UNCHANGED kworkerVars,
                    \/ \E j \in JobIds : Receive(w, j)
                    \/ OcrTask(w) \/ OcrFails(w) \/ WorkerCrash(w)
             PROVE  Typed'
  BY DEF Ocr
<1>1. IngestTypeOK /\ KnowledgeTypeOK /\ WorkerTypeOK /\ Held
  BY DEF Typed, PipelineTypeOK
<1>2. ASSUME UNCHANGED knowledgeVars
      PROVE  KnowledgeTypeOK'
  BY <1>1, <1>2 DEF KnowledgeTypeOK, knowledgeVars, tableVars
<1>3. ASSUME UNCHANGED failures
      PROVE  failures' \in 0..MaxFailures
  BY <1>1, <1>3 DEF WorkerTypeOK
<1>4. ASSUME UNCHANGED <<ingestVars, knowledgeVars, failures>>, WorkerMoves(w)
      PROVE  Typed'
  BY <1>2, <1>3, <1>4, WorkerLocalStepTyped
<1>5. {"failing", "ensure", "collect"} \subseteq WorkerPcs
  BY DEF WorkerPcs
<1>6. {"failed", "succeeded"} \subseteq JobStatuses
  BY DEF JobStatuses
<1>7. worker[w] \in WorkerStates /\ (worker[w].pc # "idle" => worker[w].job \in 1..lastJob)
  BY <1>1 DEF WorkerTypeOK, Held
<1>8. ASSUME NEW s \in WorkerStates, s.job = worker[w].job, worker[w].pc # "idle",
             worker' = [worker EXCEPT ![w] = s], UNCHANGED <<ingestVars, knowledgeVars, failures>>
      PROVE  Typed'
  BY <1>4, <1>7, <1>8 DEF WorkerMoves
<1>9. ASSUME NEW j \in JobIds, Receive(w, j)
      PROVE  Typed'
  BY <1>9, ReceiveTyped
<1>10. ASSUME ReadVersion(w)
       PROVE  Typed'
  <2> DEFINE v == version[jobDoc[worker[w].job]]
             s == [worker[w] EXCEPT !.pc = "ocr", !.ver = v]
  <2>1. worker[w].job \in 1..lastJob /\ worker[w].job \in JobIds
    BY <1>1, <1>7, <1>10, IngestionAssumption DEF ReadVersion, JobIds, IngestTypeOK
  <2>2. v \in 0..MaxVersion
    BY <1>1, <2>1, IngestionAssumption DEF Held, IngestTypeOK
  <2>3. CASE worker' = [worker EXCEPT ![w] = s]
    <3> HIDE DEF v
    <3>1. s \in WorkerStates /\ s.job = worker[w].job
      BY <1>7, <2>2 DEF WorkerStates, WorkerPcs
    <3> HIDE DEF s
    <3>2. QED
      BY <1>8, <1>10, <2>3, <3>1 DEF ReadVersion
  <2>4. CASE Goto(w, "failing")
    BY <1>1, <1>4, <1>5, <1>10, <2>4, GotoMoves DEF ReadVersion
  <2>5. QED
    BY <1>10, <2>3, <2>4 DEF ReadVersion
<1>11. ASSUME RunOcr(w)
       PROVE  Typed'
  <2>1. PICK r \in 0..MaxResults :
          worker' = [worker EXCEPT ![w].pc = IF r = 0 THEN "store" ELSE "mark", ![w].res = r]
    BY <1>11 DEF RunOcr
  <2> DEFINE s == [worker[w] EXCEPT !.pc = IF r = 0 THEN "store" ELSE "mark", !.res = r]
  <2>2. s \in WorkerStates /\ s.job = worker[w].job
    BY <1>7 DEF WorkerStates, WorkerPcs
  <2>3. worker' = [worker EXCEPT ![w] = s]
    BY <2>1
  <2> HIDE DEF s
  <2>4. QED
    BY <1>8, <1>11, <2>2, <2>3 DEF RunOcr
<1>12. ASSUME OcrFails(w)
       PROVE  Typed'
  <2>1. WorkerMoves(w)
    BY <1>1, <1>5, <1>12, GotoMoves DEF OcrFails
  <2>2. failures' \in 0..MaxFailures
    BY <1>1, <1>12, WorkerAssumption DEF OcrFails, WorkerTypeOK
  <2>3. QED
    BY <1>2, <1>12, <2>1, <2>2, WorkerLocalStepTyped DEF OcrFails
<1>13. ASSUME StoreResult(w)
       PROVE  Typed'
  BY <1>13, StoreResultTyped
<1>14. ASSUME MarkSucceeded(w)
       PROVE  Typed'
  <2>1. WorkerMoves(w)
    BY <1>1, <1>5, <1>14, GotoMoves DEF MarkSucceeded
  <2>2. QED
    BY <1>6, <1>14, <2>1, WorkerStatusStepTyped DEF MarkSucceeded
<1>15. ASSUME EnsureScanUnit(w)
       PROVE  Typed'
  <2>1. CASE Goto(w, "failing")
    BY <1>1, <1>4, <1>5, <1>15, <2>1, GotoMoves DEF EnsureScanUnit
  <2>2. CASE \E p \in Plans : worker' = [worker EXCEPT ![w].pc = "commit", ![w].plan = p]
    <3>1. PICK p \in Plans : worker' = [worker EXCEPT ![w].pc = "commit", ![w].plan = p]
      BY <2>2
    <3> DEFINE s == [worker[w] EXCEPT !.pc = "commit", !.plan = p]
    <3>2. s \in WorkerStates /\ s.job = worker[w].job
      BY <1>7 DEF WorkerStates, WorkerPcs
    <3>3. worker' = [worker EXCEPT ![w] = s]
      BY <3>1
    <3> HIDE DEF s
    <3>4. QED
      BY <1>8, <1>15, <3>2, <3>3 DEF EnsureScanUnit
  <2>3. QED
    BY <1>15, <2>1, <2>2 DEF EnsureScanUnit
<1>16. ASSUME CommitScanUnit(w)
       PROVE  Typed'
  BY <1>16, CommitScanUnitTyped
<1>17. ASSUME DrainGate(w)
       PROVE  Typed'
  BY <1>1, <1>4, <1>5, <1>17, GotoMoves, EndTaskMoves DEF DrainGate
<1>18. ASSUME Collect(w)
       PROVE  Typed'
  <2>1. CASE EndTask(w)
    BY <1>4, <1>18, <2>1, EndTaskMoves DEF Collect
  <2>2. CASE worker' = [worker EXCEPT ![w].pc = "release", ![w].jobs = Dispatchable]
    <3> DEFINE s == [worker[w] EXCEPT !.pc = "release", !.jobs = Dispatchable]
    <3>1. Dispatchable \in SUBSET KJobIds
      BY DEF Dispatchable
    <3>2. s \in WorkerStates /\ s.job = worker[w].job
      BY <1>7, <3>1 DEF WorkerStates, WorkerPcs
    <3>3. worker' = [worker EXCEPT ![w] = s]
      BY <2>2
    <3> HIDE DEF s
    <3>4. QED
      BY <1>8, <1>18, <3>2, <3>3 DEF Collect
  <2>3. QED
    BY <1>18, <2>1, <2>2 DEF Collect
<1>19. ASSUME Release(w) \/ \E s \in ScanIds : SendReleased(w, s)
       PROVE  Typed'
  BY <1>19, ReleaseTyped
<1>20. ASSUME Except(w)
       PROVE  Typed'
  <2> DEFINE s == [IdleWorker EXCEPT !.pc = "drain", !.job = worker[w].job, !.ok = FALSE]
  <2>1. worker[w].job \in 1..lastJob /\ worker[w].pc # "idle"
    BY <1>7, <1>20 DEF Except
  <2>2. worker[w].job \in 0..MaxJobs
    BY <1>7 DEF WorkerStates
  <2>3. s \in WorkerStates /\ s.job = worker[w].job
    BY <2>2, IdleWorkerTyped DEF WorkerStates, WorkerPcs
  <2>4. EndTask(w) \/ worker' = [worker EXCEPT ![w] = s]
    BY <1>20 DEF Except
  <2> HIDE DEF s
  <2>5. WorkerMoves(w)
    BY <2>1, <2>3, <2>4, EndTaskMoves DEF WorkerMoves
  <2>6. QED
    BY <1>6, <1>20, <2>1, <2>5, WorkerStatusStepTyped DEF Except
<1>21. ASSUME WorkerCrash(w)
       PROVE  Typed'
  <2>1. WorkerMoves(w)
    BY <1>1, <1>5, <1>21, GotoMoves, EndTaskMoves DEF WorkerCrash, Raise
  <2>2. IngestTypeOK'
    BY <1>1, <1>21, IngestionAssumption DEF WorkerCrash, IngestTypeOK, jobVars
  <2>3. \A j \in JobIds : j > lastJob => jobStatus'[j] = "absent" /\ queue'[j] = 0
    BY <1>1, <1>21 DEF WorkerCrash, Held, jobVars
  <2>4. QED
    BY <1>2, <1>3, <1>21, <2>1, <2>2, <2>3, WorkerStepTyped DEF WorkerCrash, jobVars
<1>22. QED
  BY <1>9, <1>10, <1>11, <1>12, <1>13, <1>14, <1>15, <1>16, <1>17, <1>18, <1>19, <1>20, <1>21
  DEF OcrTask
-----------------------------------------------------------------------------
(* Steps of a knowledge worker. *)

\* Every step of a knowledge worker keeps the types: it moves to a typed state,
\* writes statuses that exist, and takes or sends messages.
LEMMA TypedKnowledge == Typed /\ Knowledge => Typed'
<1> SUFFICES ASSUME Typed, NEW n \in KWorkers,
                    \/ \E m \in KMessages : KReceive(n, m)
                    \/ KTask(n) \/ KWorkerCrash(n)
             PROVE  Typed'
  BY DEF Knowledge
<1>1. KnowledgeTypeOK /\ KWorkerTypeOK /\ kworker[n] \in KWorkerStates
  BY DEF Typed, PipelineTypeOK, KWorkerTypeOK
<1>2. ASSUME KUnchanged, kworker' \in [KWorkers -> KWorkerStates], kfailures' \in 0..MaxKFailures,
             kStatus' \in [KJobIds -> KStatuses], kqueue' \in [KMessages -> Nat]
      PROVE  Typed'
  <2>1. IngestTypeOK' /\ WorkerTypeOK' /\ Held'
    BY <1>2 DEF Typed, PipelineTypeOK, KUnchanged, IngestTypeOK, WorkerTypeOK, Held,
                ingestVars, jobVars, boundVars, workerVars
  <2>2. KnowledgeTypeOK'
    BY <1>1, <1>2 DEF KUnchanged, KnowledgeTypeOK
  <2>3. KWorkerTypeOK'
    BY <1>2 DEF KWorkerTypeOK
  <2>4. QED
    BY <2>1, <2>2, <2>3 DEF Typed, PipelineTypeOK
<1>3. IdleKWorker \in KWorkerStates
  BY KnowledgeAssumption DEF IdleKWorker, KWorkerStates, KPcs
<1>4. ASSUME NEW s \in KWorkerStates, kworker' = [kworker EXCEPT ![n] = s]
      PROVE  kworker' \in [KWorkers -> KWorkerStates]
  BY <1>1, <1>4 DEF KWorkerTypeOK
<1>5. ASSUME NEW pc \in KPcs, KGoto(n, pc)
      PROVE  kworker' \in [KWorkers -> KWorkerStates]
  <2> DEFINE s == [kworker[n] EXCEPT !.pc = pc]
  <2>1. s \in KWorkerStates
    BY <1>1 DEF KWorkerStates
  <2>2. kworker' = [kworker EXCEPT ![n] = s]
    BY <1>5 DEF KGoto
  <2> HIDE DEF s
  <2>3. QED
    BY <1>4, <2>1, <2>2
<1>6. ASSUME KEndTask(n)
      PROVE  kworker' \in [KWorkers -> KWorkerStates]
  BY <1>3, <1>4, <1>6 DEF KEndTask
<1>7. ASSUME NEW s, NEW st \in KStatuses, WriteNewest(s, st)
      PROVE  kStatus' \in [KJobIds -> KStatuses]
  BY <1>1, <1>7 DEF WriteNewest, KnowledgeTypeOK
<1>8. {"pending", "processing", "succeeded", "failed"} \subseteq KStatuses
  BY DEF KStatuses
<1>9. {"resend", "run", "finish", "fail", "retry"} \subseteq KPcs
  BY DEF KPcs
<1>10. kqueue \in [KMessages -> Nat] /\ kStatus \in [KJobIds -> KStatuses]
       /\ kfailures \in 0..MaxKFailures
  BY <1>1 DEF KnowledgeTypeOK, KWorkerTypeOK
<1>11. ASSUME NEW m \in KMessages, KReceive(n, m)
       PROVE  Typed'
  <2> DEFINE s == [pc |-> IF HasActiveIngestion THEN "defer" ELSE "start", scan |-> m[1],
                   retries |-> m[2]]
  <2>1. m[1] \in 0..MaxScans /\ m[2] \in 0..MaxRetries
    BY KnowledgeAssumption DEF KMessages, ScanIds
  <2>2. s \in KWorkerStates
    BY <2>1 DEF KWorkerStates, KPcs
  <2>3. kworker' = [kworker EXCEPT ![n] = s]
    BY <1>11 DEF KReceive
  <2> HIDE DEF s
  <2>4. kqueue' \in [KMessages -> Nat]
    BY <1>10, <1>11 DEF KReceive
  <2>5. QED
    BY <1>2, <1>4, <1>10, <1>11, <2>2, <2>3, <2>4 DEF KReceive
<1>12. ASSUME Defer(n) PROVE Typed'
  BY <1>2, <1>5, <1>7, <1>8, <1>9, <1>10, <1>12 DEF Defer
<1>13. ASSUME Resend(n) PROVE Typed'
  BY <1>1, <1>2, <1>6, <1>10, <1>13, SendScanTyped DEF Resend
<1>14. ASSUME Start(n) PROVE Typed'
  BY <1>2, <1>5, <1>7, <1>8, <1>9, <1>10, <1>14 DEF Start
<1>15. ASSUME RunPipeline(n) PROVE Typed'
  BY <1>2, <1>5, <1>9, <1>10, <1>15 DEF RunPipeline
<1>16. ASSUME PipelineFails(n) PROVE Typed'
  <2>1. kfailures' \in 0..MaxKFailures
    BY <1>10, <1>16, KWorkerAssumption DEF PipelineFails
  <2>2. QED
    BY <1>2, <1>5, <1>9, <1>10, <1>16, <2>1 DEF PipelineFails
<1>17. ASSUME Finish(n) PROVE Typed'
  BY <1>2, <1>6, <1>7, <1>8, <1>10, <1>17 DEF Finish
<1>18. ASSUME Fail(n) PROVE Typed'
  BY <1>2, <1>5, <1>6, <1>7, <1>8, <1>9, <1>10, <1>18 DEF Fail
<1>19. ASSUME Retry(n) PROVE Typed'
  BY <1>1, <1>2, <1>6, <1>10, <1>19, SendScanTyped DEF Retry
<1>20. ASSUME KWorkerCrash(n) PROVE Typed'
  <2>1. kworker' \in [KWorkers -> KWorkerStates]
    BY <1>6, <1>20 DEF KWorkerCrash
  <2>2. KWorkerTypeOK'
    BY <1>10, <1>20, <2>1 DEF KWorkerTypeOK, KWorkerCrash
  <2>3. IngestTypeOK' /\ Held'
    BY <1>20, IngestionAssumption
    DEF Typed, PipelineTypeOK, KWorkerCrash, IngestTypeOK, Held, jobVars, workerVars
  <2>4. WorkerTypeOK' /\ KnowledgeTypeOK'
    BY <1>20
    DEF Typed, PipelineTypeOK, KWorkerCrash, WorkerTypeOK, KnowledgeTypeOK, workerVars,
        knowledgeVars, tableVars
  <2>5. QED
    BY <2>2, <2>3, <2>4 DEF Typed, PipelineTypeOK
<1>21. QED
  BY <1>11, <1>12, <1>13, <1>14, <1>15, <1>16, <1>17, <1>18, <1>19, <1>20 DEF KTask

-----------------------------------------------------------------------------
(* Type correctness. *)

\* A stuttering step changes nothing.
LEMMA TypedStutter == Typed /\ UNCHANGED vars => Typed'
  BY DEF Typed, PipelineTypeOK, IngestTypeOK, KnowledgeTypeOK, WorkerTypeOK, KWorkerTypeOK, Held,
         vars, ingestVars, jobVars, boundVars, knowledgeVars, tableVars, workerVars, kworkerVars

\* Typed is an invariant of the pipeline.
THEOREM TypedInvariant == Spec => []Typed
<1>1. Typed /\ [Next]_vars => Typed'
  BY TypedIngestion, TypedDeletingOcr, TypedEnsuringKnowledge, TypedLosingEnsurer, TypedOcr,
     TypedKnowledge, TypedStutter
  DEF Next
<1>2. QED
  BY TypedInit, <1>1, PTL DEF Spec

\* Every row, message, handler and task stays in the type PipelineTypeOK gives it,
\* for every number of them.
THEOREM TypeCorrect == Spec => []PipelineTypeOK
<1>1. Typed => PipelineTypeOK
  BY DEF Typed
<1>2. QED
  BY TypedInvariant, <1>1, PTL

-----------------------------------------------------------------------------
(***************************************************************************)
(* No ingestion job is left active with nobody to end it, as long as no    *)
(* process dies: ActiveJobIsDriven is inductive, given the types.          *)
(***************************************************************************)

\* The places of a task from which its job is still marked.
DrivingPcs == {"read", "ocr", "store", "mark", "failing"}

\* A task that stays at such a place with its job, or was at none, takes nothing
\* away from what drives a job.
LEMMA WorkerKeepsDriven ==
  ASSUME Typed, NEW w \in Workers, NEW j \in JobIds, Driven(j), UNCHANGED <<queue, api>>,
         NEW s, worker' = [worker EXCEPT ![w] = s],
         worker[w].pc \in DrivingPcs => s.pc \in DrivingPcs /\ s.job = worker[w].job
  PROVE  Driven(j)'
<1>1. worker \in [Workers -> WorkerStates]
  BY DEF Typed, PipelineTypeOK, WorkerTypeOK
<1>2. QED
  BY <1>1 DEF Driven, DrivingPcs

\* Moving on to such a place is enough.
LEMMA GotoKeepsDriven ==
  ASSUME Typed, NEW w \in Workers, NEW j \in JobIds, Driven(j), UNCHANGED <<queue, api>>,
         NEW pc, Goto(w, pc), pc \in DrivingPcs \/ worker[w].pc \notin DrivingPcs
  PROVE  Driven(j)'
<1> DEFINE s == [worker[w] EXCEPT !.pc = pc]
<1>1. worker[w] \in WorkerStates
  BY DEF Typed, PipelineTypeOK, WorkerTypeOK
<1>2. s.pc = pc /\ s.job = worker[w].job
  BY <1>1 DEF WorkerStates
<1>3. worker' = [worker EXCEPT ![w] = s]
  BY DEF Goto
<1> HIDE DEF s
<1>4. QED
  BY <1>2, <1>3, WorkerKeepsDriven

\* So is a task that ends after its job was marked.
LEMMA EndTaskKeepsDriven ==
  ASSUME Typed, NEW w \in Workers, NEW j \in JobIds, Driven(j), UNCHANGED <<queue, api>>,
         EndTask(w), worker[w].pc \notin DrivingPcs
  PROVE  Driven(j)'
  BY WorkerKeepsDriven DEF EndTask

\* A handler that does not leave "dispatch" takes nothing away either.
LEMMA ClientKeepsDriven ==
  ASSUME Typed, NEW c \in Clients, NEW j \in JobIds, Driven(j), UNCHANGED <<queue, worker>>,
         NEW s, api' = [api EXCEPT ![c] = s], api[c].pc # "dispatch"
  PROVE  Driven(j)'
<1>1. api \in [Clients -> ClientStates]
  BY DEF Typed, PipelineTypeOK, IngestTypeOK
<1>2. QED
  BY <1>1 DEF Driven

\* Handlers: the job that FindActiveJob or InsertJob hands to DispatchJob stays
\* driven, and reconciliation only ends jobs.
LEMMA DrivenIngestion ==
  ASSUME Typed, Ingestion, crashes' = crashes,
         NEW j \in JobIds, Active(j) => Driven(j), Active(j)'
  PROVE  Driven(j)'
<1>1. IngestTypeOK /\ Held /\ worker' = worker
  BY DEF Typed, PipelineTypeOK, Ingestion, workerVars
<1>2. ASSUME jobStatus' = jobStatus, queue' = queue, NEW c \in Clients,
             NEW s, api' = [api EXCEPT ![c] = s], api[c].pc # "dispatch"
      PROVE  Driven(j)'
  BY <1>1, <1>2, ClientKeepsDriven DEF Active
<1>3. ASSUME NEW c \in Clients, NEW d \in Docs, Upload(c, d) \/ Submit(c, d)
      PROVE  Driven(j)'
  <2>1. CASE BeginSubmission(c, d)
    BY <1>2, <1>3, <2>1 DEF Upload, Submit, AcceptCall, BeginSubmission, jobVars
  <2>2. CASE UNCHANGED api
    BY <1>1, <1>3, <2>2 DEF Upload, Submit, Active, Driven, jobVars
  <2>3. QED
    BY <1>3, <2>1, <2>2 DEF Upload, Submit
<1>4. ASSUME NEW c \in Clients, NEW i \in JobIds, ReplayIngestion(c, i)
      PROVE  Driven(j)'
  BY <1>2, <1>4 DEF ReplayIngestion, AcceptCall, BeginSubmission, jobVars
<1>5. ASSUME NEW c \in Clients, ReconcileOwn(c)
      PROVE  Driven(j)'
  <2>1. Active(j)
    BY <1>1, <1>5 DEF ReconcileOwn, Reconciled, Active, ActiveStatuses
  <2>2. api' = [api EXCEPT ![c] = [api[c] EXCEPT !.pc = "find"]]
    BY <1>5 DEF ReconcileOwn
  <2>3. QED
    BY <1>1, <1>5, <2>1, <2>2, ClientKeepsDriven DEF ReconcileOwn
<1>6. ASSUME NEW c \in Clients, FindActiveJob(c)
      PROVE  Driven(j)'
  <2>1. \E s : api' = [api EXCEPT ![c] = s]
    <3>1. CASE api' = [api EXCEPT ![c].pc = "insert"]
      <4>1. api' = [api EXCEPT ![c] = [api[c] EXCEPT !.pc = "insert"]]
        BY <3>1
      <4>2. QED
        BY <4>1
    <3>2. CASE \E i \in ActiveJobsOf(api[c].doc) :
                 api' = [api EXCEPT ![c].pc = "dispatch", ![c].job = i]
      <4>1. PICK i \in ActiveJobsOf(api[c].doc) :
              api' = [api EXCEPT ![c].pc = "dispatch", ![c].job = i]
        BY <3>2
      <4>2. api' = [api EXCEPT ![c] = [api[c] EXCEPT !.pc = "dispatch", !.job = i]]
        BY <4>1
      <4>3. QED
        BY <4>2
    <3>3. QED
      BY <1>6, <3>1, <3>2 DEF FindActiveJob
  <2>2. QED
    BY <1>2, <1>6, <2>1 DEF FindActiveJob, jobVars
<1>7. ASSUME NEW c \in Clients, InsertJob(c)
      PROVE  Driven(j)'
  <2>1. CASE j = lastJob + 1
    BY <1>1, <1>7, <2>1 DEF InsertJob, Driven, IngestTypeOK, ClientStates
  <2>2. CASE j # lastJob + 1
    <3>1. Active(j)
      BY <1>1, <1>7, <2>2 DEF InsertJob, Active, IngestTypeOK
    <3>2. api' = [api EXCEPT ![c] = [api[c] EXCEPT !.pc = "dispatch", !.job = lastJob + 1]]
      BY <1>7 DEF InsertJob
    <3>3. QED
      BY <1>1, <1>7, <3>1, <3>2, ClientKeepsDriven DEF InsertJob
  <2>3. QED
    BY <2>1, <2>2
<1>8. ASSUME NEW c \in Clients, DispatchJob(c)
       PROVE  Driven(j)'
  <2>1. Driven(j)
    BY <1>8 DEF DispatchJob, Active, jobVars
  <2>2. CASE api[c].job = j
    BY <1>1, <1>8, <2>2 DEF DispatchJob, Driven, IngestTypeOK
  <2>3. CASE api[c].job # j
    BY <1>1, <1>8, <2>1, <2>3 DEF DispatchJob, Driven, IngestTypeOK
  <2>4. QED
    BY <2>2, <2>3
<1>9. ASSUME NEW c \in Clients, ClientCrash(c)
       PROVE  Driven(j)'
  BY <1>1, <1>9 DEF ClientCrash, IngestTypeOK
<1>10. ASSUME NEW i \in JobIds, TimeoutElapses(i)
       PROVE  Driven(j)'
  BY <1>1, <1>10 DEF TimeoutElapses, Active, Driven
<1>11. ASSUME ReconcileAll
       PROVE  Driven(j)'
  <2>1. Active(j)
    BY <1>1, <1>11 DEF ReconcileAll, Reconciled, Active, ActiveStatuses
  <2>2. QED
    BY <1>1, <1>11, <2>1 DEF ReconcileAll, Driven
<1>12. QED
  BY <1>3, <1>4, <1>5, <1>6, <1>7, <1>8, <1>9, <1>10, <1>11 DEF Ingestion

\* Reingest deletes jobs and disturbs no handler under way, no message and no task.
LEMMA DrivenDeletingOcr ==
  ASSUME Typed, DeletingOcr, NEW j \in JobIds, Active(j) => Driven(j), Active(j)'
  PROVE  Driven(j)'
<1> PICK c \in Clients, d \in Docs : Reingest(c, d)
  BY DEF DeletingOcr
<1>1. Driven(j)
  BY DEF Reingest, Active, ActiveStatuses
<1>2. queue' = queue /\ worker' = worker
  BY DEF Reingest, DeletingOcr, workerVars
<1>3. QED
  BY <1>1, <1>2, ClientKeepsDriven DEF Reingest, AcceptCall, BeginSubmission

\* Tasks: a job is driven from the moment its message is taken until it is marked.
LEMMA DrivenOcr ==
  ASSUME Typed, Ocr, crashes' = crashes,
         NEW j \in JobIds, Active(j) => Driven(j), Active(j)'
  PROVE  Driven(j)'
<1> PICK w \in Workers : \/ \E i \in JobIds : Receive(w, i)
                         \/ OcrTask(w) \/ OcrFails(w) \/ WorkerCrash(w)
  BY DEF Ocr
<1>1. /\ worker[w] \in WorkerStates /\ worker \in [Workers -> WorkerStates]
      /\ queue \in [JobIds -> Nat] /\ jobStatus \in [JobIds -> JobStatuses]
      /\ crashes \in Nat
      /\ worker[w].pc # "idle" => worker[w].job \in JobIds
  BY IngestionAssumption, SMTT(30)
  DEF Typed, PipelineTypeOK, WorkerTypeOK, IngestTypeOK, Held, JobIds
<1>2. ASSUME jobStatus'[j] = jobStatus[j]
      PROVE  Driven(j)
  BY <1>2 DEF Active
<1>3. ASSUME UNCHANGED ingestVars
      PROVE  Driven(j) /\ UNCHANGED <<queue, api>>
  BY <1>2, <1>3 DEF ingestVars, jobVars
<1>4. ASSUME NEW i \in JobIds, Receive(w, i)
      PROVE  Driven(j)'
  <2>1. CASE jobStatus[i] = "absent" /\ jobStatus' = jobStatus /\ worker' = worker
    <3>1. Driven(j) /\ i # j
      BY <1>2, <1>4, <2>1 DEF Receive, Active, ActiveStatuses
    <3>2. QED
      BY <1>1, <1>4, <2>1, <3>1 DEF Receive, Driven
  <2>2. CASE /\ jobStatus' = [jobStatus EXCEPT ![i] = "running"]
             /\ worker' = [worker EXCEPT ![w] = [IdleWorker EXCEPT !.pc = "read", !.job = i]]
    <3>1. CASE i = j
      BY <1>1, <2>2, <3>1 DEF Driven, IdleWorker
    <3>2. CASE i # j
      <4>1. Driven(j) /\ queue'[j] = queue[j] /\ api' = api /\ worker[w].pc = "idle"
        BY <1>1, <1>2, <1>4, <2>2, <3>2 DEF Receive
      <4>2. QED
        BY <1>1, <2>2, <4>1 DEF Driven
    <3>3. QED
      BY <3>1, <3>2
  <2>3. QED
    BY <1>4, <2>1, <2>2 DEF Receive
<1>5. ASSUME ReadVersion(w) \/ RunOcr(w)
      PROVE  Driven(j)'
  <2>1. Driven(j) /\ UNCHANGED <<queue, api>>
    BY <1>3, <1>5 DEF ReadVersion, RunOcr
  <2> DEFINE Goes == \E s : /\ worker' = [worker EXCEPT ![w] = s]
                            /\ s.pc \in DrivingPcs /\ s.job = worker[w].job
  <2>2. Goes
    <3>1. ASSUME ReadVersion(w) PROVE Goes
      <4> DEFINE v == version[jobDoc[worker[w].job]]
                 s == [worker[w] EXCEPT !.pc = "ocr", !.ver = v]
                 t == [worker[w] EXCEPT !.pc = "failing"]
      <4>1. worker' = [worker EXCEPT ![w] = s] \/ worker' = [worker EXCEPT ![w] = t]
        BY <3>1 DEF ReadVersion, Goto
      <4>2. s.pc \in DrivingPcs /\ s.job = worker[w].job
        BY <1>1 DEF WorkerStates, DrivingPcs
      <4>3. t.pc \in DrivingPcs /\ t.job = worker[w].job
        BY <1>1 DEF WorkerStates, DrivingPcs
      <4>4. QED
        BY <4>1, <4>2, <4>3
    <3>2. ASSUME RunOcr(w) PROVE Goes
      <4>1. PICK r \in 0..MaxResults :
              worker' = [worker EXCEPT ![w].pc = IF r = 0 THEN "store" ELSE "mark", ![w].res = r]
        BY <3>2 DEF RunOcr
      <4> DEFINE s == [worker[w] EXCEPT !.pc = IF r = 0 THEN "store" ELSE "mark", !.res = r]
      <4>2. worker' = [worker EXCEPT ![w] = s]
        BY <4>1
      <4>3. s.pc \in DrivingPcs /\ s.job = worker[w].job
        BY <1>1 DEF WorkerStates, DrivingPcs
      <4>4. QED
        BY <4>2, <4>3
    <3>3. QED
      BY <1>5, <3>1, <3>2
  <2>3. QED
    BY <2>1, <2>2, WorkerKeepsDriven
<1>6. ASSUME OcrFails(w)
      PROVE  Driven(j)'
  BY <1>3, <1>6, GotoKeepsDriven DEF OcrFails, DrivingPcs
<1>7. ASSUME StoreResult(w)
      PROVE  Driven(j)'
  <2> DEFINE s == [worker[w] EXCEPT !.pc = "mark", !.res = lastResult + 1]
  <2>1. Driven(j) /\ UNCHANGED <<queue, api>>
    BY <1>2, <1>7 DEF StoreResult, jobVars
  <2>2. worker' = [worker EXCEPT ![w] = s]
    BY <1>7 DEF StoreResult
  <2>3. s.pc \in DrivingPcs /\ s.job = worker[w].job
    BY <1>1 DEF WorkerStates, DrivingPcs
  <2> HIDE DEF s
  <2>4. QED
    BY <2>1, <2>2, <2>3, WorkerKeepsDriven
<1>8. ASSUME MarkSucceeded(w)
      PROVE  Driven(j)'
  <2> DEFINE i == worker[w].job
  <2>1. UNCHANGED <<queue, api>>
    BY <1>8 DEF MarkSucceeded
  <2>2. CASE Goto(w, "failing") /\ jobStatus' = jobStatus
    BY <1>2, <2>1, <2>2, GotoKeepsDriven DEF DrivingPcs
  <2>3. CASE jobStatus' = [jobStatus EXCEPT ![i] = "succeeded"] /\ Goto(w, "ensure")
    <3>1. i # j /\ Driven(j)
      BY <1>1, <1>2, <2>1, <2>3 DEF Active, ActiveStatuses
    <3>2. QED
      BY <1>1, <2>1, <2>3, <3>1 DEF Driven, Goto
  <2>4. QED
    BY <1>8, <2>2, <2>3 DEF MarkSucceeded
<1>9. ASSUME worker[w].pc \in WorkerPcs \ DrivingPcs, UNCHANGED ingestVars,
              NEW s, worker' = [worker EXCEPT ![w] = s]
       PROVE  Driven(j)'
  BY <1>3, <1>9, WorkerKeepsDriven
<1>10. ASSUME NEW pc, worker[w].pc \in WorkerPcs \ DrivingPcs, UNCHANGED ingestVars,
              Goto(w, pc) \/ EndTask(w)
       PROVE  Driven(j)'
  BY <1>3, <1>10, GotoKeepsDriven, EndTaskKeepsDriven
<1>11. ASSUME EnsureScanUnit(w)
       PROVE  Driven(j)'
  <2>1. worker[w].pc \in WorkerPcs \ DrivingPcs
    BY <1>11 DEF EnsureScanUnit, WorkerPcs, DrivingPcs
  <2>2. CASE Goto(w, "failing")
    BY <1>10, <1>11, <2>1, <2>2 DEF EnsureScanUnit
  <2>3. CASE \E p \in Plans : worker' = [worker EXCEPT ![w].pc = "commit", ![w].plan = p]
    <3>1. PICK p \in Plans : worker' = [worker EXCEPT ![w].pc = "commit", ![w].plan = p]
      BY <2>3
    <3>2. worker' = [worker EXCEPT ![w] = [worker[w] EXCEPT !.pc = "commit", !.plan = p]]
      BY <3>1
    <3>3. QED
      BY <1>9, <1>11, <2>1, <3>2 DEF EnsureScanUnit
  <2>4. QED
    BY <1>11, <2>2, <2>3 DEF EnsureScanUnit
<1>12. ASSUME CommitScanUnit(w)
       PROVE  Driven(j)'
  <2>1. worker[w].pc \in WorkerPcs \ DrivingPcs
    BY <1>12 DEF CommitScanUnit, WorkerPcs, DrivingPcs
  <2>2. QED
    BY <1>9, <1>10, <1>12, <2>1 DEF CommitScanUnit
<1>13. ASSUME DrainGate(w)
       PROVE  Driven(j)'
  BY <1>10, <1>13 DEF DrainGate, WorkerPcs, DrivingPcs
<1>14. ASSUME Collect(w)
       PROVE  Driven(j)'
  <2>1. worker[w].pc \in WorkerPcs \ DrivingPcs
    BY <1>14 DEF Collect, WorkerPcs, DrivingPcs
  <2>2. CASE EndTask(w)
    BY <1>10, <1>14, <2>1, <2>2 DEF Collect
  <2>3. CASE worker' = [worker EXCEPT ![w].pc = "release", ![w].jobs = Dispatchable]
    <3>1. worker' = [worker EXCEPT ![w] =
                       [worker[w] EXCEPT !.pc = "release", !.jobs = Dispatchable]]
      BY <2>3
    <3>2. QED
      BY <1>9, <1>14, <2>1, <3>1 DEF Collect
  <2>4. QED
    BY <1>14, <2>2, <2>3 DEF Collect
<1>15. ASSUME Release(w)
       PROVE  Driven(j)'
  <2>1. worker[w].pc \in WorkerPcs \ DrivingPcs
    BY <1>15 DEF Release, WorkerPcs, DrivingPcs
  <2>2. CASE Raise(w)
    BY <1>10, <1>15, <2>1, <2>2 DEF Release, Raise
  <2>3. ASSUME NEW ss, worker' = [worker EXCEPT ![w].pc = "send", ![w].jobs = {}, ![w].send = ss]
        PROVE  Driven(j)'
    <3>1. worker' = [worker EXCEPT ![w] =
                       [worker[w] EXCEPT !.pc = "send", !.jobs = {}, !.send = ss]]
      BY <2>3
    <3>2. QED
      BY <1>9, <1>15, <2>1, <3>1 DEF Release
  <2>4. QED
    BY <1>15, <2>2, <2>3 DEF Release
<1>16. ASSUME NEW i \in ScanIds, SendReleased(w, i)
       PROVE  Driven(j)'
  <2>1. worker[w].pc \in WorkerPcs \ DrivingPcs
    BY <1>16 DEF SendReleased, WorkerPcs, DrivingPcs
  <2>2. CASE EndTask(w)
    BY <1>10, <1>16, <2>1, <2>2 DEF SendReleased
  <2>3. CASE worker' = [worker EXCEPT ![w].send = @ \ {i}]
    <3>1. worker' = [worker EXCEPT ![w] = [worker[w] EXCEPT !.send = @ \ {i}]]
      BY <2>3
    <3>2. QED
      BY <1>9, <1>16, <2>1, <3>1 DEF SendReleased
  <2>4. QED
    BY <1>16, <2>2, <2>3 DEF SendReleased
<1>17. ASSUME Except(w)
       PROVE  Driven(j)'
  <2> DEFINE i == worker[w].job
             s == [IdleWorker EXCEPT !.pc = "drain", !.job = i, !.ok = FALSE]
  <2>1. UNCHANGED <<queue, api>> /\ worker[w].pc = "failing"
    BY <1>17 DEF Except
  <2>2. i # j /\ jobStatus'[j] = jobStatus[j]
    BY <1>1, <1>17, <2>1 DEF Except, Active, ActiveStatuses
  <2>3. Driven(j)
    BY <1>2, <2>1, <2>2
  <2>4. \A v \in Workers : v # w => worker'[v] = worker[v]
    BY <1>1, <1>17 DEF Except, EndTask
  <2>5. QED
    BY <2>1, <2>2, <2>3, <2>4 DEF Driven
<1>18. ASSUME WorkerCrash(w)
       PROVE  Driven(j)'
  BY <1>1, <1>18 DEF WorkerCrash
<1>19. QED
  BY <1>4, <1>5, <1>6, <1>7, <1>8, <1>11, <1>12, <1>13, <1>14, <1>15, <1>16, <1>17, <1>18
  DEF OcrTask

\* The knowledge side reads the ingestion tables and never writes them.
LEMMA DrivenElsewhere ==
  ASSUME EnsuringKnowledge \/ LosingEnsurer \/ Knowledge \/ UNCHANGED vars
  PROVE  /\ UNCHANGED <<queue, api, worker, jobStatus>>
         /\ crashes' \in {crashes, crashes + 1}
<1>1. CASE EnsuringKnowledge \/ UNCHANGED vars
  BY <1>1 DEF EnsuringKnowledge, vars, ingestVars, jobVars, boundVars, workerVars
<1>2. CASE Knowledge
  BY <1>2
  DEF Knowledge, KTask, KReceive, Defer, Resend, Start, RunPipeline, PipelineFails, Finish, Fail,
      Retry, KUnchanged, KWorkerCrash, ingestVars, jobVars, boundVars, workerVars
<1>3. CASE LosingEnsurer
  BY <1>3 DEF LosingEnsurer, EnsurerCrash, jobVars, workerVars
<1>4. QED
  BY <1>1, <1>2, <1>3

\* A step in which no process dies leaves no active job behind that was driven, and
\* starts none that is not.
LEMMA DrivenStep ==
  ASSUME Typed, [Next]_vars, crashes' = crashes, NEW j \in JobIds, Active(j) => Driven(j)
  PROVE  Active(j)' => Driven(j)'
<1>1. CASE UNCHANGED <<queue, api, worker, jobStatus>>
  BY <1>1 DEF Driven, Active
<1>2. QED
  BY <1>1, DrivenIngestion, DrivenDeletingOcr, DrivenOcr, DrivenElsewhere DEF Next

\* A step that does not count a death never takes one back.
LEMMA CrashesGrow ==
  ASSUME Typed, [Next]_vars
  PROVE  crashes' \in {crashes, crashes + 1}
<1>1. CASE Ingestion
  BY <1>1
  DEF Ingestion, Upload, Submit, ReplayIngestion, AcceptCall, ReconcileOwn, FindActiveJob, InsertJob,
      DispatchJob, ClientCrash, TimeoutElapses, ReconcileAll, boundVars
<1>2. CASE DeletingOcr
  BY <1>2 DEF DeletingOcr, Reingest
<1>3. CASE Ocr
  <2>1. PICK w \in Workers : \/ \E j \in JobIds : Receive(w, j)
                             \/ OcrTask(w) \/ OcrFails(w) \/ WorkerCrash(w)
    BY <1>3 DEF Ocr
  <2>2. CASE \/ \E j \in JobIds : Receive(w, j)
             \/ StoreResult(w) \/ MarkSucceeded(w) \/ Except(w) \/ WorkerCrash(w)
    BY <2>2 DEF Receive, StoreResult, MarkSucceeded, Except, WorkerCrash, boundVars
  <2>3. CASE UNCHANGED ingestVars
    BY <2>3 DEF ingestVars, boundVars
  <2>4. QED
    BY <2>1, <2>2, <2>3
    DEF OcrTask, OcrFails, ReadVersion, RunOcr, EnsureScanUnit, CommitScanUnit, DrainGate, Collect,
        Release, SendReleased
<1>4. QED
  BY <1>1, <1>2, <1>3, DrivenElsewhere DEF Next

\* As long as no process dies, every active ingestion job is being driven: for
\* every number of documents, handlers, workers, jobs and messages.
THEOREM ActiveJobsAreDriven == Spec => []ActiveJobIsDriven
<1>1. Init => ActiveJobIsDriven
  BY DEF Init, IngestInit, ActiveJobIsDriven, Active, ActiveStatuses
<1>2. Typed /\ ActiveJobIsDriven /\ [Next]_vars => ActiveJobIsDriven'
  <2> SUFFICES ASSUME Typed, ActiveJobIsDriven, [Next]_vars, crashes' = 0, NEW j \in JobIds
               PROVE  Active(j)' => Driven(j)'
    BY DEF ActiveJobIsDriven
  <2>1. crashes' = crashes /\ crashes = 0
    BY CrashesGrow DEF Typed, PipelineTypeOK, IngestTypeOK
  <2>2. QED
    BY <2>1, DrivenStep DEF ActiveJobIsDriven
<1>3. QED
  BY TypedInvariant, <1>1, <1>2, PTL DEF Spec

-----------------------------------------------------------------------------
(* What a death costs. *)

\* Active ingestion jobs with nobody to end them.
OrphanJobs == {j \in JobIds : Active(j) /\ ~Driven(j)}

\* A handler or a task that dies was driving one job, the one it held.
LEMMA DeathOrphansOne ==
  ASSUME Typed, [Next]_vars, crashes' # crashes
  PROVE  \E i : \A j \in JobIds : j # i /\ (Active(j) => Driven(j)) => (Active(j)' => Driven(j)')
<1>1. CASE UNCHANGED <<queue, api, worker, jobStatus>>
  BY <1>1 DEF Driven, Active
<1>2. CASE Ingestion
  <2>1. PICK c \in Clients : ClientCrash(c)
    BY <1>2
    DEF Ingestion, Upload, Submit, ReplayIngestion, AcceptCall, ReconcileOwn, FindActiveJob,
        InsertJob, DispatchJob, TimeoutElapses, ReconcileAll, boundVars
  <2>2. ASSUME NEW j \in JobIds, j # api[c].job, Active(j) => Driven(j), Active(j)'
        PROVE  Driven(j)'
    <3>1. Driven(j) /\ queue' = queue /\ worker' = worker
      BY <1>2, <2>1, <2>2 DEF ClientCrash, Active, jobVars, Ingestion, workerVars
    <3>2. \A b \in Clients : b # c => api'[b] = api[b]
      BY <2>1 DEF ClientCrash, Typed, PipelineTypeOK, IngestTypeOK
    <3>3. QED
      BY <2>2, <3>1, <3>2 DEF Driven
  <2>3. QED
    BY <2>2
<1>3. CASE DeletingOcr
  BY <1>3 DEF DeletingOcr, Reingest
<1>4. CASE Ocr
  <2>1. PICK w \in Workers : WorkerCrash(w)
    BY <1>4, ZenonT(40)
    DEF Ocr, OcrTask, Receive, OcrFails, ReadVersion, RunOcr, StoreResult, MarkSucceeded,
        EnsureScanUnit, CommitScanUnit, DrainGate, Collect, Release, SendReleased, Except,
        ingestVars, boundVars
  <2>2. ASSUME NEW j \in JobIds, j # worker[w].job, Active(j) => Driven(j), Active(j)'
        PROVE  Driven(j)'
    <3>1. Driven(j) /\ queue' = queue /\ api' = api
      BY <2>1, <2>2 DEF WorkerCrash, Active, jobVars
    <3>2. \A v \in Workers : v # w => worker'[v] = worker[v]
      BY <2>1 DEF WorkerCrash, EndTask, Raise, Goto, Typed, PipelineTypeOK, WorkerTypeOK
    <3>3. QED
      BY <2>2, <3>1, <3>2 DEF Driven
  <2>3. QED
    BY <2>2
<1>5. QED
  BY <1>1, <1>2, <1>3, <1>4, DrivenElsewhere DEF Next

\* Each handler or task that dies leaves at most one ingestion job active with
\* nobody to end it, however the others go on: no job is lost in any other way.
THEOREM CrashesOrphanOneJobEach == Spec => []CrashOrphansOneJob
<1> USE DEF OrphanJobs
<1>1. Init => CrashOrphansOneJob
  <2>1. Init => OrphanJobs = {} /\ crashes = 0
    BY DEF Init, IngestInit, Active, ActiveStatuses
  <2>2. Cardinality({}) = 0
    BY FS_EmptySet
  <2>3. QED
    BY <2>1, <2>2 DEF CrashOrphansOneJob
<1>2. Typed /\ CrashOrphansOneJob /\ [Next]_vars => CrashOrphansOneJob'
  <2> SUFFICES ASSUME Typed, CrashOrphansOneJob, [Next]_vars
               PROVE  CrashOrphansOneJob'
    OBVIOUS
  <2>1. IsFiniteSet(JobIds)
    BY IngestionAssumption, FS_Interval DEF JobIds
  <2>2. IsFiniteSet(OrphanJobs) /\ IsFiniteSet(OrphanJobs')
    BY <2>1, FS_Subset
  <2>3. PICK n \in Nat : n = Cardinality(OrphanJobs)
    BY <2>2, FS_CardinalityType
  <2>4. PICK m \in Nat : m = Cardinality(OrphanJobs')
    BY <2>2, FS_CardinalityType
  <2>5. crashes \in Nat /\ n <= crashes
    BY <2>3, IngestionAssumption DEF CrashOrphansOneJob, Typed, PipelineTypeOK, IngestTypeOK
  <2>6. CASE crashes' = crashes
    <3>1. OrphanJobs' \subseteq OrphanJobs
      BY <2>6, DrivenStep
    <3>2. m <= n
      BY <2>2, <2>3, <2>4, <3>1, FS_Subset
    <3>3. QED
      BY <2>4, <2>5, <2>6, <3>2 DEF CrashOrphansOneJob
  <2>7. CASE crashes' # crashes
    <3>1. PICK i : \A j \in JobIds :
                     j # i /\ (Active(j) => Driven(j)) => (Active(j)' => Driven(j)')
      BY <2>7, DeathOrphansOne
    <3>2. OrphanJobs' \subseteq OrphanJobs \cup {i}
      BY <3>1
    <3>3. IsFiniteSet(OrphanJobs \cup {i}) /\ Cardinality(OrphanJobs \cup {i}) \in {n, n + 1}
      BY <2>2, <2>3, FS_AddElement
    <3>4. m <= n + 1
      BY <2>3, <2>4, <3>2, <3>3, FS_Subset
    <3>5. crashes' = crashes + 1
      BY <2>7, CrashesGrow
    <3>6. QED
      BY <2>4, <2>5, <3>4, <3>5 DEF CrashOrphansOneJob
  <2>8. QED
    BY <2>6, <2>7
<1>3. QED
  BY TypedInvariant, <1>1, <1>2, PTL DEF Spec
=============================================================================
