----------------------------- MODULE KnowledgeProofs ----------------------------
(***************************************************************************)
(* The knowledge side of the pipeline: no orphan rows whatever reingest    *)
(* deletes, no job that waits for the OCR queue for ever, and no job that  *)
(* says pending with no message on its way.                                *)
(***************************************************************************)
EXTENDS ResultProofs

\* Steps that leave the references and the results they lead to alone.
LEMMA OrphanFreeKept ==
  NoOrphanRows /\ UNCHANGED <<scanOf, kScan, result>> => NoOrphanRows'
  BY DEF NoOrphanRows, LiveResults

\* The commit of a plan whose rows are still there.
LEMMA ApplyPlanOrphanFree ==
  ASSUME Typed, NoOrphanRows, result' = result, NEW p, NEW r, NEW status,
         Committable(p, r), ApplyPlan(p, r, status)
  PROVE  NoOrphanRows'
<1>1. /\ scanOf \in [ScanIds -> 0..MaxResults] /\ kScan \in [KJobIds -> 0..MaxScans]
      /\ lastScan \in 0..MaxScans
  BY DEF Typed, PipelineTypeOK, KnowledgeTypeOK
<1>2. LiveResults' = LiveResults
  BY DEF LiveResults
<1>3. CASE p.write = "new_scan"
  <2> DEFINE n == lastScan + 1
  <2>1. r \in LiveResults /\ r # 0
    BY <1>3 DEF Committable, LiveResults, ResultIds
  <2>2. scanOf' = [scanOf EXCEPT ![n] = r] /\ kScan' = [kScan EXCEPT ![lastKJob + 1] = n]
    BY <1>3 DEF ApplyPlan, PlanScan
  <2>3. n \in ScanIds
    BY <1>1, <1>3, KnowledgeAssumption DEF ApplyPlan, ScanIds
  <2> HIDE DEF n
  <2>4. \A s \in ScanIds : scanOf'[s] # 0 => scanOf'[s] \in LiveResults
    BY <1>1, <2>1, <2>2 DEF NoOrphanRows
  <2>5. scanOf'[n] # 0 /\ \A s : scanOf[s] # 0 /\ s \in ScanIds => scanOf'[s] # 0
    BY <1>1, <2>1, <2>2, <2>3
  <2>6. ASSUME NEW k \in KJobIds, kScan'[k] # 0
        PROVE  scanOf'[kScan'[k]] # 0
    <3>1. CASE kScan'[k] = n
      BY <2>5, <3>1
    <3>2. CASE kScan'[k] # n
      <4>1. kScan'[k] = kScan[k] /\ kScan[k] \in ScanIds
        BY <1>1, <2>2, <2>6, <3>2, KnowledgeAssumption DEF ScanIds
      <4>2. scanOf[kScan[k]] # 0
        BY <2>6, <4>1 DEF NoOrphanRows
      <4>3. QED
        BY <2>5, <4>1, <4>2
    <3>3. QED
      BY <3>1, <3>2
  <2>7. QED
    BY <1>2, <2>4, <2>6 DEF NoOrphanRows
<1>4. CASE p.write = "new_job"
  <2>1. scanOf' = scanOf /\ kScan' = [kScan EXCEPT ![lastKJob + 1] = p.scan] /\ scanOf[p.scan] # 0
    BY <1>4 DEF ApplyPlan, PlanScan, Committable
  <2>2. \A k \in KJobIds : kScan'[k] = kScan[k] \/ kScan'[k] = p.scan
    BY <1>1, <2>1
  <2>3. QED
    BY <1>2, <2>1, <2>2 DEF NoOrphanRows
<1>5. CASE p.write \notin {"new_scan", "new_job"}
  <2>1. UNCHANGED <<scanOf, kScan>>
    BY <1>5 DEF ApplyPlan
  <2>2. QED
    BY <2>1, OrphanFreeKept
<1>6. QED
  BY <1>3, <1>4, <1>5

\* Reingest deletes what hangs from the results it deletes.
LEMMA ReingestOrphanFree ==
  ASSUME Typed, NoOrphanRows, NEW c \in Clients, NEW d \in Docs, Reingest(c, d)
  PROVE  NoOrphanRows'
<1> DEFINE gone == {s \in ScanIds : scanOf[s] # 0 /\ result[scanOf[s]].doc = d}
<1>1. /\ result' = [r \in ResultIds |-> IF result[r].doc = d THEN NoResult ELSE result[r]]
      /\ scanOf' = [s \in ScanIds |-> IF s \in gone THEN 0 ELSE scanOf[s]]
      /\ kScan' = [k \in KJobIds |-> IF kScan[k] \in gone THEN 0 ELSE kScan[k]]
  BY DEF Reingest
<1>2. ASSUME NEW s \in ScanIds, scanOf'[s] # 0
      PROVE  scanOf'[s] \in LiveResults'
  <2>1. scanOf'[s] = scanOf[s] /\ s \notin gone
    BY <1>1, <1>2
  <2>2. scanOf[s] \in ResultIds /\ result[scanOf[s]].doc # NoDoc /\ result[scanOf[s]].doc # d
    BY <1>2, <2>1 DEF NoOrphanRows, LiveResults
  <2>3. result'[scanOf[s]] = result[scanOf[s]]
    BY <1>1, <2>2
  <2>4. QED
    BY <2>1, <2>2, <2>3 DEF LiveResults
<1>3. ASSUME NEW k \in KJobIds, kScan'[k] # 0
      PROVE  scanOf'[kScan'[k]] # 0
  <2>1. kScan'[k] = kScan[k] /\ kScan[k] \notin gone
    BY <1>1, <1>3
  <2>2. scanOf[kScan[k]] # 0 /\ kScan[k] \in ScanIds
    BY <1>3, <2>1, KnowledgeAssumption
    DEF NoOrphanRows, Typed, PipelineTypeOK, KnowledgeTypeOK, ScanIds
  <2>3. QED
    BY <1>1, <2>1, <2>2
<1>4. QED
  BY <1>2, <1>3 DEF NoOrphanRows

\* Tasks: a result that is stored takes no place a scan unit refers to.
LEMMA OcrOrphanFree ==
  ASSUME Typed, Grounded, NoOrphanRows, Ocr
  PROVE  NoOrphanRows'
<1> PICK w \in Workers : \/ \E j \in JobIds : Receive(w, j)
                         \/ OcrTask(w) \/ OcrFails(w) \/ WorkerCrash(w)
  BY DEF Ocr
<1>1. CASE CommitScanUnit(w)
  <2>1. CASE Committable(worker[w].plan, worker[w].res)
    BY <1>1, <2>1, ApplyPlanOrphanFree DEF CommitScanUnit, ingestVars
  <2>2. CASE ~Committable(worker[w].plan, worker[w].res)
    BY <1>1, <2>2, OrphanFreeKept DEF CommitScanUnit, ingestVars, tableVars
  <2>3. QED
    BY <2>1, <2>2
<1>2. CASE StoreResult(w)
  <2>1. PICK n \in ResultIds : n = lastResult + 1
    BY <1>2, IngestionAssumption
    DEF StoreResult, Typed, PipelineTypeOK, IngestTypeOK, ResultIds
  <2>2. PICK row : result' = [result EXCEPT ![n] = row]
    BY <1>2, <2>1 DEF StoreResult
  <2>3. n \notin LiveResults
    <3>1. n > lastResult
      BY <2>1 DEF Typed, PipelineTypeOK, IngestTypeOK
    <3>2. QED
      BY <3>1 DEF Grounded, Fresh, LiveResults
  <2>4. LiveResults \subseteq LiveResults'
    BY <2>2, <2>3 DEF LiveResults, Typed, PipelineTypeOK, IngestTypeOK
  <2>5. UNCHANGED <<scanOf, kScan>>
    BY <1>2 DEF StoreResult, knowledgeVars, tableVars
  <2>6. QED
    BY <2>4, <2>5 DEF NoOrphanRows
<1>3. CASE \/ \E j \in JobIds : Receive(w, j)
           \/ MarkSucceeded(w) \/ Except(w) \/ WorkerCrash(w)
  BY <1>3, OrphanFreeKept
  DEF Receive, MarkSucceeded, Except, WorkerCrash, knowledgeVars, tableVars
<1>4. CASE ReadVersion(w) \/ RunOcr(w) \/ EnsureScanUnit(w) \/ DrainGate(w) \/ Collect(w) \/ OcrFails(w)
  BY <1>4, OrphanFreeKept
  DEF ReadVersion, RunOcr, EnsureScanUnit, DrainGate, Collect, OcrFails, ingestVars, knowledgeVars,
      tableVars
<1>5. CASE Release(w) \/ \E s \in ScanIds : SendReleased(w, s)
  BY <1>5, OrphanFreeKept DEF Release, SendReleased, ingestVars, tableVars
<1>6. QED
  BY <1>1, <1>2, <1>3, <1>4, <1>5 DEF OcrTask

\* Handlers of the knowledge router.
LEMMA EnsurerOrphanFree ==
  ASSUME Typed, NoOrphanRows, EnsuringKnowledge
  PROVE  NoOrphanRows'
<1>1. result' = result
  BY DEF EnsuringKnowledge, ingestVars
<1>2. ASSUME NEW e \in Ensurers, EnsureCommit(e)
      PROVE  NoOrphanRows'
  <2>1. CASE Committable(ensurer[e].plan, ensurer[e].res)
    BY <1>1, <1>2, <2>1, ApplyPlanOrphanFree DEF EnsureCommit
  <2>2. CASE ~Committable(ensurer[e].plan, ensurer[e].res)
    BY <1>1, <1>2, <2>2, OrphanFreeKept DEF EnsureCommit, tableVars
  <2>3. QED
    BY <2>1, <2>2
<1>3. ASSUME UNCHANGED tableVars
      PROVE  NoOrphanRows'
  BY <1>1, <1>3, OrphanFreeKept DEF tableVars
<1>4. QED
  BY <1>2, <1>3 DEF EnsuringKnowledge, EnsureKnowledge, ReplayKnowledge, EnsureSend

\* A knowledge worker writes statuses only.
LEMMA KnowledgeOrphanFree ==
  ASSUME NoOrphanRows, Knowledge
  PROVE  NoOrphanRows'
<1>1. UNCHANGED <<scanOf, kScan>>
  BY DEF Knowledge, KTask, KReceive, Defer, Resend, Start, RunPipeline, PipelineFails, Finish, Fail,
         Retry, KUnchanged, KWorkerCrash, knowledgeVars, tableVars
<1>2. QED
  BY <1>1, KnowledgeIsElsewhere, OrphanFreeKept

\* No orphan rows, although reingest deletes under the feet of tasks and handlers
\* that decided before it and commit after it.
THEOREM RowsAreNoOrphans == Spec => []NoOrphanRows
<1>1. Init => NoOrphanRows
  BY DEF Init, KnowledgeInit, NoOrphanRows
<1>2. Typed /\ Grounded /\ NoOrphanRows /\ [Next]_vars => NoOrphanRows'
  <2> SUFFICES ASSUME Typed, Grounded, NoOrphanRows, [Next]_vars PROVE NoOrphanRows'
    OBVIOUS
  <2>1. CASE Ingestion
    <3>1. UNCHANGED <<scanOf, kScan>>
      BY <2>1 DEF Ingestion, knowledgeVars, tableVars
    <3>2. result' = result
      BY <2>1
      DEF Ingestion, Upload, Submit, ReplayIngestion, ReconcileOwn, FindActiveJob, InsertJob,
          DispatchJob, ClientCrash, TimeoutElapses, ReconcileAll
    <3>3. QED
      BY <3>1, <3>2, OrphanFreeKept
  <2>2. CASE UNCHANGED vars
    BY <2>2, OrphanFreeKept DEF vars, ingestVars, knowledgeVars, tableVars
  <2>3. CASE LosingEnsurer
    <3>1. UNCHANGED <<scanOf, kScan>>
      BY <2>3 DEF LosingEnsurer, EnsurerCrash, tableVars
    <3>2. QED
      BY <2>3, <3>1, KnowledgeIsElsewhere, OrphanFreeKept
  <2>4. QED
    BY <2>1, <2>2, <2>3, ReingestOrphanFree, OcrOrphanFree, EnsurerOrphanFree, KnowledgeOrphanFree
    DEF Next, DeletingOcr
<1>3. QED
  BY TypedInvariant, GroundedInvariant, <1>1, <1>2, PTL DEF Spec

-----------------------------------------------------------------------------
(***************************************************************************)
(* Knowledge that waits for the OCR queue is released.                     *)
(***************************************************************************)

\* The parts of Draining, by who is going to look at the OCR queue.
ClientDrains(c) ==
  \/ api[c].pc \in {"check", "find", "insert"}
  \/ api[c].pc = "dispatch" /\ jobStatus[api[c].job] # "absent"
MessageDrains(j) == queue[j] > 0 /\ jobStatus[j] # "absent"
WorkingPcs == {"read", "ocr", "store", "mark", "ensure", "commit", "failing"}
TaskDrains(w) ==
  \/ worker[w].pc \in {"drain", "collect"}
  \/ worker[w].pc \in WorkingPcs /\ jobStatus[worker[w].job] # "absent"

LEMMA DrainingParts ==
  Draining <=> \/ \E c \in Clients : ClientDrains(c)
               \/ \E j \in JobIds : MessageDrains(j)
               \/ \E w \in Workers : TaskDrains(w)
  BY DEF Draining, ClientDrains, MessageDrains, TaskDrains, WorkingPcs

\* WaitingKnowledgeIsReleased is not inductive: a task about to release fails when
\* reingest took one of its jobs, and then releases none of them. A release counts
\* for its jobs only while all of them are there, and whoever took one drains again.
Released(k) ==
  \E w \in Workers : /\ worker[w].pc = "release"
                     /\ k \in worker[w].jobs
                     /\ \A m \in worker[w].jobs : kScan[m] # 0
Relieved(k) == Draining \/ Released(k)
Unensured == kcalls = 0 => \A e \in Ensurers : ensurer[e].pc = "idle"
WaitingIsRelieved == crashes = 0 /\ kcalls = 0 => \A k \in Dispatchable : Relieved(k)

\* A step that makes no job queued adds none to the dispatchable ones.
LEMMA NothingQueued ==
  ASSUME kScan' = kScan, \A k \in KJobIds : kStatus'[k] = "queued" => kStatus[k] = "queued"
  PROVE  Dispatchable' \subseteq Dispatchable
  BY DEF Dispatchable, IsNewestJob

\* Handlers, time and reconciliation: a handler that was going to look is followed
\* by its message, for a job that is there.
LEMMA DrainingIngestion ==
  ASSUME Typed, Draining, Ingestion, crashes' = crashes
  PROVE  Draining'
<1>1. /\ worker' = worker /\ Held /\ api \in [Clients -> ClientStates]
      /\ queue \in [JobIds -> Nat] /\ jobStatus \in [JobIds -> JobStatuses]
      /\ lastJob \in 0..MaxJobs
  BY DEF Typed, PipelineTypeOK, IngestTypeOK, Ingestion, workerVars
<1>2. ASSUME NEW c \in Clients, ClientDrains(c)'
      PROVE  Draining'
  BY <1>2 DEF Draining, ClientDrains
<1>3. ASSUME \A j : jobStatus[j] # "absent" => jobStatus'[j] # "absent",
             \A j \in JobIds : MessageDrains(j) => queue'[j] > 0,
             NEW b \in Clients, \A c \in Clients \ {b} : api'[c] = api[c],
             ClientDrains(b) => Draining'
      PROVE  Draining'
  BY <1>1, <1>3 DEF Draining, ClientDrains, MessageDrains
<1>4. ASSUME UNCHANGED <<api, queue>>, \A j : jobStatus[j] # "absent" => jobStatus'[j] # "absent"
      PROVE  Draining'
  BY <1>1, <1>4 DEF Draining
<1>5. ASSUME NEW c \in Clients, NEW d, BeginSubmission(c, d)
      PROVE  Draining'
  <2>1. ClientDrains(c)'
    BY <1>1, <1>5 DEF BeginSubmission, ClientDrains
  <2>2. QED
    BY <1>2, <2>1
<1>6. ASSUME NEW c \in Clients, ReconcileOwn(c)
      PROVE  Draining'
  <2>1. ClientDrains(c)'
    BY <1>1, <1>6 DEF ReconcileOwn, ClientDrains, ClientStates
  <2>2. QED
    BY <1>2, <2>1
<1>7. ASSUME NEW c \in Clients, FindActiveJob(c)
      PROVE  Draining'
  <2>1. CASE api' = [api EXCEPT ![c].pc = "insert"]
    <3>1. ClientDrains(c)'
      BY <1>1, <2>1 DEF ClientDrains, ClientStates
    <3>2. QED
      BY <1>2, <3>1
  <2>2. ASSUME NEW j \in ActiveJobsOf(api[c].doc),
               api' = [api EXCEPT ![c].pc = "dispatch", ![c].job = j]
        PROVE  Draining'
    <3>1. api'[c].pc = "dispatch" /\ api'[c].job = j
      BY <1>1, <2>2 DEF ClientStates
    <3>2. jobStatus'[j] # "absent"
      BY <1>7 DEF FindActiveJob, jobVars, ActiveJobsOf, Active, ActiveStatuses
    <3>3. ClientDrains(c)'
      BY <3>1, <3>2 DEF ClientDrains
    <3>4. QED
      BY <1>2, <3>3
  <2>3. QED
    BY <1>7, <2>1, <2>2 DEF FindActiveJob
<1>8. ASSUME NEW c \in Clients, InsertJob(c)
      PROVE  Draining'
  <2>1. PICK j \in JobIds : j = lastJob + 1
    BY <1>1, <1>8, IngestionAssumption DEF InsertJob, JobIds
  <2>2. /\ jobStatus' = [jobStatus EXCEPT ![j] = "queued"]
        /\ api' = [api EXCEPT ![c].pc = "dispatch", ![c].job = j]
    BY <1>8, <2>1 DEF InsertJob
  <2>3. ClientDrains(c)'
    BY <1>1, <2>2 DEF ClientDrains, ClientStates
  <2>4. QED
    BY <1>2, <2>3
<1>9. ASSUME NEW c \in Clients, DispatchJob(c)
      PROVE  Draining'
  <2>1. PICK j \in JobIds : j = api[c].job
    BY <1>1, <1>9, IngestionAssumption DEF DispatchJob, Held, JobIds
  <2>2. /\ queue' = [queue EXCEPT ![j] = @ + 1] /\ jobStatus' = jobStatus
        /\ api' = [api EXCEPT ![c] = IdleClient] /\ api[c].pc = "dispatch"
    BY <1>9, <2>1 DEF DispatchJob, jobVars
  <2>3. queue'[j] > 0 /\ \A i \in JobIds : queue[i] > 0 => queue'[i] > 0
    BY <1>1, <2>2
  <2>4. ClientDrains(c) => MessageDrains(j)'
    BY <2>1, <2>2, <2>3 DEF ClientDrains, MessageDrains
  <2>5. MessageDrains(j)' => Draining'
    BY DEF MessageDrains, Draining
  <2>6. QED
    BY <1>1, <1>3, <2>2, <2>3, <2>4, <2>5 DEF MessageDrains
<1>10. ASSUME NEW c \in Clients, ClientCrash(c)
       PROVE  FALSE
  BY <1>10, IngestionAssumption DEF ClientCrash, Typed, PipelineTypeOK, IngestTypeOK
<1>11. CASE ReconcileAll \/ \E j \in JobIds : TimeoutElapses(j)
  <2>1. UNCHANGED <<api, queue>>
    BY <1>11 DEF ReconcileAll, TimeoutElapses
  <2>2. \A j \in JobIds : jobStatus[j] # "absent" => jobStatus'[j] # "absent"
    BY <1>11 DEF ReconcileAll, Reconciled, TimeoutElapses
  <2>3. ASSUME NEW c \in Clients, api[c].pc = "dispatch"
        PROVE  api[c].job \in JobIds
    BY <1>1, <2>3, IngestionAssumption DEF Held, JobIds
  <2>4. ASSUME NEW w \in Workers, worker[w].pc \in WorkingPcs
        PROVE  worker[w].job \in JobIds
    BY <1>1, <2>4, IngestionAssumption DEF Held, JobIds, WorkingPcs
  <2>5. QED
    BY <1>1, <2>1, <2>2, <2>3, <2>4 DEF Draining, WorkingPcs
<1>12. CASE \E c \in Clients, d \in Docs : Upload(c, d)
  BY <1>4, <1>5, <1>12 DEF Upload, jobVars
<1>13. QED
  BY <1>5, <1>6, <1>7, <1>8, <1>9, <1>10, <1>11, <1>12 DEF Ingestion, Submit, ReplayIngestion

\* A step of task w that leaves the handlers alone and deletes no job: what may be
\* lost is the task's own part, or the message it takes.
LEMMA TaskKeepsDraining ==
  ASSUME Draining, NEW w \in Workers, api' = api,
         \A j : jobStatus[j] # "absent" => jobStatus'[j] # "absent",
         \A j \in JobIds : MessageDrains(j) => queue'[j] = queue[j] \/ Draining',
         \A v \in Workers : v # w => worker'[v] = worker[v],
         TaskDrains(w) => Draining'
  PROVE  Draining'
<1>1. ASSUME NEW c \in Clients, ClientDrains(c)
      PROVE  ClientDrains(c)'
  BY <1>1 DEF ClientDrains
<1>2. ASSUME NEW j \in JobIds, MessageDrains(j), queue'[j] = queue[j]
      PROVE  MessageDrains(j)'
  BY <1>2 DEF MessageDrains
<1>3. ASSUME NEW v \in Workers, v # w, TaskDrains(v)
      PROVE  TaskDrains(v)'
  BY <1>3 DEF TaskDrains
<1>4. Draining' <=> \/ \E c \in Clients : ClientDrains(c)'
                    \/ \E j \in JobIds : MessageDrains(j)'
                    \/ \E v \in Workers : TaskDrains(v)'
  BY DEF Draining, ClientDrains, MessageDrains, TaskDrains, WorkingPcs
<1>5. QED
  BY <1>1, <1>2, <1>3, <1>4, DrainingParts

\* A task that is not releasing takes no release away from a job.
LEMMA TaskKeepsReleased ==
  ASSUME NEW k, Released(k), NEW w \in Workers, kScan' = kScan,
         \A v \in Workers : v # w => worker'[v] = worker[v],
         worker[w].pc # "release" \/ \E m \in worker[w].jobs : kScan[m] = 0
  PROVE  Released(k)'
  BY DEF Released

\* Tasks: whoever finds the OCR queue busy leaves it to the one who keeps it busy,
\* and whoever finds it empty releases all that is waiting by then.
LEMMA RelievedOcr ==
  ASSUME Typed, ActiveJobIsDriven, Ocr, crashes = 0, crashes' = 0,
         NEW k \in Dispatchable', k \in Dispatchable => Relieved(k)
  PROVE  Relieved(k)'
<1> PICK w \in Workers : \/ \E j \in JobIds : Receive(w, j)
                         \/ OcrTask(w) \/ OcrFails(w) \/ WorkerCrash(w)
  BY DEF Ocr
<1>1. /\ worker \in [Workers -> WorkerStates] /\ worker[w] \in WorkerStates /\ Held
      /\ queue \in [JobIds -> Nat] /\ jobStatus \in [JobIds -> JobStatuses]
      /\ worker[w].pc # "idle" => worker[w].job \in JobIds
  <2>1. IngestTypeOK /\ WorkerTypeOK /\ Held
    BY DEF Typed, PipelineTypeOK
  <2>2. worker \in [Workers -> WorkerStates] /\ worker[w] \in WorkerStates
    BY <2>1 DEF WorkerTypeOK
  <2>3. queue \in [JobIds -> Nat] /\ jobStatus \in [JobIds -> JobStatuses] /\ lastJob \in 0 .. MaxJobs
    BY <2>1 DEF IngestTypeOK
  <2>4. worker[w].pc # "idle" => worker[w].job \in 1 .. lastJob
    BY <2>1 DEF Held
  <2>5. 1 .. lastJob \subseteq JobIds
    BY <2>3, IngestionAssumption DEF JobIds
  <2> QED BY <2>1, <2>2, <2>3, <2>4, <2>5
<1>2. ASSUME TaskDrains(w)'
      PROVE  Relieved(k)'
  BY <1>2 DEF TaskDrains, WorkingPcs, Relieved, Draining
<1>3. ASSUME UNCHANGED <<kScan, kStatus, api>>, worker[w].pc # "release",
             \A j : jobStatus[j] # "absent" => jobStatus'[j] # "absent",
             \A j \in JobIds : MessageDrains(j) => queue'[j] = queue[j] \/ Draining',
             \A v \in Workers : v # w => worker'[v] = worker[v],
             TaskDrains(w) => Relieved(k)'
      PROVE  Relieved(k)'
  <2>1. Dispatchable' = Dispatchable
    BY <1>3 DEF Dispatchable, IsNewestJob
  <2>2. CASE Released(k)
    BY <1>3, <2>2, TaskKeepsReleased DEF Relieved
  <2>3. CASE Draining /\ ~Relieved(k)'
    BY <1>3, <2>3, TaskKeepsDraining DEF Relieved
  <2>4. QED
    BY <2>1, <2>2, <2>3 DEF Relieved
<1>4. OcrTask(w) \/ OcrFails(w) =>
        /\ \A v \in Workers : v # w => worker'[v] = worker[v]
        /\ worker'[w].pc # "idle" => worker'[w].job = worker[w].job
  BY <1>1, TaskGoesTo
<1>5. ASSUME NEW j \in JobIds, Receive(w, j)
      PROVE  Relieved(k)'
  <2>1. CASE jobStatus[j] # "absent" /\ worker' # worker
    <3>1. worker' = [worker EXCEPT ![w] = [IdleWorker EXCEPT !.pc = "read", !.job = j]]
          /\ jobStatus' = [jobStatus EXCEPT ![j] = "running"]
      BY <1>5, <2>1 DEF Receive
    <3>2. TaskDrains(w)'
      BY <1>1, <3>1 DEF TaskDrains, WorkingPcs, IdleWorker
    <3>3. QED
      BY <1>2, <3>2
  <2>2. CASE jobStatus[j] = "absent" \/ worker' = worker
    <3>1. jobStatus[j] = "absent" /\ UNCHANGED <<worker, jobStatus, api, kScan, kStatus>>
      <4> DEFINE s == [IdleWorker EXCEPT !.pc = "read", !.job = j]
      <4>1. s.pc = "read"
        BY DEF IdleWorker
      <4> HIDE DEF s
      <4>2. worker[w].pc = "idle" /\ UNCHANGED <<api, kScan, kStatus>>
        BY <1>5 DEF Receive, knowledgeVars, tableVars
      <4>3. \/ jobStatus[j] = "absent" /\ UNCHANGED <<worker, jobStatus>>
            \/ jobStatus[j] # "absent" /\ worker' = [worker EXCEPT ![w] = s]
        BY <1>5 DEF Receive, s
      <4>4. jobStatus[j] = "absent"
        BY <1>1, <2>2, <4>1, <4>2, <4>3
      <4> QED BY <4>2, <4>3, <4>4
    <3>2. \A i \in JobIds : MessageDrains(i) => queue'[i] = queue[i]
      BY <1>1, <1>5, <3>1 DEF Receive, MessageDrains
    <3>3. worker[w].pc = "idle"
      BY <1>5 DEF Receive
    <3>4. QED
      BY <1>3, <3>1, <3>2, <3>3 DEF TaskDrains, WorkingPcs
  <2>3. QED
    BY <2>1, <2>2
<1>6. ASSUME UNCHANGED <<kScan, kStatus, api, queue>>, OcrTask(w) \/ OcrFails(w),
             worker[w].pc \in WorkingPcs, worker'[w].pc \in WorkingPcs \cup {"drain"},
             \A j : jobStatus[j] # "absent" => jobStatus'[j] # "absent"
      PROVE  Relieved(k)'
  <2>1. worker[w].pc # "release"
    BY <1>6 DEF WorkingPcs
  <2>2. TaskDrains(w) => TaskDrains(w)'
    BY <1>4, <1>6 DEF TaskDrains, WorkingPcs
  <2>3. QED
    BY <1>2, <1>3, <1>4, <1>6, <2>1, <2>2
<1>7. CASE ReadVersion(w) \/ RunOcr(w) \/ OcrFails(w) \/ EnsureScanUnit(w)
  <2>1. UNCHANGED <<kScan, kStatus, api, queue, jobStatus>> /\ worker[w].pc \in WorkingPcs
    BY <1>7
    DEF ReadVersion, RunOcr, OcrFails, EnsureScanUnit, ingestVars, jobVars, knowledgeVars, tableVars,
        WorkingPcs
  <2>2. worker'[w].pc \in WorkingPcs
    BY <1>7, TaskGoesTo DEF WorkingPcs
  <2>3. QED
    BY <1>6, <1>7, <2>1, <2>2 DEF OcrTask
<1>8. CASE StoreResult(w) \/ MarkSucceeded(w)
  <2>1. UNCHANGED <<kScan, kStatus, api, queue>> /\ worker[w].pc \in WorkingPcs
    BY <1>8 DEF StoreResult, MarkSucceeded, jobVars, knowledgeVars, tableVars, WorkingPcs
  <2>2. worker'[w].pc \in WorkingPcs
    BY <1>8, TaskGoesTo DEF WorkingPcs
  <2>3. \A j : jobStatus[j] # "absent" => jobStatus'[j] # "absent"
    <3>1. CASE jobStatus' = jobStatus
      BY <3>1
    <3>2. CASE jobStatus' = [jobStatus EXCEPT ![worker[w].job] = "succeeded"]
      <4>1. PICK i \in JobIds : i = worker[w].job
        BY <1>1, <2>1 DEF WorkingPcs
      <4>2. QED
        BY <1>1, <3>2, <4>1
    <3>3. QED
      BY <1>8, <3>1, <3>2 DEF StoreResult, MarkSucceeded, jobVars
  <2>4. QED
    BY <1>6, <1>8, <2>1, <2>2, <2>3 DEF OcrTask
<1>9. CASE CommitScanUnit(w)
  <2>1. CASE worker'[w].pc = "drain"
    BY <1>2, <2>1 DEF TaskDrains
  <2>2. CASE worker'[w].pc = "failing"
    <3>1. UNCHANGED <<kScan, kStatus>>
      BY <1>1, <1>9, <2>2 DEF CommitScanUnit, tableVars, IdleWorker
    <3>2. UNCHANGED <<api, queue, jobStatus>> /\ worker[w].pc \in WorkingPcs
      BY <1>9 DEF CommitScanUnit, ingestVars, jobVars, WorkingPcs
    <3>3. QED
      BY <1>6, <1>9, <2>2, <3>1, <3>2 DEF OcrTask, WorkingPcs
  <2>3. QED
    BY <1>9, <2>1, <2>2, TaskGoesTo
<1>10. CASE DrainGate(w)
  <2>1. UNCHANGED <<kScan, kStatus, api, queue, jobStatus>> /\ worker[w].pc = "drain"
    BY <1>10 DEF DrainGate, ingestVars, jobVars, knowledgeVars, tableVars
  <2>2. CASE worker'[w].pc = "collect"
    BY <1>2, <2>2 DEF TaskDrains
  <2>3. CASE HasActiveIngestion
    <3>1. PICK j \in JobIds : Active(j)
      BY <2>3 DEF HasActiveIngestion
    <3>2. Driven(j) /\ jobStatus[j] # "absent"
      BY <3>1 DEF ActiveJobIsDriven, Active, ActiveStatuses
    <3>3. \A v \in Workers : v # w => worker'[v] = worker[v]
      BY <1>4, <1>10 DEF OcrTask
    <3>4. CASE queue[j] > 0 \/ \E c \in Clients : api[c].pc = "dispatch" /\ api[c].job = j
      BY <2>1, <3>2, <3>4 DEF Relieved, Draining
    <3>5. ASSUME NEW v \in Workers, worker[v].job = j,
                 worker[v].pc \in {"read", "ocr", "store", "mark", "failing"}
          PROVE  Relieved(k)'
      BY <2>1, <3>2, <3>3, <3>5 DEF Relieved, Draining
    <3>6. QED
      BY <3>2, <3>4, <3>5 DEF Driven
  <2>4. QED
    BY <1>1, <1>10, <2>2, <2>3 DEF DrainGate, Goto, WorkerStates
<1>11. CASE Collect(w)
  <2>1. UNCHANGED <<kScan, kStatus>>
    BY <1>11 DEF Collect, knowledgeVars, tableVars
  <2>2. Dispatchable' = Dispatchable
    BY <2>1 DEF Dispatchable, IsNewestJob
  <2>3. worker' = [worker EXCEPT ![w].pc = "release", ![w].jobs = Dispatchable]
    BY <1>11, <2>2 DEF Collect
  <2>4. worker'[w].pc = "release" /\ worker'[w].jobs = Dispatchable
    BY <1>1, <2>3 DEF WorkerStates
  <2>5. \A m \in Dispatchable : kScan'[m] # 0
    BY <2>1 DEF Dispatchable
  <2>6. QED
    BY <2>2, <2>4, <2>5 DEF Relieved, Released
<1>12. CASE Release(w)
  <2> DEFINE ks == worker[w].jobs
  <2>1. /\ UNCHANGED <<api, queue, jobStatus, kScan>> /\ worker[w].pc = "release"
        /\ \A v \in Workers : v # w => worker'[v] = worker[v]
    BY <1>4, <1>12 DEF Release, OcrTask, ingestVars, jobVars
  <2>2. \/ /\ \A m \in ks : kScan[m] # 0
           /\ kStatus' = [m \in KJobIds |-> IF m \in ks THEN "pending" ELSE kStatus[m]]
        \/ (\E m \in ks : kScan[m] = 0) /\ kStatus' = kStatus
    BY <1>12 DEF Release
  <2>3. Dispatchable' \subseteq Dispatchable
    BY <2>1, <2>2, NothingQueued
  <2>4. CASE Draining
    BY <2>1, <2>4, TaskKeepsDraining DEF TaskDrains, WorkingPcs, Relieved
  <2>5. CASE Released(k)
    <3>1. (\E m \in ks : kScan[m] = 0) \/ k \notin ks
      BY <2>2 DEF Dispatchable
    <3>2. PICK v \in Workers : /\ worker[v].pc = "release" /\ k \in worker[v].jobs
                               /\ \A m \in worker[v].jobs : kScan[m] # 0
      BY <2>5 DEF Released
    <3>3. v # w
      BY <3>1, <3>2
    <3>4. QED
      BY <2>1, <3>2, <3>3 DEF Relieved, Released
  <2>6. QED
    BY <2>3, <2>4, <2>5 DEF Relieved
<1>13. CASE \E s \in ScanIds : SendReleased(w, s)
  <2>1. UNCHANGED <<kScan, kStatus, api, queue, jobStatus>> /\ worker[w].pc = "send"
    BY <1>13 DEF SendReleased, ingestVars, jobVars, tableVars
  <2>2. QED
    BY <1>3, <1>4, <1>13, <2>1 DEF OcrTask, TaskDrains, WorkingPcs
<1>14. CASE Except(w)
  <2>1. UNCHANGED <<kScan, kStatus, api, queue>> /\ worker[w].pc = "failing"
    BY <1>14 DEF Except, knowledgeVars, tableVars
  <2>2. CASE jobStatus[worker[w].job] # "absent"
    <3> DEFINE s == [IdleWorker EXCEPT !.pc = "drain", !.job = worker[w].job, !.ok = FALSE]
    <3>1. s.pc = "drain"
      BY DEF IdleWorker
    <3>2. worker' = [worker EXCEPT ![w] = s]
      BY <1>14, <2>2 DEF Except
    <3> HIDE DEF s
    <3>3. QED
      BY <1>1, <1>2, <3>1, <3>2 DEF TaskDrains
  <2>3. CASE jobStatus[worker[w].job] = "absent"
    <3>1. jobStatus' = jobStatus
      BY <1>14, <2>3 DEF Except
    <3>2. QED
      BY <1>3, <1>4, <1>14, <2>1, <2>3, <3>1 DEF OcrTask, TaskDrains
  <2>4. QED
    BY <2>2, <2>3
<1>15. CASE WorkerCrash(w)
  BY <1>15 DEF WorkerCrash
<1>16. QED
  BY <1>5, <1>7, <1>8, <1>9, <1>10, <1>11, <1>12, <1>13, <1>14, <1>15 DEF OcrTask

\* A knowledge worker takes jobs from the waiting ones and adds none.
LEMMA KnowledgeQueuesNothing ==
  ASSUME Knowledge
  PROVE  kScan' = kScan /\ \A k \in KJobIds : kStatus'[k] = "queued" => kStatus[k] = "queued"
  BY DEF Knowledge, KTask, KReceive, Defer, Resend, Start, RunPipeline, PipelineFails, Finish, Fail,
         Retry, KUnchanged, KWorkerCrash, WriteNewest, knowledgeVars, tableVars

\* The handlers of the knowledge router rest until the first call.
LEMMA UnensuredStep ==
  ASSUME Typed, Unensured, [Next]_vars
  PROVE  Unensured'
<1>1. kcalls \in Nat /\ ensurer \in [Ensurers -> EnsurerStates]
  BY KnowledgeAssumption DEF Typed, PipelineTypeOK, KnowledgeTypeOK
<1>2. CASE UNCHANGED <<ensurer, kcalls>>
  BY <1>2 DEF Unensured
<1>3. CASE EnsuringKnowledge
  <2>1. ASSUME NEW e \in Ensurers, AcceptKCall(e)
        PROVE  Unensured'
    BY <1>1, <2>1 DEF AcceptKCall, Unensured
  <2>2. ASSUME NEW e \in Ensurers, EnsureCommit(e) \/ EnsureSend(e)
        PROVE  Unensured'
    <3>1. ensurer[e].pc # "idle" /\ kcalls' = kcalls
      BY <2>2 DEF EnsureCommit, EnsureSend
    <3>2. QED
      BY <3>1 DEF Unensured
  <2>3. QED
    BY <1>3, <2>1, <2>2 DEF EnsuringKnowledge, EnsureKnowledge, ReplayKnowledge
<1>4. CASE LosingEnsurer
  BY <1>1, <1>4 DEF LosingEnsurer, EnsurerCrash, Unensured, IdleEnsurer
<1>5. CASE Ocr
  BY <1>2, <1>5, ZenonT(40)
  DEF Ocr, OcrTask, Receive, OcrFails, WorkerCrash, ReadVersion, RunOcr, StoreResult, MarkSucceeded,
      EnsureScanUnit, CommitScanUnit, DrainGate, Collect, Release, SendReleased, Except,
      knowledgeVars
<1>6. CASE Knowledge
  BY <1>2, <1>6
  DEF Knowledge, KTask, KReceive, Defer, Resend, Start, RunPipeline, PipelineFails, Finish, Fail,
      Retry, KUnchanged, KWorkerCrash, knowledgeVars
<1>7. CASE Ingestion \/ DeletingOcr \/ UNCHANGED vars
  BY <1>2, <1>7 DEF Ingestion, DeletingOcr, Reingest, knowledgeVars, vars
<1>8. QED
  BY <1>3, <1>4, <1>5, <1>6, <1>7 DEF Next

\* As long as no process dies and no handler ensures knowledge, a knowledge job that
\* waits for the OCR queue is going to be released, for every number of documents,
\* handlers and tasks that finish, fail, are reconciled or deleted in any order.
THEOREM WaitingKnowledgeReleased == Spec => []WaitingKnowledgeIsReleased
<1>1. Init => Unensured /\ WaitingIsRelieved
  BY DEF Init, KnowledgeInit, Unensured, WaitingIsRelieved, Dispatchable, IdleEnsurer
<1>2. Typed /\ ActiveJobIsDriven /\ Unensured /\ WaitingIsRelieved /\ [Next]_vars
        => WaitingIsRelieved'
  <2> SUFFICES ASSUME Typed, ActiveJobIsDriven, Unensured, WaitingIsRelieved, [Next]_vars,
                      crashes' = 0, kcalls' = 0, NEW k \in Dispatchable'
               PROVE  Relieved(k)'
    BY DEF WaitingIsRelieved
  <2>1. crashes = 0 /\ crashes' = crashes
    BY CrashesGrow DEF Typed, PipelineTypeOK, IngestTypeOK
  <2>2. kcalls = 0
    <3>1. kcalls \in Nat
      BY KnowledgeAssumption DEF Typed, PipelineTypeOK, KnowledgeTypeOK
    <3>2. kcalls' = kcalls \/ kcalls' = kcalls + 1
      BY ZenonT(40) DEF Next, Ingestion, DeletingOcr, Reingest, EnsuringKnowledge, EnsureKnowledge,
             ReplayKnowledge, AcceptKCall, EnsureCommit, EnsureSend, LosingEnsurer, EnsurerCrash,
             Ocr, OcrTask, Receive, OcrFails, WorkerCrash, ReadVersion, RunOcr, StoreResult,
             MarkSucceeded, EnsureScanUnit, CommitScanUnit, DrainGate, Collect, Release,
             SendReleased, Except, Knowledge, KTask, KReceive, Defer, Resend, Start, RunPipeline,
             PipelineFails, Finish, Fail, Retry, KUnchanged, KWorkerCrash, knowledgeVars, vars
    <3>3. QED
      BY <3>1, <3>2
  <2>3. k \in Dispatchable => Relieved(k)
    BY <2>1, <2>2 DEF WaitingIsRelieved
  <2>4. CASE Ingestion
    <3>1. UNCHANGED <<worker, kScan, kStatus>>
      BY <2>4 DEF Ingestion, workerVars, knowledgeVars, tableVars
    <3>2. Dispatchable' = Dispatchable /\ (Released(k) => Released(k)')
      BY <3>1 DEF Dispatchable, IsNewestJob, Released
    <3>3. QED
      BY <2>1, <2>3, <2>4, <3>2, DrainingIngestion DEF Relieved
  <2>5. CASE DeletingOcr
    <3>1. \E c \in Clients : api'[c].pc = "check"
      BY <2>5 DEF DeletingOcr, Reingest, BeginSubmission, Typed, PipelineTypeOK, IngestTypeOK
    <3>2. QED
      BY <3>1 DEF Relieved, Draining
  <2>6. CASE Ocr
    BY <2>1, <2>3, <2>6, RelievedOcr
  <2>7. CASE EnsuringKnowledge \/ LosingEnsurer
    <3>1. ASSUME NEW e \in Ensurers
          PROVE  ~AcceptKCall(e) /\ ensurer[e].pc = "idle"
      BY <2>2 DEF AcceptKCall, Unensured
    <3>2. QED
      BY <2>7, <3>1
      DEF EnsuringKnowledge, EnsureKnowledge, ReplayKnowledge, EnsureCommit, EnsureSend,
          LosingEnsurer, EnsurerCrash
  <2>8. CASE Knowledge \/ UNCHANGED vars
    <3>1. kScan' = kScan /\ Dispatchable' \subseteq Dispatchable
      BY <2>8, KnowledgeQueuesNothing, NothingQueued DEF vars, knowledgeVars, tableVars
    <3>2. UNCHANGED <<worker, api, queue, jobStatus>>
      BY <2>8, DrivenElsewhere
    <3>3. QED
      BY <2>3, <3>1, <3>2 DEF Relieved, Draining, Released
  <2>9. QED
    BY <2>4, <2>5, <2>6, <2>7, <2>8 DEF Next
<1>3. WaitingIsRelieved => WaitingKnowledgeIsReleased
  BY DEF WaitingIsRelieved, WaitingKnowledgeIsReleased, Relieved, Released
<1>4. QED
  BY TypedInvariant, ActiveJobsAreDriven, UnensuredStep, <1>1, <1>2, <1>3, PTL DEF Spec

-----------------------------------------------------------------------------
(***************************************************************************)
(* A pending knowledge job has a message on its way.                       *)
(***************************************************************************)

\* The knowledge jobs are the rows inserted so far that reingest has not deleted.
KnowledgeRows ==
  \A k \in KJobIds : /\ kScan[k] = 0 <=> kStatus[k] = "absent"
                     /\ k > lastKJob => kScan[k] = 0

\* A decision about a scan unit or one of its jobs, until it is committed: the job
\* may be deleted meanwhile but cannot become the job of another scan unit.
PlanHolds(p) ==
  /\ p.write = "new_job" => p.scan \in ScanIds
  /\ p.write = "requeue" => /\ p.scan \in ScanIds
                            /\ p.kjob \in 1..lastKJob
                            /\ kScan[p.kjob] \in {0, p.scan}
Planned ==
  /\ \A w \in Workers : worker[w].pc = "commit" => PlanHolds(worker[w].plan)
  /\ \A e \in Ensurers : ensurer[e].pc # "idle" => PlanHolds(ensurer[e].plan)

EnsurerHolds(h) ==
  /\ h.pc = "send" <=> h.send # 0
  /\ h.pc \in {"release", "replay"} => h.plan.write # "nothing"

\* Who holds a scan unit is going to send a message for it or to write its status.
Holders ==
  /\ crashes = 0 => \A w \in Workers : worker[w].send # {} => worker[w].pc = "send"
  /\ \A e \in Ensurers : EnsurerHolds(ensurer[e])
  /\ \A n \in KWorkers : /\ kworker[n].pc = "idle" <=> kworker[n].scan = 0
                         /\ kworker[n].pc = "retry" => kworker[n].retries < MaxRetries

\* What a step does to the rows that were there: it deletes some or none.
RowsStay ==
  /\ lastKJob' >= lastKJob
  /\ \A k \in 1..lastKJob : kScan'[k] \in {0, kScan[k]}

\* A job that is pending and the newest of its scan unit, and one that was so before a
\* step and is still there after it.
Pends(k) == kStatus[k] = "pending" /\ IsNewestJob(k, kScan[k])
PendedBefore(k) == Pends(k) /\ kScan'[k] = kScan[k]

LEMMA PlanStays ==
  ASSUME NEW p, PlanHolds(p), RowsStay, lastKJob \in Nat, lastKJob' \in Nat
  PROVE  PlanHolds(p)'
<1>1. p.write = "requeue" => p.kjob \in 1..lastKJob'
  BY DEF PlanHolds, RowsStay
<1>2. p.write = "requeue" => kScan'[p.kjob] \in {0, p.scan}
  BY DEF PlanHolds, RowsStay
<1>3. QED
  BY <1>1, <1>2 DEF PlanHolds

\* The commit of a decision: the rows it adds or changes, and why a job that is
\* pending afterwards was so before or is the one the caller is going to send for.
LEMMA ApplyPlanPends ==
  ASSUME Typed, KnowledgeRows, NEW p \in Plans, NEW r, NEW status \in {"queued", "pending"},
         PlanHolds(p), Committable(p, r), ApplyPlan(p, r, status)
  PROVE  /\ KnowledgeRows' /\ RowsStay
         /\ \A k \in KJobIds : Pends(k)' =>
              PendedBefore(k) \/ (status = "pending" /\ kScan'[k] = PlanScan(p))
<1>1. /\ kScan \in [KJobIds -> 0..MaxScans] /\ kStatus \in [KJobIds -> KStatuses]
      /\ lastScan \in Nat /\ lastKJob \in 0..MaxKJobs /\ MaxKJobs \in Nat
  BY KnowledgeAssumption DEF Typed, PipelineTypeOK, KnowledgeTypeOK
<1>2. CASE p.write \in {"new_scan", "new_job"}
  <2>1. PICK n \in KJobIds : n = lastKJob + 1
    BY <1>1, <1>2 DEF ApplyPlan, KJobIds
  <2>2. /\ kScan' = [kScan EXCEPT ![n] = PlanScan(p)]
        /\ kStatus' = [kStatus EXCEPT ![n] = status]
        /\ lastKJob' = n
    BY <1>2, <2>1 DEF ApplyPlan
  <2>3. PlanScan(p) # 0
    BY <1>1, <1>2 DEF PlanScan, PlanHolds, ScanIds
  <2>4. kScan[n] = 0 /\ \A k \in KJobIds : k > lastKJob' => k > lastKJob /\ k # n
    BY <1>1, <2>1, <2>2 DEF KnowledgeRows, KJobIds
  <2>5. KnowledgeRows'
    BY <1>1, <2>2, <2>3, <2>4 DEF KnowledgeRows
  <2>6. \A k \in 1..lastKJob : k \in KJobIds /\ k # n
    BY <1>1, <2>1 DEF KJobIds
  <2>7. RowsStay
    <3>1. lastKJob' >= lastKJob
      BY <1>1, <2>1, <2>2
    <3>2. QED
      BY <1>1, <2>2, <2>6, <3>1 DEF RowsStay
  <2>8. ASSUME NEW k \in KJobIds, Pends(k)'
        PROVE  PendedBefore(k) \/ (status = "pending" /\ kScan'[k] = PlanScan(p))
    <3>1. CASE k = n
      BY <1>1, <2>2, <2>8, <3>1 DEF Pends
    <3>2. CASE k # n
      <4>1. kStatus[k] = "pending" /\ kScan'[k] = kScan[k]
        BY <1>1, <2>2, <2>8, <3>2 DEF Pends
      <4>2. kScan[k] # 0
        BY <4>1 DEF KnowledgeRows
      <4>3. \A m \in KJobIds : kScan[m] = kScan[k] => kScan'[m] = kScan[m]
        BY <1>1, <2>2, <2>4, <4>2
      <4>4. IsNewestJob(k, kScan[k])
        BY <2>8, <4>1, <4>3 DEF Pends, IsNewestJob
      <4>5. QED
        BY <4>1, <4>4 DEF Pends, PendedBefore
    <3>3. QED
      BY <3>1, <3>2
  <2>9. QED
    BY <2>5, <2>7, <2>8
<1>3. CASE p.write = "requeue"
  <2>1. kScan' = kScan /\ lastKJob' = lastKJob /\ kStatus' = [kStatus EXCEPT ![p.kjob] = status]
    BY <1>3 DEF ApplyPlan
  <2>2. PICK n \in KJobIds : n = p.kjob
    BY <1>1, <1>3 DEF PlanHolds, KJobIds
  <2>3. kScan[n] # 0 /\ kScan[n] = p.scan /\ PlanScan(p) = p.scan
    BY <1>3, <2>2 DEF PlanHolds, Committable, PlanScan
  <2>4. KnowledgeRows'
    BY <1>1, <2>1, <2>2, <2>3 DEF KnowledgeRows
  <2>5. RowsStay
    BY <1>1, <2>1 DEF RowsStay
  <2>6. \A k \in KJobIds : kStatus'[k] = "pending" => (status = "pending" /\ k = n) \/ kStatus[k] = "pending"
    BY <1>1, <2>1, <2>2
  <2>7. QED
    BY <2>1, <2>3, <2>4, <2>5, <2>6 DEF IsNewestJob, Pends, PendedBefore
<1>4. CASE p.write = "nothing"
  <2>1. UNCHANGED <<lastKJob, kScan, kStatus>>
    BY <1>4 DEF ApplyPlan
  <2>2. QED
    BY <1>1, <2>1 DEF KnowledgeRows, RowsStay, IsNewestJob, Pends, PendedBefore
<1>5. QED
  BY <1>2, <1>3, <1>4 DEF Plans, Writes

\* Reingest deletes all jobs of a scan unit or none, so the newest stays the newest.
LEMMA ReingestPends ==
  ASSUME Typed, KnowledgeRows, NEW c \in Clients, NEW d \in Docs, Reingest(c, d)
  PROVE  /\ KnowledgeRows' /\ RowsStay
         /\ \A k \in KJobIds : Pends(k)' => PendedBefore(k)
<1>1. /\ kScan \in [KJobIds -> 0..MaxScans] /\ kStatus \in [KJobIds -> KStatuses]
      /\ lastKJob \in 0..MaxKJobs /\ MaxKJobs \in Nat
  BY KnowledgeAssumption DEF Typed, PipelineTypeOK, KnowledgeTypeOK
<1>2. PICK gone \in SUBSET ScanIds :
        /\ kStatus' = [k \in KJobIds |-> IF kScan[k] \in gone THEN "absent" ELSE kStatus[k]]
        /\ kScan' = [k \in KJobIds |-> IF kScan[k] \in gone THEN 0 ELSE kScan[k]]
        /\ lastKJob' = lastKJob
  BY DEF Reingest
<1>3. \A k \in 1..lastKJob : k \in KJobIds
  BY <1>1 DEF KJobIds
<1>4. KnowledgeRows'
  BY <1>1, <1>2 DEF KnowledgeRows
<1>5. RowsStay
  BY <1>1, <1>2, <1>3 DEF RowsStay
<1>6. ASSUME NEW k \in KJobIds, Pends(k)'
      PROVE  PendedBefore(k)
  <2>1. kScan[k] \notin gone /\ kStatus[k] = "pending" /\ kScan'[k] = kScan[k]
    BY <1>2, <1>6 DEF Pends
  <2>2. \A m \in KJobIds : kScan[m] = kScan[k] => kScan'[m] = kScan[m]
    BY <1>2, <2>1
  <2>3. QED
    BY <1>6, <2>1, <2>2 DEF IsNewestJob, Pends, PendedBefore
<1>7. QED
  BY <1>4, <1>5, <1>6

LEMMA RowsKept ==
  ASSUME Typed, KnowledgeRows, UNCHANGED <<kScan, kStatus, lastKJob>>
  PROVE  KnowledgeRows' /\ RowsStay /\ \A k \in KJobIds : Pends(k)' => PendedBefore(k)
<1>1. lastKJob \in 0..MaxKJobs /\ MaxKJobs \in Nat
  BY KnowledgeAssumption DEF Typed, PipelineTypeOK, KnowledgeTypeOK
<1>2. QED
  BY <1>1 DEF KnowledgeRows, RowsStay, Pends, PendedBefore, IsNewestJob

\* OCR tasks: they add jobs that wait for OCR, and make the jobs pending that they
\* are going to send for.
LEMMA OcrPends ==
  ASSUME Typed, KnowledgeRows, Planned, NEW w \in Workers,
         (\E j \in JobIds : Receive(w, j)) \/ OcrTask(w) \/ OcrFails(w) \/ WorkerCrash(w)
  PROVE  /\ KnowledgeRows' /\ RowsStay
         /\ \A k \in KJobIds : Pends(k)' =>
              PendedBefore(k) \/ (worker'[w].pc = "send" /\ kScan'[k] \in worker'[w].send)
<1>1. /\ kScan \in [KJobIds -> 0..MaxScans] /\ kStatus \in [KJobIds -> KStatuses]
      /\ lastKJob \in 0..MaxKJobs /\ MaxKJobs \in Nat
      /\ worker \in [Workers -> WorkerStates] /\ worker[w] \in WorkerStates
  BY KnowledgeAssumption DEF Typed, PipelineTypeOK, KnowledgeTypeOK, WorkerTypeOK
<1>2. CASE CommitScanUnit(w)
  <2>1. CASE Committable(worker[w].plan, worker[w].res) /\ ApplyPlan(worker[w].plan, worker[w].res, "queued")
    <3>1. PlanHolds(worker[w].plan) /\ worker[w].plan \in Plans
      BY <1>1, <1>2 DEF Planned, CommitScanUnit, WorkerStates
    <3>2. QED
      BY <2>1, <3>1, ApplyPlanPends
  <2>2. CASE UNCHANGED tableVars
    BY <2>2, RowsKept DEF tableVars
  <2>3. QED
    BY <1>2, <2>1, <2>2 DEF CommitScanUnit
<1>3. CASE Release(w) /\ kStatus' # kStatus
  <2> DEFINE ks == worker[w].jobs
  <2>1. /\ \A k \in ks : kScan[k] # 0
        /\ kStatus' = [k \in KJobIds |-> IF k \in ks THEN "pending" ELSE kStatus[k]]
        /\ worker' = [worker EXCEPT ![w].pc = "send", ![w].jobs = {},
                                    ![w].send = {kScan[k] : k \in ks}]
        /\ UNCHANGED <<kScan, lastKJob>>
    BY <1>3 DEF Release
  <2>2. worker'[w].pc = "send" /\ worker'[w].send = {kScan[k] : k \in ks}
    BY <1>1, <2>1 DEF WorkerStates
  <2>3. KnowledgeRows' /\ RowsStay
    BY <1>1, <2>1 DEF KnowledgeRows, RowsStay
  <2>4. ASSUME NEW k \in KJobIds, Pends(k)', k \notin ks
        PROVE  PendedBefore(k)
    BY <2>1, <2>4 DEF Pends, PendedBefore, IsNewestJob
  <2>5. QED
    BY <2>1, <2>2, <2>3, <2>4
<1>4. CASE \/ \E j \in JobIds : Receive(w, j)
           \/ MarkSucceeded(w) \/ Except(w) \/ WorkerCrash(w) \/ StoreResult(w)
  BY <1>4, RowsKept
  DEF Receive, MarkSucceeded, Except, WorkerCrash, StoreResult, knowledgeVars, tableVars
<1>5. CASE ReadVersion(w) \/ RunOcr(w) \/ EnsureScanUnit(w) \/ DrainGate(w) \/ Collect(w) \/ OcrFails(w)
  BY <1>5, RowsKept
  DEF ReadVersion, RunOcr, EnsureScanUnit, DrainGate, Collect, OcrFails, knowledgeVars, tableVars
<1>6. CASE (Release(w) /\ kStatus' = kStatus) \/ \E s \in ScanIds : SendReleased(w, s)
  BY <1>6, RowsKept DEF Release, SendReleased, tableVars
<1>7. QED
  BY <1>2, <1>3, <1>4, <1>5, <1>6 DEF OcrTask

\* Handlers: the one that makes a job pending is going to send for it.
LEMMA EnsurerPends ==
  ASSUME Typed, KnowledgeRows, Planned, EnsuringKnowledge
  PROVE  /\ KnowledgeRows' /\ RowsStay
         /\ \A k \in KJobIds : Pends(k)' =>
              PendedBefore(k) \/ \E e \in Ensurers : ensurer'[e].send = kScan'[k]
<1>1. ensurer \in [Ensurers -> EnsurerStates]
  BY DEF Typed, PipelineTypeOK, KnowledgeTypeOK
<1>2. ASSUME NEW e \in Ensurers, EnsureCommit(e), UNCHANGED tableVars
      PROVE  KnowledgeRows' /\ RowsStay /\ \A k \in KJobIds : Pends(k)' => PendedBefore(k)
  BY <1>2, RowsKept DEF tableVars
<1>3. ASSUME NEW e \in Ensurers, EnsureCommit(e), Committable(ensurer[e].plan, ensurer[e].res),
             ensurer[e].pc = "release",
             ApplyPlan(ensurer[e].plan, ensurer[e].res, "pending")
      PROVE  /\ KnowledgeRows' /\ RowsStay
             /\ \A k \in KJobIds : Pends(k)' => PendedBefore(k) \/ ensurer'[e].send = kScan'[k]
  <2>1. PlanHolds(ensurer[e].plan) /\ ensurer[e].plan \in Plans
    BY <1>1, <1>3 DEF Planned, EnsurerStates
  <2> DEFINE t == [IdleEnsurer EXCEPT !.pc = "send", !.send = PlanScan(ensurer[e].plan)]
  <2>2. t.send = PlanScan(ensurer[e].plan)
    BY DEF IdleEnsurer
  <2>3. ensurer' = [ensurer EXCEPT ![e] = t]
    BY <1>3 DEF EnsureCommit
  <2> HIDE DEF t
  <2>4. ensurer'[e].send = PlanScan(ensurer[e].plan)
    BY <1>1, <2>2, <2>3
  <2>5. QED
    BY <1>3, <2>1, <2>4, ApplyPlanPends
<1>4. ASSUME NEW e \in Ensurers, EnsureCommit(e), Committable(ensurer[e].plan, ensurer[e].res),
             ApplyPlan(ensurer[e].plan, ensurer[e].res, "queued")
      PROVE  KnowledgeRows' /\ RowsStay /\ \A k \in KJobIds : Pends(k)' => PendedBefore(k)
  <2>1. PlanHolds(ensurer[e].plan) /\ ensurer[e].plan \in Plans
    BY <1>1, <1>4 DEF Planned, EnsurerStates, EnsureCommit
  <2>2. QED
    BY <1>4, <2>1, ApplyPlanPends
<1>5. ASSUME NEW e \in Ensurers, EnsureCommit(e)
      PROVE  /\ KnowledgeRows' /\ RowsStay
             /\ \A k \in KJobIds : Pends(k)' => PendedBefore(k) \/ ensurer'[e].send = kScan'[k]
  <2>1. CASE ~Committable(ensurer[e].plan, ensurer[e].res)
    BY <1>2, <1>5, <2>1 DEF EnsureCommit
  <2>2. CASE Committable(ensurer[e].plan, ensurer[e].res) /\ ensurer[e].pc = "release"
    <3>1. ApplyPlan(ensurer[e].plan, ensurer[e].res, "pending")
      BY <1>5, <2>2 DEF EnsureCommit
    <3>2. QED
      BY <1>3, <1>5, <2>2, <3>1
  <2>3. CASE Committable(ensurer[e].plan, ensurer[e].res) /\ ensurer[e].pc # "release"
    <3>1. ApplyPlan(ensurer[e].plan, ensurer[e].res, "queued")
      BY <1>5, <2>3 DEF EnsureCommit
    <3>2. QED
      BY <1>4, <1>5, <2>3, <3>1
  <2>4. QED
    BY <2>1, <2>2, <2>3
<1>6. CASE UNCHANGED tableVars
  BY <1>6, RowsKept DEF tableVars
<1>7. QED
  BY <1>5, <1>6 DEF EnsuringKnowledge, EnsureKnowledge, ReplayKnowledge, EnsureSend

\* A knowledge worker makes only the job pending whose scan unit it goes on to hold,
\* and lets go of a scan unit with its newest job not pending, or with a message sent.
LEMMA KnowledgePends ==
  ASSUME Typed, KnowledgeRows, Holders, NEW n \in KWorkers,
         (\E m \in KMessages : KReceive(n, m)) \/ KTask(n) \/ KWorkerCrash(n)
  PROVE  /\ KnowledgeRows' /\ RowsStay
         /\ \A k \in KJobIds : Pends(k)' => PendedBefore(k) \/ kworker'[n].scan = kScan'[k]
<1>1. /\ kScan \in [KJobIds -> 0..MaxScans] /\ kStatus \in [KJobIds -> KStatuses]
      /\ lastKJob \in 0..MaxKJobs /\ MaxKJobs \in Nat
      /\ kworker \in [KWorkers -> KWorkerStates] /\ kworker[n] \in KWorkerStates
  BY KnowledgeAssumption DEF Typed, PipelineTypeOK, KnowledgeTypeOK, KWorkerTypeOK
<1>2. ASSUME NEW status, status # "absent", WriteNewest(kworker[n].scan, status), kScan' = kScan,
             lastKJob' = lastKJob, kworker[n].pc # "idle",
             status # "pending" \/ kworker'[n].scan = kworker[n].scan
      PROVE  /\ KnowledgeRows' /\ RowsStay
             /\ \A k \in KJobIds : Pends(k)' => PendedBefore(k) \/ kworker'[n].scan = kScan'[k]
  <2>1. kworker[n].scan # 0
    BY <1>2 DEF Holders
  <2>2. KnowledgeRows' /\ RowsStay
    BY <1>1, <1>2, <2>1 DEF KnowledgeRows, RowsStay, WriteNewest
  <2>3. ASSUME NEW k \in KJobIds, Pends(k)'
        PROVE  PendedBefore(k) \/ kworker'[n].scan = kScan'[k]
    BY <1>2, <2>3 DEF Pends, PendedBefore, WriteNewest, IsNewestJob
  <2>4. QED
    BY <2>2, <2>3
<1>3. CASE Defer(n) \/ Start(n) \/ Finish(n) \/ Fail(n)
  <2>1. kScan' = kScan /\ lastKJob' = lastKJob /\ kworker[n].pc # "idle"
    BY <1>3 DEF Defer, Start, Finish, Fail, KUnchanged
  <2>2. Defer(n) => kworker'[n].scan = kworker[n].scan
    BY <1>1 DEF Defer, KGoto, KWorkerStates
  <2>3. PICK status \in {"pending", "processing", "succeeded", "failed"} :
          /\ WriteNewest(kworker[n].scan, status)
          /\ status = "pending" => Defer(n)
    BY <1>3 DEF Defer, Start, Finish, Fail
  <2>4. QED
    BY <1>2, <2>1, <2>2, <2>3
<1>4. CASE UNCHANGED <<kScan, kStatus, lastKJob>>
  BY <1>4, RowsKept
<1>5. QED
  BY <1>3, <1>4
  DEF KTask, KReceive, Resend, RunPipeline, PipelineFails, Retry, KUnchanged, KWorkerCrash,
      knowledgeVars, tableVars

\* What the functions of common/application/knowledge decide from the tables.
LEMMA DecisionHolds ==
  ASSUME Typed, KnowledgeRows, NEW r, NEW p \in Plans, IsPlan(p, r)
  PROVE  PlanHolds(p)
<1>1. /\ kScan \in [KJobIds -> 0..MaxScans] /\ lastKJob \in 0..MaxKJobs /\ MaxKJobs \in Nat
      /\ p.kjob \in 0..MaxKJobs
  BY KnowledgeAssumption DEF Typed, PipelineTypeOK, KnowledgeTypeOK, Plans
<1>2. CASE p.write = "new_scan"
  BY <1>2 DEF PlanHolds
<1>3. CASE p.write # "new_scan"
  <2>1. p.scan \in ScanIds /\ IsNewestJob(p.kjob, p.scan) /\ p.write = WriteFor(p.kjob)
    BY <1>3 DEF IsPlan, ScansOf
  <2>2. ASSUME p.write = "requeue"
        PROVE  p.kjob \in 1..lastKJob /\ kScan[p.kjob] = p.scan
    <3>1. p.kjob # 0 /\ kStatus[p.kjob] = "pending" /\ kScan[p.kjob] = p.scan
      BY <2>1, <2>2 DEF WriteFor, IsNewestJob
    <3>2. p.kjob \in KJobIds /\ kScan[p.kjob] # 0
      BY <1>1, <3>1 DEF KnowledgeRows, KJobIds
    <3>3. ~(p.kjob > lastKJob)
      BY <3>2 DEF KnowledgeRows
    <3>4. QED
      BY <1>1, <3>1, <3>3
  <2>3. QED
    BY <2>1, <2>2 DEF PlanHolds
<1>4. QED
  BY <1>2, <1>3

\* Decisions are taken from the tables and hold until they are committed.
LEMMA PlannedStep ==
  ASSUME Typed, KnowledgeRows, Planned, [Next]_vars, RowsStay, lastKJob' \in Nat
  PROVE  Planned'
<1>1. /\ worker \in [Workers -> WorkerStates] /\ ensurer \in [Ensurers -> EnsurerStates]
      /\ lastKJob \in Nat
  BY KnowledgeAssumption DEF Typed, PipelineTypeOK, KnowledgeTypeOK, WorkerTypeOK
<1> DEFINE Kept(q) == \E p : p = q /\ PlanHolds(p)'
<1>2. \A p : PlanHolds(p) => Kept(p)
  BY <1>1, PlanStays
<1> HIDE DEF Kept
<1>3. \A w \in Workers : worker[w].pc = "commit" => Kept(worker[w].plan)
  BY <1>2 DEF Planned
<1>4. \A e \in Ensurers : ensurer[e].pc # "idle" => Kept(ensurer[e].plan)
  BY <1>2 DEF Planned
<1>5. \A w \in Workers : worker'[w].pc = "commit" => Kept(worker'[w].plan)
  <2>1. CASE worker' = worker
    BY <1>3, <2>1
  <2>2. CASE Ocr
    <3> PICK w \in Workers : \/ \E j \in JobIds : Receive(w, j)
                             \/ OcrTask(w) \/ OcrFails(w) \/ WorkerCrash(w)
      BY <2>2 DEF Ocr
    <3>1. CASE OcrTask(w) \/ OcrFails(w)
      <4>1. worker' = [worker EXCEPT ![w] = worker'[w]]
        BY <3>1, TaskGoesTo
      <4>2. ASSUME EnsureScanUnit(w), worker'[w].pc = "commit"
            PROVE  Kept(worker'[w].plan)
        <5>1. PICK p \in Plans : /\ IsPlan(p, worker[w].res)
                                 /\ worker' = [worker EXCEPT ![w].pc = "commit", ![w].plan = p]
          BY <1>1, <4>2 DEF EnsureScanUnit, Goto, WorkerStates
        <5>2. worker'[w].plan = p
          BY <1>1, <5>1 DEF WorkerStates
        <5>3. Kept(p)
          BY <1>2, <5>1, DecisionHolds
        <5>4. QED
          BY <5>2, <5>3
      <4>3. ~EnsureScanUnit(w) => worker'[w].pc # "commit"
        BY <3>1, TaskGoesTo DEF OcrTask
      <4>4. QED
        BY <1>1, <1>3, <4>1, <4>2, <4>3
    <3>2. ASSUME NEW j \in JobIds, Receive(w, j)
          PROVE  \A v \in Workers : worker'[v].pc = "commit" => worker'[v] = worker[v]
      <4> DEFINE t == [IdleWorker EXCEPT !.pc = "read", !.job = j]
      <4>1. t.pc # "commit"
        BY DEF IdleWorker
      <4>2. worker' = worker \/ worker' = [worker EXCEPT ![w] = t]
        BY <3>2 DEF Receive
      <4> HIDE DEF t
      <4>3. QED
        BY <1>1, <4>1, <4>2
    <3>3. CASE WorkerCrash(w)
      <4>1. ASSUME NEW v \in Workers, worker'[v].pc = "commit"
            PROVE  worker'[v] = worker[v]
        BY <1>1, <3>3, <4>1 DEF WorkerCrash, EndTask, Raise, Goto, IdleWorker, WorkerStates
      <4>2. QED
        BY <1>3, <4>1
    <3>4. QED
      BY <1>3, <3>1, <3>2, <3>3
  <2>3. QED
    BY <2>1, <2>2, DrivenElsewhere DEF Next, Ingestion, DeletingOcr, workerVars
<1>6. \A e \in Ensurers : ensurer'[e].pc # "idle" => Kept(ensurer'[e].plan)
  <2>1. CASE ensurer' = ensurer
    BY <1>4, <2>1
  <2>2. ASSUME NEW e \in Ensurers, ensurer' = [ensurer EXCEPT ![e] = ensurer'[e]],
               ensurer'[e].pc # "idle" => Kept(ensurer'[e].plan)
        PROVE  \A f \in Ensurers : ensurer'[f].pc # "idle" => Kept(ensurer'[f].plan)
    BY <1>1, <1>4, <2>2
  <2>3. ASSUME NEW e \in Ensurers, NEW r \in ResultIds, EnsureKnowledge(e, r)
        PROVE  \A f \in Ensurers : ensurer'[f].pc # "idle" => Kept(ensurer'[f].plan)
    <3>1. PICK p \in Plans : IsPlan(p, r) /\ \E pc : ensurer' = [ensurer EXCEPT ![e] =
                               [pc |-> pc, res |-> r, plan |-> p, send |-> 0]]
      BY <2>3 DEF EnsureKnowledge
    <3>2. Kept(p)
      BY <1>2, <3>1, DecisionHolds
    <3>3. ensurer'[e].plan = p
      BY <1>1, <3>1
    <3>4. QED
      BY <1>1, <2>2, <3>1, <3>2, <3>3
  <2>4. ASSUME NEW e \in Ensurers, NEW k \in KJobIds, ReplayKnowledge(e, k)
        PROVE  \A f \in Ensurers : ensurer'[f].pc # "idle" => Kept(ensurer'[f].plan)
    <3> DEFINE p == [scan |-> kScan[k], kjob |-> 0, write |-> "new_job"]
    <3>1. kScan[k] \in ScanIds
      BY <2>4, KnowledgeAssumption
      DEF ReplayKnowledge, KnowledgeRows, Typed, PipelineTypeOK, KnowledgeTypeOK, ScanIds
    <3>2. PlanHolds(p)
      BY <3>1 DEF PlanHolds
    <3> HIDE DEF p
    <3>3. ensurer' = [ensurer EXCEPT ![e] = [pc |-> "replay", res |-> 0, send |-> 0, plan |-> p]]
      BY <2>4 DEF ReplayKnowledge, p
    <3>4. ensurer'[e].plan = p
      BY <1>1, <3>3
    <3>5. QED
      BY <1>1, <1>2, <2>2, <3>2, <3>3, <3>4
  <2>5. Kept(NoPlan)
    <3>1. PlanHolds(NoPlan)'
      BY DEF PlanHolds, NoPlan
    <3>2. QED
      BY <3>1 DEF Kept
  <2>6. ASSUME NEW e \in Ensurers, EnsureCommit(e) \/ EnsureSend(e) \/ EnsurerCrash(e)
        PROVE  \A f \in Ensurers : ensurer'[f].pc # "idle" => Kept(ensurer'[f].plan)
    <3> DEFINE t == [IdleEnsurer EXCEPT !.pc = "send", !.send = PlanScan(ensurer[e].plan)]
    <3>1. IdleEnsurer.plan = NoPlan /\ t.plan = NoPlan
      BY DEF IdleEnsurer
    <3>2. ensurer' = [ensurer EXCEPT ![e] = IdleEnsurer] \/ ensurer' = [ensurer EXCEPT ![e] = t]
      BY <2>6 DEF EnsureCommit, EnsureSend, EnsurerCrash
    <3> HIDE DEF t
    <3>3. ensurer'[e].plan = NoPlan /\ ensurer' = [ensurer EXCEPT ![e] = ensurer'[e]]
      BY <1>1, <3>1, <3>2
    <3>4. QED
      BY <2>2, <2>5, <3>3
  <2>7. CASE Ocr
    BY <2>1, <2>7, ZenonT(40)
    DEF Ocr, OcrTask, Receive, OcrFails, WorkerCrash, ReadVersion, RunOcr, StoreResult, MarkSucceeded,
        EnsureScanUnit, CommitScanUnit, DrainGate, Collect, Release, SendReleased, Except,
        knowledgeVars
  <2>8. CASE Knowledge
    BY <2>1, <2>8
    DEF Knowledge, KTask, KReceive, Defer, Resend, Start, RunPipeline, PipelineFails, Finish, Fail,
        Retry, KUnchanged, KWorkerCrash, knowledgeVars
  <2>9. CASE Ingestion \/ DeletingOcr \/ UNCHANGED vars
    BY <2>1, <2>9 DEF Ingestion, DeletingOcr, Reingest, knowledgeVars, vars
  <2>10. QED
    BY <2>3, <2>4, <2>6, <2>7, <2>8, <2>9 DEF Next, EnsuringKnowledge, LosingEnsurer
<1>7. QED
  BY <1>5, <1>6 DEF Planned, PlanHolds, Kept

\* What a task does to the scan units it is going to send messages for.
LEMMA TaskSends ==
  ASSUME Typed, NEW w \in Workers
  PROVE  /\ OcrTask(w) \/ OcrFails(w) \/ (\E j \in JobIds : Receive(w, j)) \/ WorkerCrash(w) =>
              /\ worker' = [worker EXCEPT ![w] = worker'[w]]
              /\ \/ Release(w) /\ worker'[w].pc = "send"
                 \/ worker'[w].send \subseteq worker[w].send
         /\ \A s \in ScanIds : SendReleased(w, s) =>
              /\ worker[w].send \ {s} \subseteq worker'[w].send
              /\ worker'[w].send # {} => worker'[w].pc = "send"
<1>1. worker \in [Workers -> WorkerStates] /\ worker[w] \in WorkerStates
  BY DEF Typed, PipelineTypeOK, WorkerTypeOK
<1> DEFINE Sends(ss) == worker' = [worker EXCEPT ![w] = worker'[w]] /\ worker'[w].send = ss
<1>2. ASSUME NEW pc, Goto(w, pc)
      PROVE  Sends(worker[w].send)
  BY <1>1, <1>2 DEF Goto, WorkerStates
<1>3. ASSUME EndTask(w)
      PROVE  Sends({})
  BY <1>1, <1>3 DEF EndTask, IdleWorker
<1>4. ASSUME NEW t, t.send = {}, worker' = [worker EXCEPT ![w] = t]
      PROVE  Sends({})
  BY <1>1, <1>4
<1>5. \A j \in JobIds : Receive(w, j) => Sends({}) \/ worker' = worker
  <2> TAKE j \in JobIds
  <2> DEFINE t == [IdleWorker EXCEPT !.pc = "read", !.job = j]
  <2>1. t.send = {}
    BY DEF IdleWorker
  <2>2. Receive(w, j) => worker' = worker \/ worker' = [worker EXCEPT ![w] = t]
    BY DEF Receive
  <2> HIDE DEF t
  <2>3. QED
    BY <1>4, <2>1, <2>2
<1>6. ReadVersion(w) => Sends(worker[w].send)
  <2>1. ASSUME NEW v, worker' = [worker EXCEPT ![w].pc = "ocr", ![w].ver = v]
        PROVE  Sends(worker[w].send)
    BY <1>1, <2>1 DEF WorkerStates
  <2>2. QED
    BY <1>2, <2>1 DEF ReadVersion
<1>7. RunOcr(w) => Sends(worker[w].send)
  <2>1. ASSUME NEW pc, NEW r, worker' = [worker EXCEPT ![w].pc = pc, ![w].res = r]
        PROVE  Sends(worker[w].send)
    BY <1>1, <2>1 DEF WorkerStates
  <2>2. QED
    BY <2>1 DEF RunOcr
<1>8. StoreResult(w) => Sends(worker[w].send)
  <2>1. ASSUME NEW r, worker' = [worker EXCEPT ![w].pc = "mark", ![w].res = r]
        PROVE  Sends(worker[w].send)
    BY <1>1, <2>1 DEF WorkerStates
  <2>2. QED
    BY <2>1 DEF StoreResult
<1>9. OcrFails(w) \/ MarkSucceeded(w) => Sends(worker[w].send)
  BY <1>2 DEF OcrFails, MarkSucceeded
<1>10. EnsureScanUnit(w) => Sends(worker[w].send)
  <2>1. ASSUME NEW p, worker' = [worker EXCEPT ![w].pc = "commit", ![w].plan = p]
        PROVE  Sends(worker[w].send)
    BY <1>1, <2>1 DEF WorkerStates
  <2>2. QED
    BY <1>2, <2>1 DEF EnsureScanUnit
<1>11. CommitScanUnit(w) => Sends({}) \/ Sends(worker[w].send)
  <2> DEFINE t == [IdleWorker EXCEPT !.pc = "drain", !.job = worker[w].job]
  <2>1. t.send = {}
    BY DEF IdleWorker
  <2>2. CommitScanUnit(w) => worker' = [worker EXCEPT ![w] = t] \/ Goto(w, "failing")
    BY DEF CommitScanUnit
  <2> HIDE DEF t
  <2>3. QED
    BY <1>2, <1>4, <2>1, <2>2
<1>12. DrainGate(w) => Sends({}) \/ Sends(worker[w].send)
  BY <1>2, <1>3 DEF DrainGate
<1>13. Collect(w) => Sends({}) \/ Sends(worker[w].send)
  <2>1. ASSUME NEW ks, worker' = [worker EXCEPT ![w].pc = "release", ![w].jobs = ks]
        PROVE  Sends(worker[w].send)
    BY <1>1, <2>1 DEF WorkerStates
  <2>2. QED
    BY <1>3, <2>1 DEF Collect
<1>14. Raise(w) => Sends({}) \/ Sends(worker[w].send)
  BY <1>2, <1>3 DEF Raise
<1>15. Release(w) => \/ /\ worker' = [worker EXCEPT ![w] = worker'[w]]
                        /\ worker'[w].pc = "send"
                     \/ Sends({}) \/ Sends(worker[w].send)
  <2>1. ASSUME NEW ss, worker' = [worker EXCEPT ![w].pc = "send", ![w].jobs = {}, ![w].send = ss]
        PROVE  worker' = [worker EXCEPT ![w] = worker'[w]] /\ worker'[w].pc = "send"
    BY <1>1, <2>1 DEF WorkerStates
  <2>2. QED
    BY <1>14, <2>1 DEF Release
<1>16. ASSUME NEW s \in ScanIds, SendReleased(w, s)
       PROVE  /\ Sends(worker[w].send \ {s})
              /\ worker'[w].send # {} => worker'[w].pc = "send"
  <2>1. CASE worker[w].send = {s}
    <3>1. EndTask(w) /\ worker[w].send \ {s} = {}
      BY <1>16, <2>1 DEF SendReleased
    <3>2. QED
      BY <1>3, <3>1
  <2>2. CASE worker[w].send # {s}
    <3>1. worker' = [worker EXCEPT ![w].send = @ \ {s}] /\ worker[w].pc = "send"
      BY <1>16, <2>2 DEF SendReleased
    <3>2. QED
      BY <1>1, <3>1 DEF WorkerStates
  <2>3. QED
    BY <2>1, <2>2
<1>17. Except(w) => Sends({})
  <2> DEFINE t == [IdleWorker EXCEPT !.pc = "drain", !.job = worker[w].job, !.ok = FALSE]
  <2>1. t.send = {}
    BY DEF IdleWorker
  <2>2. Except(w) => worker' = [worker EXCEPT ![w] = t] \/ EndTask(w)
    BY DEF Except
  <2> HIDE DEF t
  <2>3. QED
    BY <1>3, <1>4, <2>1, <2>2
<1>18. WorkerCrash(w) => Sends({}) \/ Sends(worker[w].send)
  BY <1>3, <1>14 DEF WorkerCrash
<1>19. worker = [worker EXCEPT ![w] = worker[w]]
  BY <1>1
<1>20. ASSUME Sends({}) \/ Sends(worker[w].send) \/ worker' = worker
       PROVE  worker' = [worker EXCEPT ![w] = worker'[w]] /\ worker'[w].send \subseteq worker[w].send
  BY <1>19, <1>20
<1>21. ASSUME NEW s \in ScanIds, SendReleased(w, s)
       PROVE  /\ worker' = [worker EXCEPT ![w] = worker'[w]] /\ worker'[w].send \subseteq worker[w].send
              /\ worker[w].send \ {s} \subseteq worker'[w].send
              /\ worker'[w].send # {} => worker'[w].pc = "send"
  BY <1>16, <1>21
<1> HIDE DEF Sends
<1>22. QED
  BY <1>5, <1>6, <1>7, <1>8, <1>9, <1>10, <1>11, <1>12, <1>13, <1>15, <1>17, <1>18, <1>20, <1>21
  DEF OcrTask

\* Who holds a scan unit lets go of it only with its last step.
LEMMA HoldersStep ==
  ASSUME Typed, KnowledgeRows, Planned, Holders, [Next]_vars
  PROVE  Holders'
<1>1. /\ worker \in [Workers -> WorkerStates] /\ ensurer \in [Ensurers -> EnsurerStates]
      /\ kworker \in [KWorkers -> KWorkerStates] /\ lastScan \in Nat
  BY DEF Typed, PipelineTypeOK, KnowledgeTypeOK, WorkerTypeOK, KWorkerTypeOK
<1>2. crashes' = 0 => \A w \in Workers : worker'[w].send # {} => worker'[w].pc = "send"
  <2> SUFFICES ASSUME crashes' = 0 PROVE \A w \in Workers : worker'[w].send # {} => worker'[w].pc = "send"
    OBVIOUS
  <2>1. crashes = 0 /\ crashes' = crashes
    BY CrashesGrow DEF Typed, PipelineTypeOK, IngestTypeOK
  <2>2. CASE worker' = worker
    BY <2>1, <2>2 DEF Holders
  <2>3. CASE Ocr
    <3> PICK w \in Workers : \/ \E j \in JobIds : Receive(w, j)
                             \/ OcrTask(w) \/ OcrFails(w) \/ WorkerCrash(w)
      BY <2>3 DEF Ocr
    <3>1. /\ worker' = [worker EXCEPT ![w] = worker'[w]]
          /\ (Release(w) /\ worker'[w].pc = "send") \/ worker'[w].send \subseteq worker[w].send
      BY TaskSends
    <3>2. CASE worker[w].pc = "send"
      <4>1. PICK s \in ScanIds : SendReleased(w, s)
        BY <2>1, <3>2
        DEF OcrTask, Receive, OcrFails, WorkerCrash, ReadVersion, RunOcr, StoreResult, MarkSucceeded,
            EnsureScanUnit, CommitScanUnit, DrainGate, Collect, Release, Except
      <4>2. worker'[w].send # {} => worker'[w].pc = "send"
        BY <4>1, TaskSends
      <4>3. QED
        BY <1>1, <2>1, <3>1, <4>2 DEF Holders
    <3>3. CASE worker[w].pc # "send"
      <4>1. worker'[w].pc = "send" \/ worker'[w].send = {}
        BY <2>1, <3>1, <3>3 DEF Holders
      <4>2. QED
        BY <1>1, <2>1, <3>1, <4>1 DEF Holders
    <3>4. QED
      BY <3>2, <3>3
  <2>4. QED
    BY <2>2, <2>3, DrivenElsewhere DEF Next, Ingestion, DeletingOcr, workerVars
<1>3. \A e \in Ensurers : EnsurerHolds(ensurer'[e])
  <2>1. CASE ensurer' = ensurer
    BY <2>1 DEF Holders
  <2>2. ASSUME NEW e \in Ensurers, NEW t, EnsurerHolds(t), ensurer' = [ensurer EXCEPT ![e] = t]
        PROVE  \A f \in Ensurers : EnsurerHolds(ensurer'[f])
    BY <1>1, <2>2 DEF Holders
  <2>3. EnsurerHolds(IdleEnsurer)
    BY DEF IdleEnsurer, EnsurerHolds
  <2>4. ASSUME NEW e \in Ensurers, EnsureCommit(e)
        PROVE  \A f \in Ensurers : EnsurerHolds(ensurer'[f])
    <3> DEFINE p == ensurer[e].plan
    <3> DEFINE t == [IdleEnsurer EXCEPT !.pc = "send", !.send = PlanScan(p)]
    <3>1. t.pc = "send" /\ t.send = PlanScan(p)
      BY DEF IdleEnsurer
    <3>2. \/ ensurer' = [ensurer EXCEPT ![e] = IdleEnsurer]
          \/ /\ ensurer' = [ensurer EXCEPT ![e] = t]
             /\ ensurer[e].pc \in {"release", "replay"}
      BY <2>4 DEF EnsureCommit
    <3>3. CASE ensurer' = [ensurer EXCEPT ![e] = IdleEnsurer]
      BY <2>2, <2>3, <3>3
    <3>4. CASE ensurer[e].pc \in {"release", "replay"} /\ ensurer' = [ensurer EXCEPT ![e] = t]
      <4>1. PlanScan(p) # 0
        <5>1. PlanHolds(p) /\ p.write # "nothing" /\ p \in Plans
          BY <1>1, <3>4 DEF Planned, Holders, EnsurerHolds, EnsurerStates
        <5>2. QED
          BY <1>1, <5>1 DEF PlanHolds, PlanScan, ScanIds, Plans, Writes
      <4> HIDE DEF t
      <4>2. QED
        BY <2>2, <3>1, <3>4, <4>1 DEF EnsurerHolds
    <3>5. QED
      BY <3>2, <3>3, <3>4
  <2>5. ASSUME NEW e \in Ensurers, EnsureSend(e) \/ EnsurerCrash(e)
        PROVE  \A f \in Ensurers : EnsurerHolds(ensurer'[f])
    BY <2>2, <2>3, <2>5 DEF EnsureSend, EnsurerCrash
  <2>6. ASSUME NEW e \in Ensurers, NEW r \in ResultIds, EnsureKnowledge(e, r)
        PROVE  \A f \in Ensurers : EnsurerHolds(ensurer'[f])
    <3>1. PICK p \in Plans, pc \in {"release", "wait"} :
            /\ ensurer' = [ensurer EXCEPT ![e] = [pc |-> pc, res |-> r, plan |-> p, send |-> 0]]
            /\ pc = "release" => p.write # "nothing"
      BY <2>6 DEF EnsureKnowledge, ShouldDispatch
    <3>2. EnsurerHolds([pc |-> pc, res |-> r, plan |-> p, send |-> 0])
      BY <3>1 DEF EnsurerHolds
    <3>3. QED
      BY <2>2, <3>1, <3>2
  <2>7. ASSUME NEW e \in Ensurers, NEW k \in KJobIds, ReplayKnowledge(e, k)
        PROVE  \A f \in Ensurers : EnsurerHolds(ensurer'[f])
    <3> DEFINE t == [pc |-> "replay", res |-> 0, send |-> 0,
                     plan |-> [scan |-> kScan[k], kjob |-> 0, write |-> "new_job"]]
    <3>1. EnsurerHolds(t)
      BY DEF EnsurerHolds
    <3>2. ensurer' = [ensurer EXCEPT ![e] = t]
      BY <2>7 DEF ReplayKnowledge
    <3> HIDE DEF t
    <3>3. QED
      BY <2>2, <3>1, <3>2
  <2>8. CASE Ocr
    BY <2>1, <2>8
    DEF Ocr, OcrTask, Receive, OcrFails, WorkerCrash, ReadVersion, RunOcr, StoreResult, MarkSucceeded,
        EnsureScanUnit, CommitScanUnit, DrainGate, Collect, Release, SendReleased, Except,
        knowledgeVars
  <2>9. CASE Knowledge
    BY <2>1, <2>9
    DEF Knowledge, KTask, KReceive, Defer, Resend, Start, RunPipeline, PipelineFails, Finish, Fail,
        Retry, KUnchanged, KWorkerCrash, knowledgeVars
  <2>10. CASE Ingestion \/ DeletingOcr \/ UNCHANGED vars
    BY <2>1, <2>10 DEF Ingestion, DeletingOcr, Reingest, knowledgeVars, vars
  <2>11. QED
    BY <2>4, <2>5, <2>6, <2>7, <2>8, <2>9, <2>10 DEF Next, EnsuringKnowledge, LosingEnsurer
<1>4. \A n \in KWorkers : /\ kworker'[n].pc = "idle" <=> kworker'[n].scan = 0
                          /\ kworker'[n].pc = "retry" => kworker'[n].retries < MaxRetries
  <2> DEFINE Holds == \A n \in KWorkers : /\ kworker'[n].pc = "idle" <=> kworker'[n].scan = 0
                                          /\ kworker'[n].pc = "retry" => kworker'[n].retries < MaxRetries
  <2>1. CASE kworker' = kworker
    BY <2>1 DEF Holders
  <2>2. ASSUME NEW n \in KWorkers, kworker[n].pc # "idle", NEW pc, pc # "idle",
               pc = "retry" => kworker[n].retries < MaxRetries, KGoto(n, pc)
        PROVE  Holds
    BY <1>1, <2>2 DEF KGoto, Holders, KWorkerStates
  <2>3. ASSUME NEW n \in KWorkers, KEndTask(n)
        PROVE  Holds
    BY <1>1, <2>3 DEF KEndTask, Holders, IdleKWorker
  <2>4. ASSUME NEW n \in KWorkers, NEW m \in KMessages, KReceive(n, m)
        PROVE  Holds
    <3>1. PICK pc \in {"defer", "start"} :
            kworker' = [kworker EXCEPT ![n] = [pc |-> pc, scan |-> m[1], retries |-> m[2]]]
      BY <2>4 DEF KReceive
    <3>2. m[1] # 0
      BY DEF KMessages, ScanIds
    <3>3. QED
      BY <1>1, <3>1, <3>2 DEF Holders
  <2> HIDE DEF Holds
  <2>5. ASSUME NEW n \in KWorkers, KTask(n)
        PROVE  Holds
    <3>1. CASE Fail(n)
      BY <2>2, <2>3, <3>1 DEF Fail
    <3>2. CASE Defer(n) \/ Start(n) \/ RunPipeline(n) \/ PipelineFails(n)
      BY <2>2, <3>2 DEF Defer, Start, RunPipeline, PipelineFails
    <3>3. CASE Resend(n) \/ Finish(n) \/ Retry(n)
      BY <2>3, <3>3 DEF Resend, Finish, Retry
    <3>4. QED
      BY <2>5, <3>1, <3>2, <3>3 DEF KTask
  <2>6. CASE Knowledge
    BY <2>3, <2>4, <2>5, <2>6 DEF Knowledge, KWorkerCrash, Holds
  <2>7. CASE ~Knowledge
    <3>1. kworker' = kworker
      BY <2>7 DEF Next, Ingestion, DeletingOcr, EnsuringKnowledge, LosingEnsurer, Ocr, vars, kworkerVars
    <3>2. QED
      BY <2>1, <3>1
  <2>8. QED
    BY <2>6, <2>7
<1>5. QED
  BY <1>2, <1>3, <1>4 DEF Holders

\* The parts of MessageFor, by where the message is or who is going to send it.
InBroker(s) == \E m \in KMessages : m[1] = s /\ kqueue[m] > 0
Releasing(s) == \E w \in Workers : s \in worker[w].send
Ensuring(s) == \E e \in Ensurers : ensurer[e].send = s
InWorker(s) == \E n \in KWorkers : kworker[n].scan = s

LEMMA MessageParts ==
  ASSUME NEW s
  PROVE  MessageFor(s) <=> InBroker(s) \/ Releasing(s) \/ Ensuring(s) \/ InWorker(s)
  BY DEF MessageFor, InBroker, Releasing, Ensuring, InWorker

\* One more message for scan unit s.
LEMMA SendScanMessage ==
  ASSUME Typed, NEW s \in ScanIds, NEW n \in 0..MaxRetries, SendScan(s, n)
  PROVE  InBroker(s)' /\ \A t : InBroker(t) => InBroker(t)'
<1> DEFINE m == <<s, n>>
<1>1. kqueue' = [kqueue EXCEPT ![m] = @ + 1] /\ kqueue \in [KMessages -> Nat]
  BY DEF SendScan, Typed, PipelineTypeOK, KnowledgeTypeOK
<1>2. m \in KMessages /\ m[1] = s
  BY DEF KMessages
<1> HIDE DEF m
<1>3. kqueue'[m] > 0 /\ \A l \in KMessages : kqueue[l] > 0 => kqueue'[l] > 0
  BY <1>1, <1>2
<1>4. QED
  BY <1>2, <1>3 DEF InBroker

\* OCR tasks leave the messages of others alone and send their own.
LEMMA MessageOcr ==
  ASSUME Typed, Holders, Ocr, crashes = 0, crashes' = 0, NEW s \in ScanIds, MessageFor(s)
  PROVE  MessageFor(s)'
<1> PICK w \in Workers : \/ \E j \in JobIds : Receive(w, j)
                         \/ OcrTask(w) \/ OcrFails(w) \/ WorkerCrash(w)
  BY DEF Ocr
<1>1. /\ worker \in [Workers -> WorkerStates] /\ kworker' = kworker
      /\ worker' = [worker EXCEPT ![w] = worker'[w]]
  BY TaskSends DEF Typed, PipelineTypeOK, WorkerTypeOK, Ocr, kworkerVars
<1>2. CASE \E t \in ScanIds : SendReleased(w, t)
  <2>1. PICK t \in ScanIds : SendReleased(w, t)
    BY <1>2
  <2>2. /\ ensurer' = ensurer /\ InBroker(t)' /\ (InBroker(s) => InBroker(s)')
    BY <2>1, SendScanMessage, KnowledgeAssumption DEF SendReleased
  <2>3. Releasing(s) => Releasing(s)' \/ s = t
    BY <1>1, <2>1, TaskSends DEF Releasing
  <2>4. (Ensuring(s) => Ensuring(s)') /\ (InWorker(s) => InWorker(s)')
    BY <1>1, <2>2 DEF Ensuring, InWorker
  <2>5. QED
    BY <2>2, <2>3, <2>4, MessageParts DEF MessageFor, InBroker, Releasing, Ensuring, InWorker
<1>3. CASE ~\E t \in ScanIds : SendReleased(w, t)
  <2>1. worker[w].pc # "send"
    <3>1. CASE worker[w].pc = "send" /\ WorkerCrash(w)
      BY <3>1 DEF WorkerCrash
    <3>2. QED
      BY <1>3, <3>1
      DEF OcrTask, Receive, OcrFails, ReadVersion, RunOcr, StoreResult, MarkSucceeded, EnsureScanUnit,
          CommitScanUnit, DrainGate, Collect, Release, Except
  <2>2. worker[w].send = {}
    BY <2>1 DEF Holders
  <2>3. UNCHANGED <<kqueue, ensurer>>
    BY <1>3
    DEF OcrTask, Receive, OcrFails, WorkerCrash, ReadVersion, RunOcr, StoreResult, MarkSucceeded,
        EnsureScanUnit, CommitScanUnit, DrainGate, Collect, Release, Except, knowledgeVars
  <2>4. Releasing(s) => Releasing(s)'
    BY <1>1, <2>2 DEF Releasing
  <2>5. QED
    BY <1>1, <2>3, <2>4 DEF MessageFor, Releasing
<1>4. QED
  BY <1>2, <1>3

\* A handler starts with no scan unit and lets go of one with the message it sends.
LEMMA MessageEnsurer ==
  ASSUME Typed, Holders, EnsuringKnowledge, NEW s \in ScanIds, MessageFor(s)
  PROVE  MessageFor(s)'
<1>1. /\ ensurer \in [Ensurers -> EnsurerStates] /\ UNCHANGED <<worker, kworker>> /\ s # 0
  BY KnowledgeAssumption
  DEF Typed, PipelineTypeOK, KnowledgeTypeOK, EnsuringKnowledge, workerVars, kworkerVars, ScanIds
<1>2. ASSUME NEW e \in Ensurers, \E t : ensurer' = [ensurer EXCEPT ![e] = t],
             InBroker(s) => InBroker(s)', ensurer[e].send = s => InBroker(s)'
      PROVE  MessageFor(s)'
  <2>1. \A f \in Ensurers : f # e => ensurer'[f] = ensurer[f]
    BY <1>1, <1>2
  <2>2. Ensuring(s) => Ensuring(s)' \/ InBroker(s)'
    BY <1>2, <2>1 DEF Ensuring
  <2>3. (Releasing(s) => Releasing(s)') /\ (InWorker(s) => InWorker(s)')
    BY <1>1 DEF Releasing, InWorker
  <2>4. QED
    BY <1>2, <2>2, <2>3, MessageParts DEF MessageFor, InBroker, Releasing, Ensuring, InWorker
<1>3. ASSUME NEW e \in Ensurers, EnsureSend(e)
      PROVE  MessageFor(s)'
  <2>1. PICK t \in ScanIds : t = ensurer[e].send
    BY <1>1, <1>3, KnowledgeAssumption DEF EnsureSend, Holders, EnsurerHolds, EnsurerStates, ScanIds
  <2>2. InBroker(t)' /\ (InBroker(s) => InBroker(s)')
    BY <1>3, <2>1, SendScanMessage, KnowledgeAssumption DEF EnsureSend
  <2>3. QED
    BY <1>2, <1>3, <2>1, <2>2 DEF EnsureSend
<1>4. ASSUME NEW e \in Ensurers, ensurer[e].pc # "send", kqueue' = kqueue,
             \E t : ensurer' = [ensurer EXCEPT ![e] = t]
      PROVE  MessageFor(s)'
  <2>1. ensurer[e].send = 0
    BY <1>4 DEF Holders, EnsurerHolds
  <2>2. QED
    BY <1>1, <1>2, <1>4, <2>1 DEF InBroker
<1>5. ASSUME NEW e \in Ensurers, EnsureCommit(e)
      PROVE  MessageFor(s)'
  BY <1>4, <1>5 DEF EnsureCommit
<1>6. ASSUME NEW e \in Ensurers, NEW r \in ResultIds, EnsureKnowledge(e, r)
      PROVE  MessageFor(s)'
  BY <1>4, <1>6 DEF EnsureKnowledge, AcceptKCall
<1>7. ASSUME NEW e \in Ensurers, NEW k \in KJobIds, ReplayKnowledge(e, k)
      PROVE  MessageFor(s)'
  BY <1>4, <1>7 DEF ReplayKnowledge, AcceptKCall
<1>8. QED
  BY <1>3, <1>5, <1>6, <1>7 DEF EnsuringKnowledge

\* A knowledge worker takes a message over, sends one again, or writes a status that
\* is not pending before it lets go.
LEMMA MessageKnowledge ==
  ASSUME Typed, KnowledgeRows, Holders, Knowledge, crashes = 0, crashes' = 0,
         NEW k \in KJobIds, Pends(k)', PendedBefore(k), NEW s \in ScanIds, kScan[k] = s, MessageFor(s)
  PROVE  MessageFor(s)'
<1>1. PICK n \in KWorkers :
        (\E m \in KMessages : KReceive(n, m)) \/ KTask(n) \/ KWorkerCrash(n)
  BY DEF Knowledge
<1>2. /\ kworker \in [KWorkers -> KWorkerStates] /\ kqueue \in [KMessages -> Nat]
      /\ kScan' = kScan /\ MaxRetries \in Nat /\ kworker[n] \in KWorkerStates
  BY KnowledgeQueuesNothing, KnowledgeAssumption
  DEF Typed, PipelineTypeOK, KnowledgeTypeOK, KWorkerTypeOK
<1>3. UNCHANGED <<worker, ensurer>>
  BY <1>1
  DEF KTask, KReceive, Defer, Resend, Start, RunPipeline, PipelineFails, Finish, Fail, Retry,
      KUnchanged, KWorkerCrash, workerVars, knowledgeVars
<1>4. ASSUME kworker' = [kworker EXCEPT ![n] = kworker'[n]], InBroker(s) => InBroker(s)',
             kworker[n].scan = s => kworker'[n].scan = s \/ InBroker(s)'
      PROVE  MessageFor(s)'
  <2>1. (Releasing(s) => \E w \in Workers : s \in worker'[w].send)
        /\ (Ensuring(s) => \E e \in Ensurers : ensurer'[e].send = s)
    BY <1>3 DEF Releasing, Ensuring
  <2>2. InWorker(s) => InBroker(s)' \/ \E l \in KWorkers : kworker'[l].scan = s
    BY <1>2, <1>4 DEF InWorker
  <2>3. QED
    BY <1>2, <1>4, <2>1, <2>2, MessageParts DEF MessageFor, InBroker
<1>5. ASSUME NEW m \in KMessages, KReceive(n, m)
      PROVE  MessageFor(s)'
  <2>1. PICK pc : kworker' = [kworker EXCEPT ![n] = [pc |-> pc, scan |-> m[1], retries |-> m[2]]]
    BY <1>5 DEF KReceive
  <2>2. kworker'[n].scan = m[1] /\ kworker' = [kworker EXCEPT ![n] = kworker'[n]]
    BY <1>2, <2>1
  <2>3. CASE m[1] = s
    BY <1>2, <2>2, <2>3 DEF MessageFor
  <2>4. CASE m[1] # s
    <3>1. \A l \in KMessages : l # m => kqueue'[l] = kqueue[l]
      BY <1>2, <1>5 DEF KReceive
    <3>2. InBroker(s) => InBroker(s)'
      BY <1>2, <2>4, <3>1 DEF InBroker
    <3>3. kworker[n].scan # s
      BY <1>5, KnowledgeAssumption DEF KReceive, Holders, ScanIds
    <3>4. QED
      BY <1>4, <2>2, <3>2, <3>3
  <2>5. QED
    BY <2>3, <2>4
<1>6. ASSUME NEW pc, KGoto(n, pc), kqueue' = kqueue
      PROVE  MessageFor(s)'
  <2>1. kworker'[n].scan = kworker[n].scan /\ kworker' = [kworker EXCEPT ![n] = kworker'[n]]
    BY <1>2, <1>6 DEF KGoto, KWorkerStates
  <2>2. QED
    BY <1>2, <1>4, <1>6, <2>1 DEF InBroker
<1>7. ASSUME KEndTask(n), kqueue' = kqueue, NEW status, status # "pending",
             WriteNewest(kworker[n].scan, status)
      PROVE  MessageFor(s)'
  <2>1. kworker' = [kworker EXCEPT ![n] = kworker'[n]]
    BY <1>2, <1>7 DEF KEndTask
  <2>2. kworker[n].scan # s
    BY <1>2, <1>7 DEF WriteNewest, Pends, PendedBefore
  <2>3. QED
    BY <1>2, <1>4, <1>7, <2>1, <2>2 DEF InBroker
<1>8. ASSUME KEndTask(n), kworker[n].pc # "idle", NEW retries \in 0..MaxRetries,
             SendScan(kworker[n].scan, retries)
      PROVE  MessageFor(s)'
  <2>1. PICK t \in ScanIds : t = kworker[n].scan
    BY <1>2, <1>8, KnowledgeAssumption DEF Holders, KWorkerStates, ScanIds
  <2>2. InBroker(t)' /\ (InBroker(s) => InBroker(s)')
    BY <1>8, <2>1, SendScanMessage
  <2>3. kworker' = [kworker EXCEPT ![n] = kworker'[n]]
    BY <1>2, <1>8 DEF KEndTask
  <2>4. QED
    BY <1>4, <2>1, <2>2, <2>3
<1>9. CASE Defer(n) \/ Start(n) \/ RunPipeline(n) \/ PipelineFails(n)
  BY <1>6, <1>9 DEF Defer, Start, RunPipeline, PipelineFails
<1>10. CASE Finish(n) \/ Fail(n)
  BY <1>6, <1>7, <1>10 DEF Finish, Fail
<1>11. CASE Resend(n)
  BY <1>2, <1>8, <1>11 DEF Resend
<1>12. CASE Retry(n)
  <2>1. kworker[n].retries + 1 \in 0..MaxRetries
    BY <1>2, <1>12 DEF Retry, Holders, KWorkerStates
  <2>2. QED
    BY <1>8, <1>12, <2>1 DEF Retry
<1>13. ~KWorkerCrash(n)
  BY DEF KWorkerCrash
<1>14. QED
  BY <1>1, <1>5, <1>9, <1>10, <1>11, <1>12, <1>13 DEF KTask

\* As long as no process dies, a newest job that says pending has a message on its
\* way, for every number of scan units, jobs, handlers, workers and retries.
THEOREM PendingJobsHaveMessages == Spec => []PendingHasMessage
<1> DEFINE Inv == KnowledgeRows /\ Planned /\ Holders /\ PendingHasMessage
<1>1. Init => Inv
  <2> SUFFICES ASSUME Init PROVE Inv
    OBVIOUS
  <2>1. KnowledgeRows /\ PendingHasMessage
    BY DEF Init, KnowledgeInit, KnowledgeRows, PendingHasMessage
  <2>2. \A w \in Workers : worker[w].pc = "idle" /\ worker[w].send = {}
    BY DEF Init, WorkerInit, IdleWorker
  <2>3. \A e \in Ensurers : ensurer[e].pc = "idle" /\ ensurer[e].send = 0
    BY DEF Init, KnowledgeInit, IdleEnsurer
  <2>4. \A n \in KWorkers : kworker[n].pc = "idle" /\ kworker[n].scan = 0
    BY DEF Init, KWorkerInit, IdleKWorker
  <2>5. QED
    BY <2>1, <2>2, <2>3, <2>4 DEF Planned, Holders, EnsurerHolds
<1>2. Typed /\ Typed' /\ Inv /\ [Next]_vars => Inv'
  <2> SUFFICES ASSUME Typed, Typed', Inv, [Next]_vars PROVE Inv'
    OBVIOUS
  <2>1. /\ KnowledgeRows' /\ RowsStay
        /\ crashes = 0 /\ crashes' = 0 =>
             \A k \in KJobIds : Pends(k)' => PendedBefore(k) \/ MessageFor(kScan[k])'
    <3>1. CASE Ocr
      <4>1. PICK w \in Workers : \/ \E j \in JobIds : Receive(w, j)
                                 \/ OcrTask(w) \/ OcrFails(w) \/ WorkerCrash(w)
        BY <3>1 DEF Ocr
      <4>2. QED
        BY <4>1, OcrPends DEF MessageFor
    <3>2. CASE Knowledge
      BY <3>2, KnowledgePends DEF Knowledge, MessageFor
    <3>3. CASE EnsuringKnowledge
      BY <3>3, EnsurerPends DEF MessageFor
    <3>4. CASE DeletingOcr
      BY <3>4, ReingestPends DEF DeletingOcr
    <3>5. CASE Ingestion \/ LosingEnsurer \/ UNCHANGED vars
      <4>1. UNCHANGED <<kScan, kStatus, lastKJob>>
        BY <3>5 DEF Ingestion, LosingEnsurer, EnsurerCrash, vars, knowledgeVars, tableVars
      <4>2. QED
        BY <4>1, RowsKept
    <3>6. QED
      BY <3>1, <3>2, <3>3, <3>4, <3>5 DEF Next
  <2>2. Planned'
    <3>1. lastKJob' \in Nat
      BY KnowledgeAssumption DEF Typed, PipelineTypeOK, KnowledgeTypeOK
    <3>2. QED
      BY <2>1, <3>1, PlannedStep
  <2>3. Holders'
    BY HoldersStep
  <2>4. ASSUME crashes' = 0, NEW k \in KJobIds, Pends(k)'
        PROVE  MessageFor(kScan[k])'
    <3>1. crashes = 0
      BY <2>4, CrashesGrow DEF Typed, PipelineTypeOK, IngestTypeOK
    <3>2. CASE PendedBefore(k)
      <4>1. PICK s \in ScanIds : kScan[k] = s /\ kScan'[k] = s
        BY <3>2, KnowledgeAssumption
        DEF PendedBefore, Pends, KnowledgeRows, Typed, PipelineTypeOK, KnowledgeTypeOK, ScanIds
      <4>2. MessageFor(s)
        BY <3>1, <3>2, <4>1 DEF PendedBefore, Pends, PendingHasMessage
      <4>3. Knowledge => MessageFor(s)'
        BY <2>4, <3>1, <3>2, <4>1, <4>2, MessageKnowledge
      <4>4. ASSUME Ingestion \/ DeletingOcr \/ UNCHANGED vars
            PROVE  MessageFor(s)'
        <5>1. UNCHANGED <<kqueue, worker, ensurer, kworker>>
          BY <4>4
          DEF Ingestion, DeletingOcr, Reingest, vars, knowledgeVars, workerVars, kworkerVars
        <5>2. QED
          BY <4>2, <5>1 DEF MessageFor
      <4>5. ~LosingEnsurer
        BY <2>4, <3>1 DEF LosingEnsurer, EnsurerCrash
      <4>6. MessageFor(s)'
        BY <2>4, <3>1, <4>2, <4>3, <4>4, <4>5, MessageOcr, MessageEnsurer DEF Next
      <4>7. QED
        BY <4>1, <4>6 DEF MessageFor
    <3>3. QED
      BY <2>1, <2>4, <3>1, <3>2
  <2>5. PendingHasMessage'
    BY <2>4 DEF PendingHasMessage, Pends
  <2>6. QED
    BY <2>1, <2>2, <2>3, <2>5
<1>3. QED
  BY TypedInvariant, <1>1, <1>2, PTL DEF Spec
=============================================================================
