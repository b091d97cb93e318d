----------------------------- MODULE ResultProofs -----------------------------
(***************************************************************************)
(* What is left of a submission: a job that succeeded has a result, and    *)
(* the version last submitted has a result or somebody who will read it.   *)
(***************************************************************************)
EXTENDS PipelineProofs

\* What both arguments need besides the types: a result that was not stored has no
\* document, nobody submits a version that was not uploaded, and a handler sends
\* a job of the document it serves.
Fresh == \A r \in ResultIds : r > lastResult => result[r].doc = NoDoc
Uploaded == \A d \in Docs : submitted[d] <= version[d]
OwnJob == \A c \in Clients : api[c].pc = "dispatch" => jobDoc[api[c].job] = api[c].doc
Grounded == Fresh /\ Uploaded /\ OwnJob

\* Steps that leave the variables of Grounded alone.
LEMMA GroundedKept ==
  Grounded /\ UNCHANGED <<result, lastResult, submitted, version, api, jobDoc>> => Grounded'
  BY DEF Grounded, Fresh, Uploaded, OwnJob

\* A submission is for the version that is the latest now.
LEMMA GroundedSubmission ==
  ASSUME Typed, Grounded, NEW c \in Clients, NEW d \in Docs, BeginSubmission(c, d),
         submitted' = [submitted EXCEPT ![d] = version[d]],
         UNCHANGED <<lastResult, version, jobDoc>>,
         \A r \in ResultIds : result'[r] = result[r] \/ result'[r] = NoResult
  PROVE  Grounded'
<1> USE DEF Grounded
<1>1. /\ api \in [Clients -> ClientStates] /\ submitted \in [Docs -> 0..MaxVersion]
      /\ version \in [Docs -> 0..MaxVersion]
  BY DEF Typed, PipelineTypeOK, IngestTypeOK
<1>2. Fresh'
  BY DEF Fresh, NoResult
<1>3. Uploaded'
  BY <1>1, IngestionAssumption DEF Uploaded
<1>4. OwnJob'
  BY <1>1 DEF OwnJob, BeginSubmission
<1>5. QED
  BY <1>2, <1>3, <1>4

\* Steps of the API over the ingestion tables.
LEMMA GroundedIngestion ==
  ASSUME Typed, Grounded, Ingestion
  PROVE  Grounded'
<1>1. IngestTypeOK /\ Held
  BY DEF Typed, PipelineTypeOK
<1>2. ASSUME NEW c \in Clients, NEW d \in Docs, Upload(c, d)
      PROVE  Grounded'
  <2>1. Fresh'
    BY <1>2 DEF Upload, Grounded, Fresh
  <2>2. Uploaded'
    BY <1>1, <1>2, IngestionAssumption DEF Upload, Grounded, Uploaded, IngestTypeOK
  <2>3. OwnJob'
    BY <1>1, <1>2 DEF Upload, Grounded, OwnJob, IngestTypeOK, BeginSubmission, jobVars
  <2>4. QED
    BY <2>1, <2>2, <2>3 DEF Grounded
<1>3. ASSUME NEW c \in Clients, NEW d \in Docs, Submit(c, d)
      PROVE  Grounded'
  BY <1>3, GroundedSubmission DEF Submit, jobVars
<1>4. ASSUME NEW c \in Clients, NEW j \in JobIds, ReplayIngestion(c, j)
      PROVE  Grounded'
  <2>1. jobDoc[j] \in Docs
    BY <1>1, <1>4, PresentJob DEF ReplayIngestion
  <2>2. QED
    BY <1>4, <2>1, GroundedSubmission DEF ReplayIngestion, jobVars
<1>5. ASSUME NEW c \in Clients, NEW s, api' = [api EXCEPT ![c] = s],
             s.pc = "dispatch" => jobDoc'[s.job] = s.doc,
             \A j \in 1..lastJob : jobDoc'[j] = jobDoc[j],
             UNCHANGED <<result, lastResult, submitted, version>>
      PROVE  Grounded'
  <2>1. Fresh' /\ Uploaded'
    BY <1>5 DEF Grounded, Fresh, Uploaded
  <2>2. OwnJob'
    BY <1>1, <1>5 DEF Grounded, OwnJob, Held, IngestTypeOK
  <2>3. QED
    BY <2>1, <2>2 DEF Grounded
<1>6. ASSUME NEW c \in Clients, ReconcileOwn(c)
      PROVE  Grounded'
  <2> DEFINE s == [api[c] EXCEPT !.pc = "find"]
  <2>1. s.pc # "dispatch" /\ api' = [api EXCEPT ![c] = s]
    BY <1>1, <1>6 DEF ReconcileOwn, IngestTypeOK, ClientStates
  <2> HIDE DEF s
  <2>2. QED
    BY <1>5, <1>6, <2>1 DEF ReconcileOwn
<1>7. ASSUME NEW c \in Clients, FindActiveJob(c)
      PROVE  Grounded'
  <2>1. UNCHANGED <<result, lastResult, submitted, version, jobDoc>>
    BY <1>7 DEF FindActiveJob, jobVars
  <2>2. ASSUME NEW j \in ActiveJobsOf(api[c].doc),
               api' = [api EXCEPT ![c].pc = "dispatch", ![c].job = j]
        PROVE  Grounded'
    <3> DEFINE s == [api[c] EXCEPT !.pc = "dispatch", !.job = j]
    <3>1. jobDoc'[s.job] = s.doc /\ api' = [api EXCEPT ![c] = s]
      BY <1>1, <2>1, <2>2 DEF ActiveJobsOf, IngestTypeOK, ClientStates
    <3> HIDE DEF s
    <3>2. QED
      BY <1>5, <2>1, <3>1
  <2>3. ASSUME api' = [api EXCEPT ![c].pc = "insert"]
        PROVE  Grounded'
    <3> DEFINE s == [api[c] EXCEPT !.pc = "insert"]
    <3>1. s.pc # "dispatch" /\ api' = [api EXCEPT ![c] = s]
      BY <1>1, <2>3 DEF IngestTypeOK, ClientStates
    <3> HIDE DEF s
    <3>2. QED
      BY <1>5, <2>1, <3>1
  <2>4. QED
    BY <1>7, <2>2, <2>3 DEF FindActiveJob
<1>8. ASSUME NEW c \in Clients, InsertJob(c)
      PROVE  Grounded'
  <2> DEFINE j == lastJob + 1
             s == [api[c] EXCEPT !.pc = "dispatch", !.job = j]
  <2>1. j \in JobIds /\ \A i \in 1..lastJob : i \in JobIds /\ i # j
    BY <1>1, <1>8, IngestionAssumption DEF InsertJob, IngestTypeOK, JobIds
  <2>2. s.job = j /\ s.doc = api[c].doc
    BY <1>1 DEF IngestTypeOK, ClientStates
  <2>3. jobDoc' = [jobDoc EXCEPT ![j] = api[c].doc] /\ api' = [api EXCEPT ![c] = s]
    BY <1>8 DEF InsertJob
  <2> HIDE DEF s, j
  <2>4. jobDoc'[s.job] = s.doc /\ \A i \in 1..lastJob : jobDoc'[i] = jobDoc[i]
    BY <1>1, <2>1, <2>2, <2>3 DEF IngestTypeOK
  <2>5. QED
    BY <1>5, <1>8, <2>3, <2>4 DEF InsertJob
<1>9. ASSUME NEW c \in Clients, DispatchJob(c) \/ ClientCrash(c)
      PROVE  Grounded'
  BY <1>5, <1>9 DEF DispatchJob, ClientCrash, IdleClient, jobVars
<1>10. ASSUME ReconcileAll \/ \E j \in JobIds : TimeoutElapses(j)
       PROVE  Grounded'
  BY <1>10, GroundedKept DEF ReconcileAll, TimeoutElapses
<1>11. QED
  BY <1>2, <1>3, <1>4, <1>6, <1>7, <1>8, <1>9, <1>10 DEF Ingestion

\* Steps of a task: only StoreResult writes a variable of Grounded.
LEMMA GroundedOcr ==
  ASSUME Typed, Grounded, Ocr
  PROVE  Grounded'
<1> PICK w \in Workers : \/ \E j \in JobIds : Receive(w, j)
                         \/ OcrTask(w) \/ OcrFails(w) \/ WorkerCrash(w)
  BY DEF Ocr
<1>1. CASE StoreResult(w)
  <2>1. Fresh'
    <3>1. PICK row : result' = [result EXCEPT ![lastResult + 1] = row]
      BY <1>1 DEF StoreResult
    <3>2. lastResult' = lastResult + 1 /\ lastResult \in 0..MaxResults
      BY <1>1 DEF StoreResult, Typed, PipelineTypeOK, IngestTypeOK
    <3>3. ASSUME NEW r \in ResultIds, r > lastResult'
          PROVE  result'[r] = result[r] /\ r > lastResult
      BY <3>1, <3>2, <3>3, IngestionAssumption
      DEF ResultIds, Typed, PipelineTypeOK, IngestTypeOK
    <3>4. QED
      BY <3>3 DEF Grounded, Fresh
  <2>2. Uploaded' /\ OwnJob'
    BY <1>1 DEF StoreResult, Grounded, Uploaded, OwnJob, jobVars
  <2>3. QED
    BY <2>1, <2>2 DEF Grounded
<1>2. CASE \/ \E j \in JobIds : Receive(w, j)
           \/ MarkSucceeded(w) \/ Except(w) \/ WorkerCrash(w)
  BY <1>2, GroundedKept DEF Receive, MarkSucceeded, Except, WorkerCrash, jobVars
<1>3. CASE UNCHANGED ingestVars
  BY <1>3, GroundedKept DEF ingestVars, jobVars
<1>4. QED
  BY <1>1, <1>2, <1>3
  DEF OcrTask, OcrFails, ReadVersion, RunOcr, EnsureScanUnit, CommitScanUnit, DrainGate, Collect,
      Release, SendReleased

\* The knowledge side writes none of the ingestion tables.
LEMMA KnowledgeIsElsewhere ==
  ASSUME EnsuringKnowledge \/ LosingEnsurer \/ Knowledge \/ UNCHANGED vars
  PROVE  /\ UNCHANGED <<version, submitted, jobDoc, jobStatus, overdue, lastJob, queue, result,
                        lastResult, api, worker, failures>>
         /\ crashes' = crashes \/ crashes' = crashes + 1
<1>1. CASE EnsuringKnowledge \/ UNCHANGED vars
  BY <1>1 DEF EnsuringKnowledge, vars, ingestVars, jobVars, boundVars, workerVars
<1>2. CASE Knowledge
  BY <1>2
  DEF Knowledge, KTask, KReceive, Defer, Resend, Start, RunPipeline, PipelineFails, Finish, Fail,
      Retry, KUnchanged, KWorkerCrash, ingestVars, jobVars, boundVars, workerVars
<1>3. CASE LosingEnsurer
  BY <1>3 DEF LosingEnsurer, EnsurerCrash, jobVars, workerVars
<1>4. QED
  BY <1>1, <1>2, <1>3

\* Grounded is an invariant.
THEOREM GroundedInvariant == Spec => []Grounded
<1>1. Init => Grounded
  BY DEF Init, IngestInit, Grounded, Fresh, Uploaded, OwnJob, NoResult, IdleClient
<1>2. ASSUME Typed, Grounded, DeletingOcr
      PROVE  Grounded'
  BY <1>2, GroundedSubmission DEF DeletingOcr, Reingest
<1>3. Typed /\ Grounded /\ [Next]_vars => Grounded'
  BY <1>2, GroundedIngestion, GroundedOcr, GroundedKept, KnowledgeIsElsewhere DEF Next
<1>4. QED
  BY TypedInvariant, <1>1, <1>3, PTL DEF Spec
-----------------------------------------------------------------------------
(* A job that succeeded has a result. *)

HasResult(j) == \E r \in ResultIds : result[r].doc = jobDoc[j]

\* SucceededJobHasResult is not inductive: a task about to mark its job must have
\* the result too, unless the job was deleted meanwhile.
MarkedHasResult ==
  \A w \in Workers, j \in JobIds :
    worker[w].pc = "mark" /\ worker[w].job = j /\ jobStatus[j] # "absent" => HasResult(j)
Backed == SucceededJobHasResult /\ MarkedHasResult

\* Steps that keep the results, bring no task to "mark" and no job to "succeeded".
LEMMA BackedKept ==
  ASSUME Typed, Backed, UNCHANGED <<jobDoc, result>>,
         \A j \in JobIds : /\ jobStatus'[j] = "succeeded" => jobStatus[j] = "succeeded"
                           /\ jobStatus[j] = "absent" => jobStatus'[j] = "absent",
         \A w \in Workers : worker'[w].pc = "mark" => worker'[w] = worker[w]
  PROVE  Backed'
<1>1. SucceededJobHasResult'
  BY DEF Backed, SucceededJobHasResult
<1>2. ASSUME NEW w \in Workers, NEW j \in JobIds, worker'[w].pc = "mark", worker'[w].job = j,
             jobStatus'[j] # "absent"
      PROVE  HasResult(j)'
  <2>1. HasResult(j)
    BY <1>2 DEF Backed, MarkedHasResult
  <2>2. QED
    BY <2>1 DEF HasResult
<1>3. QED
  BY <1>1, <1>2 DEF Backed, MarkedHasResult

\* Handlers: a new job has another id than any a task holds; reingest deletes the
\* jobs of the results it deletes.
LEMMA BackedApi ==
  ASSUME Typed, Backed, Ingestion \/ DeletingOcr
  PROVE  Backed'
<1>1. IngestTypeOK /\ Held
  BY DEF Typed, PipelineTypeOK
<1>2. worker' = worker
  BY DEF Ingestion, DeletingOcr, workerVars
<1>3. ASSUME NEW c \in Clients, InsertJob(c)
      PROVE  Backed'
  <2> DEFINE j == lastJob + 1
  <2>1. j \in JobIds /\ \A i \in 1..lastJob : i \in JobIds /\ i # j
    BY <1>1, <1>3, IngestionAssumption DEF InsertJob, IngestTypeOK, JobIds
  <2>2. /\ jobDoc' = [jobDoc EXCEPT ![j] = api[c].doc]
        /\ jobStatus' = [jobStatus EXCEPT ![j] = "queued"] /\ result' = result
    BY <1>3 DEF InsertJob
  <2> HIDE DEF j
  <2>3. \A i \in JobIds : i # j => (HasResult(i) => HasResult(i)') /\ jobStatus'[i] = jobStatus[i]
    BY <1>1, <2>1, <2>2 DEF HasResult, IngestTypeOK
  <2>4. SucceededJobHasResult'
    BY <1>1, <2>1, <2>2, <2>3 DEF SucceededJobHasResult, Backed, HasResult, IngestTypeOK
  <2>5. \A w \in Workers : worker[w].pc = "mark" => worker[w].job # j
    BY <1>1, <2>1 DEF Held
  <2>6. MarkedHasResult'
    BY <1>2, <2>3, <2>5 DEF MarkedHasResult, Backed
  <2>7. QED
    BY <2>4, <2>6 DEF Backed
<1>4. ASSUME NEW c \in Clients, NEW d \in Docs, Reingest(c, d)
      PROVE  Backed'
  <2>1. ASSUME NEW j \in JobIds, jobStatus'[j] # "absent", HasResult(j)
        PROVE  HasResult(j)' /\ jobStatus'[j] = jobStatus[j]
    <3>1. jobDoc[j] # d /\ jobStatus'[j] = jobStatus[j] /\ jobDoc' = jobDoc
      BY <1>4, <2>1 DEF Reingest, DeletedJobs
    <3>2. PICK r \in ResultIds : result[r].doc = jobDoc[j]
      BY <2>1 DEF HasResult
    <3>3. result'[r] = result[r]
      BY <1>4, <3>1, <3>2 DEF Reingest
    <3>4. QED
      BY <3>1, <3>2, <3>3 DEF HasResult
  <2>2. SucceededJobHasResult'
    <3>1. \A j \in JobIds : jobStatus'[j] # "absent" => jobStatus'[j] = jobStatus[j]
      BY <1>4 DEF Reingest
    <3>2. QED
      BY <2>1, <3>1 DEF SucceededJobHasResult, Backed, HasResult
  <2>3. MarkedHasResult'
    <3>1. ASSUME NEW w \in Workers, NEW j \in JobIds, worker[w].pc = "mark", worker[w].job = j,
                 jobStatus'[j] # "absent"
          PROVE  HasResult(j)'
      <4>1. jobStatus[j] # "absent"
        BY <1>4, <3>1 DEF Reingest
      <4>2. QED
        BY <2>1, <3>1, <4>1 DEF Backed, MarkedHasResult
    <3>2. QED
      BY <1>2, <3>1 DEF MarkedHasResult
  <2>4. QED
    BY <2>2, <2>3 DEF Backed
<1>5. ASSUME ReconcileAll \/ \E c \in Clients : ReconcileOwn(c)
      PROVE  Backed'
  BY <1>2, <1>5, BackedKept DEF ReconcileAll, ReconcileOwn, Reconciled, Active, ActiveStatuses
<1>6. ASSUME UNCHANGED <<jobDoc, jobStatus, result>>
      PROVE  Backed'
  BY <1>2, <1>6, BackedKept
<1>7. QED
  BY <1>3, <1>4, <1>5, <1>6
  DEF Ingestion, DeletingOcr, Upload, Submit, ReplayIngestion, FindActiveJob, DispatchJob,
      ClientCrash, TimeoutElapses, jobVars

\* Tasks: they reach "mark" with a result in the table.
LEMMA BackedOcr ==
  ASSUME Typed, Grounded, Backed, Ocr
  PROVE  Backed'
<1> PICK w \in Workers : \/ \E j \in JobIds : Receive(w, j)
                         \/ OcrTask(w) \/ OcrFails(w) \/ WorkerCrash(w)
  BY DEF Ocr
<1>1. /\ IngestTypeOK /\ Held /\ worker \in [Workers -> WorkerStates]
      /\ worker[w] \in WorkerStates
  BY DEF Typed, PipelineTypeOK, WorkerTypeOK
<1>2. worker[w].pc # "idle" => worker[w].job \in JobIds /\ jobDoc[worker[w].job] \in Docs
  <2>1. worker[w].pc # "idle" => worker[w].job \in 1..lastJob
    BY <1>1 DEF Held
  <2>2. \A i \in 1..lastJob : i \in JobIds /\ i <= lastJob
    BY <1>1, IngestionAssumption DEF IngestTypeOK, JobIds
  <2>3. QED
    BY <1>1, <2>1, <2>2 DEF Held
<1>3. ASSUME NEW s, worker' = [worker EXCEPT ![w] = s], s.pc # "mark",
             UNCHANGED <<jobDoc, result>>,
             \A j \in JobIds : /\ jobStatus'[j] = "succeeded" => jobStatus[j] = "succeeded"
                               /\ jobStatus[j] = "absent" => jobStatus'[j] = "absent"
      PROVE  Backed'
  BY <1>1, <1>3, BackedKept
<1>4. ASSUME NEW pc, Goto(w, pc)
      PROVE  \E s : worker' = [worker EXCEPT ![w] = s] /\ s.pc = pc /\ s.job = worker[w].job
  <2> DEFINE s == [worker[w] EXCEPT !.pc = pc]
  <2>1. worker' = [worker EXCEPT ![w] = s]
    BY <1>4 DEF Goto
  <2>2. s.pc = pc /\ s.job = worker[w].job
    BY <1>1 DEF WorkerStates
  <2>3. QED
    BY <2>1, <2>2
<1>5. ASSUME NEW pc, pc # "mark", Goto(w, pc) \/ EndTask(w), UNCHANGED <<jobDoc, result>>,
             \A j \in JobIds : /\ jobStatus'[j] = "succeeded" => jobStatus[j] = "succeeded"
                               /\ jobStatus[j] = "absent" => jobStatus'[j] = "absent"
      PROVE  Backed'
  <2>1. IdleWorker.pc # "mark"
    BY DEF IdleWorker
  <2>2. CASE Goto(w, pc)
    BY <1>3, <1>4, <1>5, <2>2
  <2>3. CASE EndTask(w)
    BY <1>3, <1>5, <2>1, <2>3 DEF EndTask
  <2>4. QED
    BY <1>5, <2>2, <2>3
<1>6. ASSUME NEW j \in JobIds, Receive(w, j)
      PROVE  Backed'
  <2>1. UNCHANGED <<jobDoc, result>>
    BY <1>6 DEF Receive
  <2>2. CASE jobStatus' = jobStatus /\ worker' = worker
    BY <2>1, <2>2, BackedKept
  <2>3. CASE /\ jobStatus[j] # "absent" /\ jobStatus' = [jobStatus EXCEPT ![j] = "running"]
             /\ worker' = [worker EXCEPT ![w] = [IdleWorker EXCEPT !.pc = "read", !.job = j]]
    <3> DEFINE s == [IdleWorker EXCEPT !.pc = "read", !.job = j]
    <3>1. s.pc # "mark"
      BY DEF IdleWorker
    <3>2. \A i \in JobIds : /\ jobStatus'[i] = "succeeded" => jobStatus[i] = "succeeded"
                            /\ jobStatus[i] = "absent" => jobStatus'[i] = "absent"
      BY <1>1, <2>3 DEF IngestTypeOK
    <3> HIDE DEF s
    <3>3. QED
      BY <1>3, <2>1, <2>3, <3>1, <3>2 DEF s
  <2>4. QED
    BY <1>6, <2>2, <2>3 DEF Receive
<1>7. ASSUME NEW s, worker' = [worker EXCEPT ![w] = s], s.pc # "mark", UNCHANGED ingestVars
      PROVE  Backed'
  BY <1>3, <1>7 DEF ingestVars, jobVars
<1>8. ASSUME NEW pc, pc # "mark", Goto(w, pc) \/ EndTask(w), UNCHANGED ingestVars
      PROVE  Backed'
  BY <1>5, <1>8 DEF ingestVars, jobVars
<1>9. ASSUME NEW s, worker' = [worker EXCEPT ![w] = s], NEW k \in JobIds, s.job = k,
             UNCHANGED <<jobDoc, jobStatus>>,
             \A r \in ResultIds : result'[r] = result[r] \/ result[r].doc = NoDoc,
             HasResult(k)'
      PROVE  Backed'
  <2>1. \A j \in JobIds : jobDoc[j] \in Docs /\ HasResult(j) => HasResult(j)'
    BY <1>9, IngestionAssumption DEF HasResult
  <2>2. \A j \in JobIds : jobStatus[j] # "absent" => jobDoc[j] \in Docs
    BY <1>1, PresentJob
  <2>3. SucceededJobHasResult'
    BY <1>9, <2>1, <2>2 DEF Backed, SucceededJobHasResult, HasResult
  <2>4. ASSUME NEW v \in Workers, NEW j \in JobIds, worker'[v].pc = "mark", worker'[v].job = j,
               jobStatus'[j] # "absent"
        PROVE  HasResult(j)'
    <3>1. CASE v = w
      <4>1. j = k
        BY <1>1, <1>9, <2>4, <3>1
      <4>2. QED
        BY <1>9, <4>1
    <3>2. CASE v # w
      <4>1. worker'[v] = worker[v]
        BY <1>1, <1>9, <3>2
      <4>2. HasResult(j)
        BY <1>9, <2>4, <4>1 DEF Backed, MarkedHasResult
      <4>3. QED
        BY <1>9, <2>1, <2>2, <2>4, <4>2
    <3>3. QED
      BY <3>1, <3>2
  <2>5. QED
    BY <2>3, <2>4 DEF Backed, MarkedHasResult
<1>10. ASSUME ReadVersion(w)
       PROVE  Backed'
  <2> DEFINE v == version[jobDoc[worker[w].job]]
             s == [worker[w] EXCEPT !.pc = "ocr", !.ver = v]
  <2>1. CASE worker' = [worker EXCEPT ![w] = s]
    <3>1. s.pc # "mark"
      BY <1>1 DEF WorkerStates
    <3> HIDE DEF s
    <3>2. QED
      BY <1>7, <1>10, <2>1, <3>1 DEF ReadVersion
  <2>2. CASE Goto(w, "failing")
    BY <1>8, <1>10, <2>2 DEF ReadVersion
  <2>3. QED
    BY <1>10, <2>1, <2>2 DEF ReadVersion
<1>11. ASSUME RunOcr(w)
       PROVE  Backed'
  <2>1. PICK r \in 0..MaxResults :
          /\ IsResultFor(r, jobDoc[worker[w].job], worker[w].ver)
          /\ worker' = [worker EXCEPT ![w].pc = IF r = 0 THEN "store" ELSE "mark", ![w].res = r]
    BY <1>11 DEF RunOcr
  <2> DEFINE s == [worker[w] EXCEPT !.pc = IF r = 0 THEN "store" ELSE "mark", !.res = r]
  <2>2. worker' = [worker EXCEPT ![w] = s]
    BY <2>1
  <2>3. s.job = worker[w].job /\ s.pc = IF r = 0 THEN "store" ELSE "mark"
    BY <1>1 DEF WorkerStates
  <2> HIDE DEF s
  <2>4. UNCHANGED ingestVars /\ worker[w].pc # "idle"
    BY <1>11 DEF RunOcr
  <2>5. CASE r = 0
    BY <1>7, <2>2, <2>3, <2>4, <2>5
  <2>6. CASE r # 0
    <3>1. r \in ResultIds /\ result[r].doc = jobDoc[worker[w].job]
      BY <2>1, <2>6 DEF IsResultFor
    <3>2. PICK k \in JobIds : k = worker[w].job
      BY <1>2, <2>4
    <3>3. HasResult(k)'
      BY <2>4, <3>1, <3>2 DEF HasResult, ingestVars, jobVars
    <3>4. QED
      BY <1>9, <2>2, <2>3, <2>4, <3>2, <3>3 DEF ingestVars, jobVars
  <2>7. QED
    BY <2>5, <2>6
<1>12. ASSUME StoreResult(w)
       PROVE  Backed'
  <2>0. PICK j \in JobIds : j = worker[w].job
    BY <1>2, <1>12 DEF StoreResult
  <2> DEFINE r == lastResult + 1
             row == [doc |-> jobDoc[j], ver |-> worker[w].ver, job |-> j]
             s == [worker[w] EXCEPT !.pc = "mark", !.res = r]
  <2>1. r \in ResultIds /\ r > lastResult
    <3>1. lastResult < MaxResults
      BY <1>12 DEF StoreResult
    <3>2. lastResult \in 0..MaxResults /\ MaxResults \in Nat
      BY <1>1, IngestionAssumption DEF IngestTypeOK
    <3> QED BY <3>1, <3>2 DEF ResultIds
  <2>2. s.job = j
    BY <1>1, <2>0 DEF WorkerStates
  <2>3. row.doc = jobDoc[j]
    OBVIOUS
  <2>4. /\ worker' = [worker EXCEPT ![w] = s] /\ result' = [result EXCEPT ![r] = row]
        /\ UNCHANGED <<jobDoc, jobStatus>>
    BY <1>12, <2>0 DEF StoreResult, jobVars
  <2>5. result[r].doc = NoDoc
    BY <2>1 DEF Grounded, Fresh
  <2> HIDE DEF r, row, s
  <2>6. HasResult(j)'
    BY <1>1, <2>1, <2>3, <2>4 DEF HasResult, IngestTypeOK
  <2>7. \A q \in ResultIds : result'[q] = result[q] \/ result[q].doc = NoDoc
    BY <1>1, <2>4, <2>5 DEF IngestTypeOK
  <2>8. QED
    BY <1>9, <2>2, <2>4, <2>6, <2>7
<1>13. ASSUME MarkSucceeded(w)
       PROVE  Backed'
  <2>0. PICK j \in JobIds : j = worker[w].job
    BY <1>2, <1>13 DEF MarkSucceeded
  <2>1. UNCHANGED <<jobDoc, result>> /\ worker[w].pc = "mark"
    BY <1>13 DEF MarkSucceeded
  <2>2. CASE Goto(w, "failing") /\ jobStatus' = jobStatus
    BY <1>5, <2>1, <2>2
  <2>3. CASE /\ jobStatus[j] # "absent" /\ Goto(w, "ensure")
             /\ jobStatus' = [jobStatus EXCEPT ![j] = "succeeded"]
    <3>1. HasResult(j)
      BY <2>0, <2>1, <2>3 DEF Backed, MarkedHasResult
    <3>2. SucceededJobHasResult'
      BY <1>1, <2>1, <2>3, <3>1 DEF Backed, SucceededJobHasResult, HasResult, IngestTypeOK
    <3>3. ASSUME NEW v \in Workers, NEW i \in JobIds, worker'[v].pc = "mark",
                 worker'[v].job = i, jobStatus'[i] # "absent"
          PROVE  HasResult(i)'
      <4>1. v # w
        BY <1>1, <1>4, <2>3, <3>3
      <4>2. worker'[v] = worker[v]
        BY <1>1, <2>3, <4>1 DEF Goto
      <4>3. jobStatus[i] # "absent"
        BY <1>1, <2>3, <3>3 DEF IngestTypeOK
      <4>4. HasResult(i)
        BY <3>3, <4>2, <4>3 DEF Backed, MarkedHasResult
      <4>5. QED
        BY <2>1, <4>4 DEF HasResult
    <3>4. QED
      BY <3>2, <3>3 DEF Backed, MarkedHasResult
  <2>4. QED
    BY <1>13, <2>0, <2>2, <2>3 DEF MarkSucceeded
<1>14. ASSUME EnsureScanUnit(w)
       PROVE  Backed'
  <2>1. CASE Goto(w, "failing")
    BY <1>8, <1>14, <2>1 DEF EnsureScanUnit
  <2>2. ASSUME NEW p \in Plans, worker' = [worker EXCEPT ![w].pc = "commit", ![w].plan = p]
        PROVE  Backed'
    <3> DEFINE s == [worker[w] EXCEPT !.pc = "commit", !.plan = p]
    <3>1. worker' = [worker EXCEPT ![w] = s]
      BY <2>2
    <3>2. s.pc # "mark"
      BY <1>1 DEF WorkerStates
    <3> HIDE DEF s
    <3>3. QED
      BY <1>7, <1>14, <3>1, <3>2 DEF EnsureScanUnit
  <2>3. QED
    BY <1>14, <2>1, <2>2 DEF EnsureScanUnit
<1>15. ASSUME CommitScanUnit(w)
       PROVE  Backed'
  <2> DEFINE s == [IdleWorker EXCEPT !.pc = "drain", !.job = worker[w].job]
  <2>1. s.pc # "mark"
    BY DEF IdleWorker
  <2>2. worker' = [worker EXCEPT ![w] = s] \/ Goto(w, "failing")
    BY <1>15 DEF CommitScanUnit
  <2> HIDE DEF s
  <2>3. QED
    BY <1>7, <1>8, <1>15, <2>1, <2>2 DEF CommitScanUnit
<1>16. ASSUME DrainGate(w) \/ OcrFails(w)
       PROVE  Backed'
  BY <1>8, <1>16 DEF DrainGate, OcrFails
<1>17. ASSUME Collect(w)
       PROVE  Backed'
  <2> DEFINE s == [worker[w] EXCEPT !.pc = "release", !.jobs = Dispatchable]
  <2>1. s.pc = "release"
    BY <1>1 DEF WorkerStates
  <2>2. EndTask(w) \/ worker' = [worker EXCEPT ![w] = s]
    BY <1>17 DEF Collect
  <2>3. EndTask(w) \/ \E t : worker' = [worker EXCEPT ![w] = t] /\ t.pc = "release"
    BY <2>1, <2>2
  <2>4. QED
    BY <1>7, <1>8, <1>17, <2>3 DEF Collect
<1>18. ASSUME Release(w)
       PROVE  Backed'
  <2>1. CASE Raise(w)
    BY <1>8, <1>18, <2>1 DEF Release, Raise
  <2>2. ASSUME NEW ss, worker' = [worker EXCEPT ![w].pc = "send", ![w].jobs = {}, ![w].send = ss]
        PROVE  Backed'
    <3> DEFINE s == [worker[w] EXCEPT !.pc = "send", !.jobs = {}, !.send = ss]
    <3>1. worker' = [worker EXCEPT ![w] = s]
      BY <2>2
    <3>2. s.pc # "mark"
      BY <1>1 DEF WorkerStates
    <3> HIDE DEF s
    <3>3. QED
      BY <1>7, <1>18, <3>1, <3>2 DEF Release
  <2>3. QED
    BY <1>18, <2>1, <2>2 DEF Release
<1>19. ASSUME NEW i \in ScanIds, SendReleased(w, i)
       PROVE  Backed'
  <2>1. CASE EndTask(w)
    BY <1>8, <1>19, <2>1 DEF SendReleased
  <2>2. CASE worker' = [worker EXCEPT ![w].send = @ \ {i}]
    <3> DEFINE s == [worker[w] EXCEPT !.send = @ \ {i}]
    <3>1. worker' = [worker EXCEPT ![w] = s]
      BY <2>2
    <3>2. s.pc # "mark"
      BY <1>1, <1>19 DEF SendReleased, WorkerStates
    <3> HIDE DEF s
    <3>3. QED
      BY <1>7, <1>19, <3>1, <3>2 DEF SendReleased
  <2>3. QED
    BY <1>19, <2>1, <2>2 DEF SendReleased
<1>20. ASSUME Except(w)
       PROVE  Backed'
  <2> DEFINE s == [IdleWorker EXCEPT !.pc = "drain", !.job = worker[w].job, !.ok = FALSE]
  <2>1. s.pc # "mark"
    BY DEF IdleWorker
  <2>2. worker' = [worker EXCEPT ![w] = s] \/ EndTask(w)
    BY <1>20 DEF Except
  <2> HIDE DEF s
  <2>3. \A j \in JobIds : /\ jobStatus'[j] = "succeeded" => jobStatus[j] = "succeeded"
                          /\ jobStatus[j] = "absent" => jobStatus'[j] = "absent"
    BY <1>1, <1>20 DEF Except, IngestTypeOK
  <2>4. UNCHANGED <<jobDoc, result>>
    BY <1>20 DEF Except
  <2>5. CASE worker' = [worker EXCEPT ![w] = s]
    BY <1>3, <2>1, <2>3, <2>4, <2>5
  <2>6. CASE EndTask(w)
    <3>1. IdleWorker.pc # "mark"
      BY DEF IdleWorker
    <3>2. QED
      BY <1>3, <2>3, <2>4, <2>6, <3>1 DEF EndTask
  <2>7. QED
    BY <2>2, <2>5, <2>6
<1>21. ASSUME WorkerCrash(w)
       PROVE  Backed'
  BY <1>5, <1>21 DEF WorkerCrash, Raise, jobVars
<1>22. QED
  BY <1>6, <1>10, <1>11, <1>12, <1>13, <1>14, <1>15, <1>16, <1>17, <1>18, <1>19, <1>20, <1>21
  DEF OcrTask

\* A job shown as succeeded has an OCR result of its document, whatever is deleted,
\* retried or failed meanwhile.
THEOREM SucceededJobsHaveResults == Spec => []SucceededJobHasResult
<1>1. Init => Backed
  BY DEF Init, IngestInit, WorkerInit, IdleWorker, Backed, SucceededJobHasResult, MarkedHasResult
<1>2. ASSUME Typed, Backed, EnsuringKnowledge \/ LosingEnsurer \/ Knowledge \/ UNCHANGED vars
      PROVE  Backed'
  BY <1>2, BackedKept, KnowledgeIsElsewhere
<1>3. Typed /\ Grounded /\ Backed /\ [Next]_vars => Backed'
  BY <1>2, BackedApi, BackedOcr DEF Next
<1>4. Backed => SucceededJobHasResult
  BY DEF Backed
<1>5. QED
  BY TypedInvariant, GroundedInvariant, <1>1, <1>3, <1>4, PTL DEF Spec

-----------------------------------------------------------------------------
(***************************************************************************)
(* The version last submitted of every document has a result or something  *)
(* under way that will read it, unless a run raised or a process died.     *)
(***************************************************************************)

\* A step of a handler, or of time, that leaves what is there of document d: what
\* may be lost is the handler's own part.
LEMMA HandlerKeepsCovered ==
  ASSUME Typed, Grounded, NEW d \in Docs, VersionCovered(d), worker' = worker,
         submitted'[d] = submitted[d],
         \A r \in ResultIds : result[r].doc = d => result'[r] = result[r],
         \A j \in 1..lastJob : jobDoc[j] = d =>
            /\ jobDoc'[j] = d
            /\ queue[j] > 0 => queue'[j] > 0
            /\ jobStatus[j] # "absent" => jobStatus'[j] # "absent",
         \A c \in Clients :
            api'[c] = api[c] \/ (ClientCovers(c, d) => VersionCovered(d)')
  PROVE  VersionCovered(d)'
<1>1. IngestTypeOK /\ Held
  BY DEF Typed, PipelineTypeOK
<1>2. ASSUME NEW r \in ResultIds, ResultCovers(r, d)
      PROVE  VersionCovered(d)'
  BY <1>2 DEF ResultCovers, VersionCovered
<1>3. ASSUME NEW c \in Clients, ClientCovers(c, d), api'[c] = api[c]
      PROVE  VersionCovered(d)'
  <2>1. api[c].pc = "dispatch" => api[c].job \in 1..lastJob /\ jobDoc[api[c].job] = d
    BY <1>1, <1>3 DEF Held, Grounded, OwnJob, ClientCovers
  <2>2. ClientCovers(c, d)'
    BY <1>3, <2>1 DEF ClientCovers
  <2>3. QED
    BY <2>2 DEF VersionCovered
<1>4. ASSUME NEW j \in JobIds, MessageCovers(j, d)
      PROVE  VersionCovered(d)'
  <2>1. j \in 1..lastJob
    BY <1>1, <1>4, PresentJob DEF MessageCovers
  <2>2. MessageCovers(j, d)'
    BY <1>4, <2>1 DEF MessageCovers
  <2>3. QED
    BY <2>2 DEF VersionCovered
<1>5. ASSUME NEW w \in Workers, WorkerCovers(w, d)
      PROVE  VersionCovered(d)'
  <2>1. worker[w].job \in 1..lastJob
    BY <1>1, <1>5 DEF Held, WorkerCovers
  <2>2. WorkerCovers(w, d)'
    BY <1>5, <2>1 DEF WorkerCovers
  <2>3. QED
    BY <2>2 DEF VersionCovered
<1>6. QED
  BY <1>2, <1>3, <1>4, <1>5 DEF VersionCovered

\* The part of SubmittedVersionIsCovered about one document.
Covered(d) == submitted[d] > 0 => VersionCovered(d)

\* A handler that starts to submit document d covers it, and takes nothing from
\* another document whose rows the step leaves alone.
LEMMA SubmissionCovers ==
  ASSUME Typed, Grounded, \A e \in Docs : Covered(e), worker' = worker, queue' = queue,
         jobDoc' = jobDoc, NEW c \in Clients, api[c].pc = "idle", NEW d \in Docs,
         BeginSubmission(c, d),
         \A e \in Docs \ {d} : submitted'[e] = submitted[e],
         \A r \in ResultIds : result[r].doc # d => result'[r] = result[r],
         \A j \in JobIds : jobDoc[j] # d /\ jobStatus[j] # "absent" => jobStatus'[j] # "absent"
  PROVE  \A e \in Docs : Covered(e)'
<1>1. api \in [Clients -> ClientStates] /\ lastJob \in 0..MaxJobs
  BY DEF Typed, PipelineTypeOK, IngestTypeOK
<1>2. VersionCovered(d)'
  BY <1>1 DEF BeginSubmission, VersionCovered, ClientCovers
<1>3. ASSUME NEW e \in Docs, e # d, submitted[e] > 0
      PROVE  VersionCovered(e)'
  <2>1. VersionCovered(e)
    BY <1>3 DEF Covered
  <2>2. \A b \in Clients : api'[b] = api[b] \/ ~ClientCovers(b, e)
    BY <1>1 DEF BeginSubmission, ClientCovers
  <2>3. \A j \in 1..lastJob : j \in JobIds
    BY <1>1, IngestionAssumption DEF JobIds
  <2>4. QED
    BY <1>3, <2>1, <2>2, <2>3, HandlerKeepsCovered
<1>4. QED
  BY <1>2, <1>3 DEF Covered

\* Handlers and time.
LEMMA CoveredApi ==
  ASSUME Typed, Grounded, \A d \in Docs : Covered(d), Ingestion \/ DeletingOcr, crashes' = 0
  PROVE  \A d \in Docs : Covered(d)'
<1>1. IngestTypeOK /\ Held /\ worker' = worker
  BY DEF Typed, PipelineTypeOK, Ingestion, DeletingOcr, workerVars
<1>2. \A j \in 1..lastJob : j \in JobIds
  BY <1>1, IngestionAssumption DEF IngestTypeOK, JobIds
<1>3. ASSUME NEW c \in Clients, NEW d \in Docs, Upload(c, d)
      PROVE  \A e \in Docs : Covered(e)'
  <2>1. CASE BeginSubmission(c, d) /\ submitted' = [submitted EXCEPT ![d] = version[d] + 1]
    BY <1>1, <1>3, <2>1, SubmissionCovers DEF Upload, AcceptCall, IngestTypeOK, jobVars
  <2>2. CASE UNCHANGED <<api, submitted>>
    BY <1>1, <1>3, <2>2
    DEF Upload, Covered, VersionCovered, ResultCovers, ClientCovers, MessageCovers, WorkerCovers,
        jobVars
  <2>3. QED
    BY <1>3, <2>1, <2>2 DEF Upload
<1>4. ASSUME NEW c \in Clients, NEW d \in Docs, Submit(c, d)
      PROVE  \A e \in Docs : Covered(e)'
  BY <1>1, <1>4, SubmissionCovers DEF Submit, AcceptCall, IngestTypeOK, jobVars
<1>5. ASSUME NEW c \in Clients, NEW j \in JobIds, ReplayIngestion(c, j)
      PROVE  \A e \in Docs : Covered(e)'
  <2>1. jobDoc[j] \in Docs
    BY <1>1, <1>5, PresentJob DEF ReplayIngestion
  <2>2. QED
    BY <1>1, <1>5, <2>1, SubmissionCovers DEF ReplayIngestion, AcceptCall, IngestTypeOK, jobVars
<1>6. ASSUME NEW c \in Clients, NEW d \in Docs, Reingest(c, d)
      PROVE  \A e \in Docs : Covered(e)'
  BY <1>1, <1>6, SubmissionCovers DEF Reingest, DeletedJobs, AcceptCall, IngestTypeOK
<1>7. ASSUME UNCHANGED <<submitted, result, jobDoc, queue>>,
             \A j \in JobIds : jobStatus[j] # "absent" => jobStatus'[j] # "absent",
             \A c \in Clients, d \in Docs :
               api'[c] = api[c] \/ (ClientCovers(c, d) => VersionCovered(d)')
      PROVE  \A d \in Docs : Covered(d)'
  <2>1. ASSUME NEW d \in Docs, submitted[d] > 0
        PROVE  VersionCovered(d)'
    <3>1. VersionCovered(d)
      BY <2>1 DEF Covered
    <3>2. QED
      BY <1>1, <1>2, <1>7, <3>1, HandlerKeepsCovered
  <2>2. QED
    BY <1>7, <2>1 DEF Covered
<1>8. ASSUME NEW c \in Clients, ReconcileOwn(c)
      PROVE  \A d \in Docs : Covered(d)'
  <2>1. \A b \in Clients : b # c => api'[b] = api[b]
    BY <1>1, <1>8 DEF ReconcileOwn, IngestTypeOK
  <2>2. api'[c].doc = api[c].doc /\ api'[c].pc = "find"
    BY <1>1, <1>8 DEF ReconcileOwn, IngestTypeOK, ClientStates
  <2>3. \A d \in Docs : ClientCovers(c, d) => VersionCovered(d)'
    BY <2>2 DEF ClientCovers, VersionCovered
  <2>4. \A j \in JobIds : jobStatus[j] # "absent" => jobStatus'[j] # "absent"
    BY <1>8 DEF ReconcileOwn, Reconciled
  <2>5. QED
    BY <1>7, <1>8, <2>1, <2>3, <2>4 DEF ReconcileOwn
<1>9. ASSUME NEW c \in Clients, FindActiveJob(c)
      PROVE  \A d \in Docs : Covered(d)'
  <2>1. UNCHANGED <<submitted, result, jobDoc, queue, jobStatus>>
    BY <1>9 DEF FindActiveJob, jobVars
  <2>2. \A b \in Clients : b # c => api'[b] = api[b]
    BY <1>1, <1>9 DEF FindActiveJob, IngestTypeOK
  <2>3. CASE api' = [api EXCEPT ![c].pc = "insert"]
    <3>1. api'[c].doc = api[c].doc /\ api'[c].pc = "insert"
      BY <1>1, <2>3 DEF IngestTypeOK, ClientStates
    <3>2. \A d \in Docs : ClientCovers(c, d) => VersionCovered(d)'
      BY <3>1 DEF ClientCovers, VersionCovered
    <3>3. QED
      BY <1>7, <2>1, <2>2, <3>2
  <2>4. ASSUME NEW j \in ActiveJobsOf(api[c].doc),
               api' = [api EXCEPT ![c].pc = "dispatch", ![c].job = j]
        PROVE  \A d \in Docs : Covered(d)'
    <3>1. api'[c].doc = api[c].doc /\ api'[c].pc = "dispatch" /\ api'[c].job = j
      BY <1>1, <2>4 DEF IngestTypeOK, ClientStates
    <3>2. jobStatus'[j] # "absent"
      BY <2>1 DEF ActiveJobsOf, Active, ActiveStatuses
    <3>3. \A d \in Docs : ClientCovers(c, d) => VersionCovered(d)'
      BY <3>1, <3>2 DEF ClientCovers, VersionCovered
    <3>4. QED
      BY <1>7, <2>1, <2>2, <3>3
  <2>5. QED
    BY <1>9, <2>3, <2>4 DEF FindActiveJob
<1>10. ASSUME NEW c \in Clients, InsertJob(c)
       PROVE  \A d \in Docs : Covered(d)'
  <2> DEFINE k == lastJob + 1
  <2>1. k \in JobIds /\ \A j \in 1..lastJob : j # k
    BY <1>1, <1>10, IngestionAssumption DEF InsertJob, IngestTypeOK, JobIds
  <2>2. /\ jobDoc' = [jobDoc EXCEPT ![k] = api[c].doc]
        /\ jobStatus' = [jobStatus EXCEPT ![k] = "queued"]
        /\ api' = [api EXCEPT ![c].pc = "dispatch", ![c].job = k]
        /\ UNCHANGED <<submitted, result, queue>>
    BY <1>10 DEF InsertJob
  <2> HIDE DEF k
  <2>3. api'[c].doc = api[c].doc /\ api'[c].pc = "dispatch" /\ api'[c].job = k
    BY <1>1, <2>2 DEF IngestTypeOK, ClientStates
  <2>4. jobStatus'[k] # "absent"
    BY <1>1, <2>1, <2>2 DEF IngestTypeOK
  <2>5. \A b \in Clients, d \in Docs :
          api'[b] = api[b] \/ (ClientCovers(b, d) => VersionCovered(d)')
    <3>1. \A d \in Docs : ClientCovers(c, d) => VersionCovered(d)'
      BY <2>3, <2>4 DEF ClientCovers, VersionCovered
    <3>2. \A b \in Clients : b # c => api'[b] = api[b]
      BY <1>1, <2>2 DEF IngestTypeOK
    <3>3. QED
      BY <3>1, <3>2
  <2>6. \A j \in 1..lastJob : jobDoc'[j] = jobDoc[j] /\ jobStatus'[j] = jobStatus[j]
    BY <1>1, <1>2, <2>1, <2>2 DEF IngestTypeOK
  <2>7. ASSUME NEW d \in Docs, submitted[d] > 0
        PROVE  VersionCovered(d)'
    <3>1. VersionCovered(d)
      BY <2>7 DEF Covered
    <3>2. QED
      BY <1>1, <2>2, <2>5, <2>6, <3>1, HandlerKeepsCovered
  <2>8. QED
    BY <2>2, <2>7 DEF Covered
<1>11. ASSUME NEW c \in Clients, DispatchJob(c)
       PROVE  \A d \in Docs : Covered(d)'
  <2>1. PICK k \in JobIds : k = api[c].job
    BY <1>1, <1>2, <1>11 DEF DispatchJob, Held
  <2>2. queue' = [queue EXCEPT ![k] = @ + 1] /\ UNCHANGED <<submitted, result, jobDoc, jobStatus>>
    BY <1>11, <2>1 DEF DispatchJob, jobVars
  <2>3. /\ queue'[k] > 0
        /\ \A j \in JobIds : queue[j] > 0 => queue'[j] > 0
    BY <1>1, <2>1, <2>2 DEF IngestTypeOK
  <2>4. \A b \in Clients : b # c => api'[b] = api[b]
    BY <1>1, <1>11 DEF DispatchJob, IngestTypeOK
  <2>5. ASSUME NEW d \in Docs, ClientCovers(c, d)
        PROVE  VersionCovered(d)'
    <3>1. jobDoc[k] = d /\ jobStatus[k] # "absent"
      BY <1>11, <2>1, <2>5 DEF DispatchJob, ClientCovers, Grounded, OwnJob
    <3>2. MessageCovers(k, d)'
      BY <2>2, <2>3, <3>1 DEF MessageCovers
    <3>3. QED
      BY <3>2 DEF VersionCovered
  <2>6. ASSUME NEW d \in Docs, submitted[d] > 0
        PROVE  VersionCovered(d)'
    <3>1. VersionCovered(d)
      BY <2>6 DEF Covered
    <3>2. QED
      BY <1>1, <1>2, <2>2, <2>3, <2>4, <2>5, <3>1, HandlerKeepsCovered
  <2>7. QED
    BY <2>2, <2>6 DEF Covered
<1>12. ASSUME NEW c \in Clients, ClientCrash(c)
       PROVE  FALSE
  BY <1>1, <1>12 DEF ClientCrash, IngestTypeOK
<1>13. ASSUME ReconcileAll \/ \E j \in JobIds : TimeoutElapses(j)
       PROVE  \A d \in Docs : Covered(d)'
  BY <1>7, <1>13 DEF ReconcileAll, Reconciled, TimeoutElapses
<1>14. QED
  BY <1>3, <1>4, <1>5, <1>6, <1>8, <1>9, <1>10, <1>11, <1>12, <1>13 DEF Ingestion, DeletingOcr

\* A step of task w that leaves rows, handlers and messages of document d alone:
\* what may be lost is the task's own part, or the message it takes.
LEMMA TaskKeepsCovered ==
  ASSUME NEW d \in Docs, VersionCovered(d), NEW w \in Workers,
         UNCHANGED <<submitted, api, jobDoc>>,
         \A r \in ResultIds : result[r].doc = d => result'[r] = result[r],
         \A j : jobStatus[j] # "absent" => jobStatus'[j] # "absent",
         \A j \in JobIds : queue'[j] = queue[j] \/ (MessageCovers(j, d) => VersionCovered(d)'),
         \A v \in Workers : v # w => worker'[v] = worker[v],
         WorkerCovers(w, d) => VersionCovered(d)'
  PROVE  VersionCovered(d)'
<1>1. ASSUME NEW r \in ResultIds, ResultCovers(r, d)
      PROVE  VersionCovered(d)'
  BY <1>1 DEF ResultCovers, VersionCovered
<1>2. ASSUME NEW c \in Clients, ClientCovers(c, d)
      PROVE  VersionCovered(d)'
  BY <1>2 DEF ClientCovers, VersionCovered
<1>3. ASSUME NEW j \in JobIds, MessageCovers(j, d), queue'[j] = queue[j]
      PROVE  VersionCovered(d)'
  BY <1>3 DEF MessageCovers, VersionCovered
<1>4. ASSUME NEW v \in Workers, v # w, WorkerCovers(v, d)
      PROVE  VersionCovered(d)'
  BY <1>4 DEF WorkerCovers, VersionCovered
<1>5. QED
  BY <1>1, <1>2, <1>3, <1>4 DEF VersionCovered

\* Tasks: a message for a job that is there becomes a task that reads the latest
\* version, and what it reads becomes a result.
LEMMA CoveredOcr ==
  ASSUME Typed, Grounded, \A d \in Docs : Covered(d), Ocr, crashes' = 0, failures' = 0
  PROVE  \A d \in Docs : Covered(d)'
<1> PICK w \in Workers : \/ \E j \in JobIds : Receive(w, j)
                         \/ OcrTask(w) \/ OcrFails(w) \/ WorkerCrash(w)
  BY DEF Ocr
<1>1. /\ IngestTypeOK /\ Held /\ worker \in [Workers -> WorkerStates]
      /\ worker[w] \in WorkerStates
  BY DEF Typed, PipelineTypeOK, WorkerTypeOK
<1>2. worker[w].pc # "idle" => worker[w].job \in JobIds /\ worker[w].job # 0
  <2>1. worker[w].pc # "idle" => worker[w].job \in 1..lastJob
    BY <1>1 DEF Held
  <2>2. \A i \in 1..lastJob : i \in JobIds /\ i # 0
    BY <1>1, IngestionAssumption DEF IngestTypeOK, JobIds
  <2>3. QED
    BY <2>1, <2>2
<1>3. ASSUME UNCHANGED <<submitted, api, jobDoc>>,
             \A j : jobStatus[j] # "absent" => jobStatus'[j] # "absent",
             \A r \in ResultIds : result[r].doc \in Docs => result'[r] = result[r],
             \A j \in JobIds, d \in Docs :
               queue'[j] = queue[j] \/ (MessageCovers(j, d) => VersionCovered(d)'),
             \A v \in Workers : v # w => worker'[v] = worker[v],
             \A d \in Docs : WorkerCovers(w, d) => VersionCovered(d)'
      PROVE  \A d \in Docs : Covered(d)'
  BY <1>3, TaskKeepsCovered DEF Covered
<1>4. ASSUME UNCHANGED <<submitted, api, jobDoc, queue, result>>,
             \A j : jobStatus[j] # "absent" => jobStatus'[j] # "absent",
             \A v \in Workers : v # w => worker'[v] = worker[v],
             worker[w].pc \notin {"read", "ocr", "store"}
      PROVE  \A d \in Docs : Covered(d)'
  BY <1>3, <1>4 DEF WorkerCovers
<1>5. ASSUME NEW j \in JobIds, Receive(w, j)
      PROVE  \A d \in Docs : Covered(d)'
  <2>1. UNCHANGED <<submitted, api, jobDoc, result>> /\ worker[w].pc = "idle"
    BY <1>5 DEF Receive
  <2>2. \A i \in JobIds : i # j => queue'[i] = queue[i]
    BY <1>1, <1>5 DEF Receive, IngestTypeOK
  <2>3. \A v \in Workers : v # w => worker'[v] = worker[v]
    BY <1>1, <1>5 DEF Receive
  <2>4. \A i : jobStatus[i] # "absent" => jobStatus'[i] # "absent"
    <3>1. CASE jobStatus' = jobStatus
      BY <3>1
    <3>2. CASE jobStatus' = [jobStatus EXCEPT ![j] = "running"]
      BY <1>1, <3>2 DEF IngestTypeOK
    <3>3. QED
      BY <1>5, <3>1, <3>2 DEF Receive
  <2>5. ASSUME NEW d \in Docs, MessageCovers(j, d)
        PROVE  VersionCovered(d)'
    <3>1. worker' = [worker EXCEPT ![w] = [IdleWorker EXCEPT !.pc = "read", !.job = j]]
      BY <1>5, <2>5 DEF Receive, MessageCovers
    <3>2. worker'[w].pc = "read" /\ worker'[w].job = j /\ j # 0
      BY <1>1, <3>1, IngestionAssumption DEF IdleWorker, JobIds
    <3>3. WorkerCovers(w, d)'
      BY <2>1, <2>4, <2>5, <3>2 DEF WorkerCovers, MessageCovers
    <3>4. QED
      BY <3>3 DEF VersionCovered
  <2>6. QED
    BY <1>3, <2>1, <2>2, <2>3, <2>4, <2>5 DEF WorkerCovers
<1>6. ASSUME ReadVersion(w)
      PROVE  \A d \in Docs : Covered(d)'
  <2>1. UNCHANGED <<submitted, api, jobDoc, queue, result, jobStatus, version>>
    BY <1>6 DEF ReadVersion, ingestVars, jobVars
  <2>2. \/ worker'[w].pc = "ocr" /\ worker'[w].job = worker[w].job
           /\ worker'[w].ver = version[jobDoc[worker[w].job]]
        \/ jobStatus[worker[w].job] = "absent"
    BY <1>1, <1>6 DEF ReadVersion, WorkerStates
  <2>3. /\ worker[w].pc = "read"
        /\ \A v \in Workers : v # w => worker'[v] = worker[v]
    BY <1>1, <1>6 DEF ReadVersion, Goto
  <2>4. ASSUME NEW d \in Docs, WorkerCovers(w, d)
        PROVE  VersionCovered(d)'
    <3>1. version[d] >= submitted[d]
      BY <1>1, IngestionAssumption DEF Grounded, Uploaded, IngestTypeOK
    <3>2. WorkerCovers(w, d)'
      BY <2>1, <2>2, <2>3, <2>4, <3>1 DEF WorkerCovers
    <3>3. QED
      BY <3>2 DEF VersionCovered
  <2>5. QED
    BY <1>3, <2>1, <2>3, <2>4
<1>7. ASSUME RunOcr(w)
      PROVE  \A d \in Docs : Covered(d)'
  <2>1. UNCHANGED <<submitted, api, jobDoc, queue, result, jobStatus>> /\ worker[w].pc = "ocr"
    BY <1>7 DEF RunOcr, ingestVars, jobVars
  <2>2. PICK r \in 0..MaxResults :
          /\ IsResultFor(r, jobDoc[worker[w].job], worker[w].ver)
          /\ worker' = [worker EXCEPT ![w].pc = IF r = 0 THEN "store" ELSE "mark", ![w].res = r]
    BY <1>7 DEF RunOcr
  <2>3. \A v \in Workers : v # w => worker'[v] = worker[v]
    BY <1>1, <2>2
  <2>4. ASSUME NEW d \in Docs, WorkerCovers(w, d)
        PROVE  VersionCovered(d)'
    <3>1. jobDoc[worker[w].job] = d /\ worker[w].ver >= submitted[d]
      BY <2>1, <2>4 DEF WorkerCovers
    <3>2. CASE r = 0
      <4>1. worker'[w].pc = "store" /\ worker'[w].job = worker[w].job
            /\ worker'[w].ver = worker[w].ver
        BY <1>1, <2>2, <3>2 DEF WorkerStates
      <4>2. WorkerCovers(w, d)'
        BY <2>1, <2>4, <3>1, <4>1 DEF WorkerCovers
      <4>3. QED
        BY <4>2 DEF VersionCovered
    <3>3. CASE r # 0
      <4>1. r \in ResultIds /\ result[r].doc = d /\ result[r].ver = worker[w].ver
        BY <2>2, <3>1, <3>3 DEF IsResultFor
      <4>2. ResultCovers(r, d)'
        BY <2>1, <3>1, <4>1 DEF ResultCovers
      <4>3. QED
        BY <4>1, <4>2 DEF VersionCovered
    <3>4. QED
      BY <3>2, <3>3
  <2>5. QED
    BY <1>3, <2>1, <2>3, <2>4
<1>8. ASSUME StoreResult(w)
      PROVE  \A d \in Docs : Covered(d)'
  <2>0. PICK k \in ResultIds : k = lastResult + 1
    BY <1>1, <1>8, IngestionAssumption DEF StoreResult, IngestTypeOK, ResultIds
  <2> DEFINE row == [doc |-> jobDoc[worker[w].job], ver |-> worker[w].ver, job |-> worker[w].job]
  <2>1. UNCHANGED <<submitted, api, jobDoc, queue, jobStatus>> /\ worker[w].pc = "store"
    BY <1>8 DEF StoreResult, jobVars
  <2>2. result[k].doc = NoDoc
    <3>1. k > lastResult
      BY <1>1, <2>0 DEF IngestTypeOK
    <3>2. QED
      BY <3>1 DEF Grounded, Fresh
  <2>3. result' = [result EXCEPT ![k] = row]
    BY <1>8, <2>0 DEF StoreResult
  <2>4. \A v \in Workers : v # w => worker'[v] = worker[v]
    BY <1>1, <1>8 DEF StoreResult
  <2>5. row.doc = jobDoc[worker[w].job] /\ row.ver = worker[w].ver
    OBVIOUS
  <2> HIDE DEF row
  <2>6. result'[k] = row /\ \A r \in ResultIds : result[r].doc \in Docs => result'[r] = result[r]
    BY <1>1, <2>2, <2>3, IngestionAssumption DEF IngestTypeOK
  <2>7. ASSUME NEW d \in Docs, WorkerCovers(w, d)
        PROVE  VersionCovered(d)'
    <3>1. ResultCovers(k, d)'
      BY <2>1, <2>5, <2>6, <2>7 DEF WorkerCovers, ResultCovers
    <3>2. QED
      BY <3>1 DEF VersionCovered
  <2>8. QED
    BY <1>3, <2>1, <2>4, <2>6, <2>7
<1>9. ASSUME MarkSucceeded(w) \/ Except(w)
      PROVE  \A d \in Docs : Covered(d)'
  <2>1. UNCHANGED <<submitted, api, jobDoc, queue, result>>
        /\ worker[w].pc \notin {"read", "ocr", "store"}
    BY <1>9 DEF MarkSucceeded, Except
  <2>2. \A v \in Workers : v # w => worker'[v] = worker[v]
    BY <1>1, <1>9 DEF MarkSucceeded, Except, Goto, EndTask
  <2>3. \A j : jobStatus[j] # "absent" => jobStatus'[j] # "absent"
    <3>1. CASE jobStatus' = jobStatus
      BY <3>1
    <3>2. CASE \E st \in {"succeeded", "failed"} :
                 jobStatus' = [jobStatus EXCEPT ![worker[w].job] = st]
      BY <1>1, <3>2 DEF IngestTypeOK
    <3>3. QED
      BY <1>9, <3>1, <3>2 DEF MarkSucceeded, Except
  <2>4. QED
    BY <1>4, <2>1, <2>2, <2>3
<1>10. ASSUME \/ EnsureScanUnit(w) \/ CommitScanUnit(w) \/ DrainGate(w) \/ Collect(w)
              \/ Release(w) \/ \E i \in ScanIds : SendReleased(w, i)
       PROVE  \A d \in Docs : Covered(d)'
  <2>1. UNCHANGED ingestVars /\ worker[w].pc \notin {"read", "ocr", "store"}
    BY <1>10 DEF EnsureScanUnit, CommitScanUnit, DrainGate, Collect, Release, SendReleased
  <2>2. \A v \in Workers : v # w => worker'[v] = worker[v]
    BY <1>1, <1>10
    DEF EnsureScanUnit, CommitScanUnit, DrainGate, Collect, Release, SendReleased, Goto, EndTask,
        Raise
  <2>3. QED
    BY <1>4, <2>1, <2>2 DEF ingestVars, jobVars
<1>11. ~OcrFails(w)
  BY DEF OcrFails, Typed, PipelineTypeOK, WorkerTypeOK
<1>12. ~WorkerCrash(w)
  BY <1>1 DEF WorkerCrash, IngestTypeOK
<1>13. QED
  BY <1>5, <1>6, <1>7, <1>8, <1>9, <1>10, <1>11, <1>12 DEF OcrTask

\* The numbers of crashes and of failed runs never decrease.
LEMMA ApiCounters ==
  ASSUME Ingestion \/ DeletingOcr
  PROVE  failures' = failures /\ (crashes' = crashes \/ crashes' = crashes + 1)
<1>1. failures' = failures
  BY DEF Ingestion, DeletingOcr, workerVars
<1>2. ASSUME NEW c \in Clients, NEW d \in Docs, Upload(c, d) \/ Submit(c, d) \/ Reingest(c, d)
      PROVE  crashes' = crashes
  BY <1>2 DEF Upload, Submit, Reingest
<1>3. ASSUME NEW c \in Clients, NEW j \in JobIds, ReplayIngestion(c, j)
      PROVE  crashes' = crashes
  BY <1>3 DEF ReplayIngestion
<1>4. ASSUME NEW c \in Clients,
             ReconcileOwn(c) \/ FindActiveJob(c) \/ InsertJob(c) \/ DispatchJob(c)
      PROVE  crashes' = crashes
  BY <1>4 DEF ReconcileOwn, FindActiveJob, InsertJob, DispatchJob, boundVars
<1>5. ASSUME NEW c \in Clients, ClientCrash(c)
      PROVE  crashes' = crashes + 1
  BY <1>5 DEF ClientCrash
<1>6. ASSUME ReconcileAll \/ \E j \in JobIds : TimeoutElapses(j)
      PROVE  crashes' = crashes
  BY <1>6 DEF ReconcileAll, TimeoutElapses, boundVars
<1>7. QED
  BY <1>1, <1>2, <1>3, <1>4, <1>5, <1>6 DEF Ingestion, DeletingOcr

\* An OCR task counts failures and crashes up, one at a time.
LEMMA OcrCounters ==
  ASSUME Ocr
  PROVE  /\ failures' = failures \/ failures' = failures + 1
         /\ crashes' = crashes \/ crashes' = crashes + 1
<1> PICK w \in Workers : \/ \E j \in JobIds : Receive(w, j)
                         \/ OcrTask(w) \/ OcrFails(w) \/ WorkerCrash(w)
  BY DEF Ocr
<1>1. CASE \E j \in JobIds : Receive(w, j)
  BY <1>1 DEF Receive, boundVars
<1>2. CASE OcrFails(w)
  BY <1>2 DEF OcrFails, ingestVars, boundVars
<1>3. CASE WorkerCrash(w)
  BY <1>3 DEF WorkerCrash
<1>4. CASE StoreResult(w) \/ MarkSucceeded(w) \/ Except(w)
  BY <1>4 DEF StoreResult, MarkSucceeded, Except, boundVars
<1>5. CASE UNCHANGED <<ingestVars, failures>>
  BY <1>5 DEF ingestVars, boundVars
<1>6. QED
  BY <1>1, <1>2, <1>3, <1>4, <1>5
  DEF OcrTask, ReadVersion, RunOcr, EnsureScanUnit, CommitScanUnit, DrainGate, Collect, Release,
      SendReleased

\* As long as no run raises and no process dies, a submission is not forgotten: the
\* argument for answering it with a job that is already running holds for every
\* number of clients, workers and versions.
THEOREM SubmittedVersionsAreCovered == Spec => []SubmittedVersionIsCovered
<1> DEFINE Inv == crashes = 0 /\ failures = 0 => \A d \in Docs : Covered(d)
<1>1. Init => Inv
  BY DEF Init, IngestInit, Covered
<1>2. Typed /\ Grounded /\ Inv /\ [Next]_vars => Inv'
  <2> SUFFICES ASSUME Typed, Grounded, Inv, [Next]_vars, crashes' = 0, failures' = 0
               PROVE  \A d \in Docs : Covered(d)'
    OBVIOUS
  <2>1. crashes \in Nat /\ failures \in Nat
    BY IngestionAssumption, WorkerAssumption
    DEF Typed, PipelineTypeOK, IngestTypeOK, WorkerTypeOK
  <2>2. CASE Ingestion \/ DeletingOcr
    BY <2>1, <2>2, CoveredApi, ApiCounters
  <2>3. CASE Ocr
    BY <2>1, <2>3, CoveredOcr, OcrCounters
  <2>4. CASE EnsuringKnowledge \/ LosingEnsurer \/ Knowledge \/ UNCHANGED vars
    <3>1. /\ UNCHANGED <<submitted, jobDoc, jobStatus, queue, result, api, worker>>
          /\ crashes = 0 /\ failures = 0
      BY <2>1, <2>4, KnowledgeIsElsewhere
    <3>2. QED
      BY <3>1
      DEF Covered, VersionCovered, ResultCovers, ClientCovers, MessageCovers, WorkerCovers
  <2>5. QED
    BY <2>2, <2>3, <2>4 DEF Next
<1>3. Inv => SubmittedVersionIsCovered
  BY DEF SubmittedVersionIsCovered, Covered
<1>4. QED
  BY TypedInvariant, GroundedInvariant, <1>1, <1>2, <1>3, PTL DEF Spec

-----------------------------------------------------------------------------
(***************************************************************************)
(* A version of a document has at most one result for every OCR process:   *)
(* only the tasks that looked before the first result was stored store one.*)
(***************************************************************************)

\* ResultsWithinProcesses is not inductive: the tasks that are about to store a
\* result of the version count too. RunOcr adds one of them only while there is no
\* result, and StoreResult makes a result of one of them.
StoringOf(d, v) ==
  {w \in Workers : worker[w].pc = "store" /\ jobDoc[worker[w].job] = d /\ worker[w].ver = v}
WithinProcesses ==
  \A d \in Docs, v \in 0..MaxVersion :
    Cardinality(ResultsOf(d, v)) + Cardinality(StoringOf(d, v)) <= Cardinality(Workers)

\* What is counted is finite.
LEMMA CountsAreNumbers ==
  ASSUME IsFiniteSet(Workers), NEW d \in Docs, NEW v \in 0..MaxVersion
  PROVE  /\ IsFiniteSet(ResultsOf(d, v)) /\ Cardinality(ResultsOf(d, v)) \in Nat
         /\ IsFiniteSet(StoringOf(d, v)) /\ Cardinality(StoringOf(d, v)) \in Nat
         /\ Cardinality(Workers) \in Nat
         /\ StoringOf(d, v) \subseteq Workers
         /\ Cardinality(StoringOf(d, v)) <= Cardinality(Workers)
<1>1. IsFiniteSet(ResultIds)
  BY FS_Interval, IngestionAssumption DEF ResultIds
<1>2. ResultsOf(d, v) \in SUBSET ResultIds
  BY DEF ResultsOf, LiveResults
<1>3. StoringOf(d, v) \in SUBSET Workers
  BY DEF StoringOf
<1>4. IsFiniteSet(ResultsOf(d, v))
  BY <1>1, <1>2, FS_Subset
<1>5. IsFiniteSet(StoringOf(d, v)) /\ Cardinality(StoringOf(d, v)) <= Cardinality(Workers)
  BY <1>3, FS_Subset
<1>6. QED
  BY <1>3, <1>4, <1>5, FS_CardinalityType

\* The same in the next state.
LEMMA CountsAreNumbersNext ==
  ASSUME IsFiniteSet(Workers), NEW d \in Docs, NEW v \in 0..MaxVersion
  PROVE  /\ IsFiniteSet(ResultsOf(d, v)') /\ Cardinality(ResultsOf(d, v)') \in Nat
         /\ IsFiniteSet(StoringOf(d, v)') /\ Cardinality(StoringOf(d, v)') \in Nat
         /\ Cardinality(StoringOf(d, v)') <= Cardinality(Workers)
<1>1. IsFiniteSet(ResultIds)
  BY FS_Interval, IngestionAssumption DEF ResultIds
<1>2. ResultsOf(d, v)' \in SUBSET ResultIds
  BY DEF ResultsOf, LiveResults
<1>3. StoringOf(d, v)' \in SUBSET Workers
  BY DEF StoringOf
<1>4. IsFiniteSet(ResultsOf(d, v)')
  BY <1>1, <1>2, FS_Subset
<1>5. IsFiniteSet(StoringOf(d, v)') /\ Cardinality(StoringOf(d, v)') <= Cardinality(Workers)
  BY <1>3, FS_Subset
<1>6. QED
  BY <1>4, <1>5, FS_CardinalityType

\* Nothing counted is added.
LEMMA FewerKept ==
  ASSUME IsFiniteSet(Workers), WithinProcesses, NEW d \in Docs, NEW v \in 0..MaxVersion,
         ResultsOf(d, v)' \subseteq ResultsOf(d, v), StoringOf(d, v)' \subseteq StoringOf(d, v)
  PROVE  Cardinality(ResultsOf(d, v)') + Cardinality(StoringOf(d, v)') <= Cardinality(Workers)
<1>1. /\ Cardinality(ResultsOf(d, v)') <= Cardinality(ResultsOf(d, v))
      /\ Cardinality(StoringOf(d, v)') <= Cardinality(StoringOf(d, v))
  BY CountsAreNumbers, FS_Subset
<1>2. Cardinality(ResultsOf(d, v)) + Cardinality(StoringOf(d, v)) <= Cardinality(Workers)
  BY DEF WithinProcesses
<1> QED
  BY <1>1, <1>2, CountsAreNumbers, CountsAreNumbersNext

\* A step that stores nothing, and leaves a task at "store" only where it was.
LEMMA WithinKept ==
  ASSUME Typed, IsFiniteSet(Workers), WithinProcesses,
         \A r \in ResultIds : result'[r] \in {result[r], NoResult},
         \A j \in 1..lastJob : jobDoc'[j] = jobDoc[j],
         \A w \in Workers : worker'[w].pc = "store" => worker'[w] = worker[w]
  PROVE  WithinProcesses'
<1> SUFFICES ASSUME NEW d \in Docs, NEW v \in 0..MaxVersion
             PROVE  Cardinality(ResultsOf(d, v)') + Cardinality(StoringOf(d, v)')
                      <= Cardinality(Workers)
  BY DEF WithinProcesses
<1>1. ResultsOf(d, v)' \subseteq ResultsOf(d, v)
  BY DEF ResultsOf, LiveResults, NoResult
<1>2. ASSUME NEW w \in Workers, w \in StoringOf(d, v)'
      PROVE  w \in StoringOf(d, v)
  <2>1. worker'[w] = worker[w] /\ worker[w].pc = "store"
    BY <1>2 DEF StoringOf
  <2>2. worker[w].job \in 1..lastJob
    BY <2>1 DEF Typed, Held
  <2>3. QED
    BY <1>2, <2>1, <2>2 DEF StoringOf
<1>3. StoringOf(d, v)' \subseteq StoringOf(d, v)
  BY <1>2 DEF StoringOf
<1>4. QED
  BY <1>1, <1>3, FewerKept

\* The API inserts jobs and deletes results.
LEMMA WithinApi ==
  ASSUME Typed, IsFiniteSet(Workers), WithinProcesses, Ingestion \/ DeletingOcr
  PROVE  WithinProcesses'
<1>1. worker' = worker
  BY DEF Ingestion, DeletingOcr, workerVars
<1>2. \A r \in ResultIds : result'[r] \in {result[r], NoResult}
  BY DEF Ingestion, DeletingOcr, Reingest, Upload, Submit, ReplayIngestion, ReconcileOwn,
         FindActiveJob, InsertJob, DispatchJob, ClientCrash, TimeoutElapses, ReconcileAll
<1>3. \A j \in 1..lastJob : jobDoc'[j] = jobDoc[j]
  <2>1. CASE \E c \in Clients : InsertJob(c)
    <3>1. lastJob \in Nat /\ lastJob + 1 \in JobIds /\ jobDoc \in [JobIds -> Docs \cup {NoDoc}]
      BY <2>1, IngestionAssumption DEF InsertJob, Typed, PipelineTypeOK, IngestTypeOK, JobIds
    <3>2. \A j \in 1..lastJob : j \in JobIds /\ j # lastJob + 1
      BY <3>1, IngestionAssumption DEF JobIds
    <3>3. QED
      BY <2>1, <3>1, <3>2 DEF InsertJob
  <2>2. CASE ~\E c \in Clients : InsertJob(c)
    <3>1. jobDoc' = jobDoc
      BY <2>2
      DEF Ingestion, DeletingOcr, Reingest, Upload, Submit, ReplayIngestion, ReconcileOwn,
          FindActiveJob, DispatchJob, ClientCrash, TimeoutElapses, ReconcileAll, jobVars
    <3>2. QED
      BY <3>1
  <2>3. QED
    BY <2>1, <2>2
<1>4. QED
  BY <1>1, <1>2, <1>3, WithinKept

\* Where each step of a task leads; a task keeps its job until it ends.
LEMMA TaskGoesTo ==
  ASSUME Typed, NEW w \in Workers
  PROVE  /\ ReadVersion(w) => worker'[w].pc \in {"ocr", "failing"}
         /\ RunOcr(w) => worker'[w].pc \in {"store", "mark"}
         /\ OcrFails(w) => worker'[w].pc = "failing"
         /\ StoreResult(w) => worker'[w].pc = "mark"
         /\ MarkSucceeded(w) => worker'[w].pc \in {"failing", "ensure"}
         /\ EnsureScanUnit(w) => worker'[w].pc \in {"commit", "failing"}
         /\ CommitScanUnit(w) => worker'[w].pc \in {"drain", "failing"}
         /\ DrainGate(w) => worker'[w].pc \in {"idle", "collect"}
         /\ Collect(w) => worker'[w].pc \in {"idle", "release"}
         /\ Release(w) => worker'[w].pc \in {"send", "failing", "idle"}
         /\ (\E s \in ScanIds : SendReleased(w, s)) => worker'[w].pc \in {"send", "idle"}
         /\ Except(w) => worker'[w].pc \in {"idle", "drain"}
         /\ OcrTask(w) \/ OcrFails(w) =>
               /\ worker' = [worker EXCEPT ![w] = worker'[w]]
               /\ worker'[w].pc # "idle" => worker'[w].job = worker[w].job
<1>1. worker \in [Workers -> WorkerStates] /\ worker[w] \in WorkerStates
  BY DEF Typed, PipelineTypeOK, WorkerTypeOK
<1> DEFINE Goes(pcs) == /\ worker' = [worker EXCEPT ![w] = worker'[w]]
                        /\ worker'[w].pc \in pcs
                        /\ worker'[w].pc # "idle" => worker'[w].job = worker[w].job
<1>2. ASSUME NEW pc, Goto(w, pc)
      PROVE  Goes({pc})
  BY <1>1, <1>2 DEF Goto, WorkerStates
<1>3. ASSUME EndTask(w)
      PROVE  Goes({"idle"})
  BY <1>1, <1>3 DEF EndTask, IdleWorker
<1>4. ReadVersion(w) => Goes({"ocr", "failing"})
  <2>1. ASSUME NEW v, worker' = [worker EXCEPT ![w].pc = "ocr", ![w].ver = v]
        PROVE  Goes({"ocr"})
    BY <1>1, <2>1 DEF WorkerStates
  <2>2. QED
    BY <1>2, <2>1 DEF ReadVersion
<1>5. RunOcr(w) => Goes({"store", "mark"})
  <2>1. ASSUME NEW r, worker' = [worker EXCEPT ![w].pc = IF r = 0 THEN "store" ELSE "mark",
                                               ![w].res = r]
        PROVE  Goes({"store", "mark"})
    BY <1>1, <2>1 DEF WorkerStates
  <2>2. QED
    BY <2>1 DEF RunOcr
<1>6. OcrFails(w) => Goes({"failing"})
  BY <1>2 DEF OcrFails
<1>7. StoreResult(w) => Goes({"mark"})
  BY <1>1, ZenonT(40) DEF StoreResult, WorkerStates
<1>8. MarkSucceeded(w) => Goes({"failing", "ensure"})
  BY <1>2 DEF MarkSucceeded
<1>9. EnsureScanUnit(w) => Goes({"commit", "failing"})
  <2>1. ASSUME NEW p, worker' = [worker EXCEPT ![w].pc = "commit", ![w].plan = p]
        PROVE  Goes({"commit"})
    BY <1>1, <2>1 DEF WorkerStates
  <2>2. QED
    BY <1>2, <2>1 DEF EnsureScanUnit
<1>10. ASSUME NEW s, s.pc = "drain", s.job = worker[w].job, worker' = [worker EXCEPT ![w] = s]
       PROVE  Goes({"drain"})
  BY <1>1, <1>10
<1>11. CommitScanUnit(w) => Goes({"drain", "failing"})
  <2> DEFINE s == [IdleWorker EXCEPT !.pc = "drain", !.job = worker[w].job]
  <2>1. s.pc = "drain" /\ s.job = worker[w].job
    BY DEF IdleWorker
  <2>2. CommitScanUnit(w) => worker' = [worker EXCEPT ![w] = s] \/ Goto(w, "failing")
    BY DEF CommitScanUnit
  <2> HIDE DEF s
  <2>3. QED
    BY <1>2, <1>10, <2>1, <2>2
<1>12. DrainGate(w) => Goes({"idle", "collect"})
  BY <1>2, <1>3 DEF DrainGate
<1>13. Collect(w) => Goes({"idle", "release"})
  <2>1. ASSUME NEW ks, worker' = [worker EXCEPT ![w].pc = "release", ![w].jobs = ks]
        PROVE  Goes({"release"})
    BY <1>1, <2>1 DEF WorkerStates
  <2>2. QED
    BY <1>3, <2>1 DEF Collect
<1>14. Release(w) => Goes({"send", "failing", "idle"})
  <2>1. ASSUME NEW ss, worker' = [worker EXCEPT ![w].pc = "send", ![w].jobs = {}, ![w].send = ss]
        PROVE  Goes({"send"})
    BY <1>1, <2>1 DEF WorkerStates
  <2>2. Raise(w) => Goes({"failing", "idle"})
    BY <1>2, <1>3 DEF Raise
  <2>3. QED
    BY <2>1, <2>2 DEF Release
<1>15. (\E s \in ScanIds : SendReleased(w, s)) => Goes({"send", "idle"})
  <2>1. ASSUME NEW ss, worker' = [worker EXCEPT ![w].send = ss], worker[w].pc = "send"
        PROVE  Goes({"send"})
    BY <1>1, <2>1 DEF WorkerStates
  <2>2. QED
    BY <1>3, <2>1 DEF SendReleased
<1>16. Except(w) => Goes({"idle", "drain"})
  <2> DEFINE s == [IdleWorker EXCEPT !.pc = "drain", !.job = worker[w].job, !.ok = FALSE]
  <2>1. s.pc = "drain" /\ s.job = worker[w].job
    BY DEF IdleWorker
  <2>2. Except(w) => worker' = [worker EXCEPT ![w] = s] \/ EndTask(w)
    BY DEF Except
  <2> HIDE DEF s
  <2>3. QED
    BY <1>3, <1>10, <2>1, <2>2
<1>17. QED
  BY <1>4, <1>5, <1>6, <1>7, <1>8, <1>9, <1>11, <1>12, <1>13, <1>14, <1>15, <1>16 DEF OcrTask

\* A task that looks and finds no result is one more to store one, but there is none
\* yet; a task that finds one stores none.
LEMMA WithinRunOcr ==
  ASSUME Typed, IsFiniteSet(Workers), WithinProcesses, NEW w \in Workers, RunOcr(w)
  PROVE  WithinProcesses'
<1>1. worker \in [Workers -> WorkerStates] /\ worker[w] \in WorkerStates
  BY DEF Typed, PipelineTypeOK, WorkerTypeOK
<1>2. PICK r \in 0..MaxResults :
        /\ IsResultFor(r, jobDoc[worker[w].job], worker[w].ver)
        /\ worker' = [worker EXCEPT ![w].pc = IF r = 0 THEN "store" ELSE "mark", ![w].res = r]
  BY DEF RunOcr
<1>3. result' = result /\ jobDoc' = jobDoc
  BY DEF RunOcr, ingestVars, jobVars
<1>4. /\ worker'[w].pc = IF r = 0 THEN "store" ELSE "mark"
      /\ worker'[w].job = worker[w].job /\ worker'[w].ver = worker[w].ver
      /\ \A x \in Workers \ {w} : worker'[x] = worker[x]
  BY <1>1, <1>2 DEF WorkerStates
<1> SUFFICES ASSUME NEW d \in Docs, NEW v \in 0..MaxVersion
             PROVE  Cardinality(ResultsOf(d, v)') + Cardinality(StoringOf(d, v)')
                      <= Cardinality(Workers)
  BY DEF WithinProcesses
<1>5. ResultsOf(d, v)' = ResultsOf(d, v)
  BY <1>3 DEF ResultsOf, LiveResults
<1>6. CASE r = 0 /\ jobDoc[worker[w].job] = d /\ worker[w].ver = v
  <2>1. ResultsOf(d, v) = {}
    BY <1>2, <1>6 DEF IsResultFor, ResultsOf, LiveResults, ResultIds
  <2>2. Cardinality(ResultsOf(d, v)') = 0
    BY <1>5, <2>1, FS_EmptySet
  <2>3. QED
    BY <2>2, CountsAreNumbers, CountsAreNumbersNext
<1>7. CASE ~(r = 0 /\ jobDoc[worker[w].job] = d /\ worker[w].ver = v)
  <2>1. StoringOf(d, v)' \subseteq StoringOf(d, v)
    BY <1>3, <1>4, <1>7 DEF StoringOf
  <2>2. QED
    BY <1>5, <2>1, FewerKept
<1>8. QED
  BY <1>6, <1>7

\* A task that stores its result is one less to store one.
LEMMA WithinStore ==
  ASSUME Typed, Grounded, IsFiniteSet(Workers), WithinProcesses, NEW w \in Workers, StoreResult(w)
  PROVE  WithinProcesses'
<1>1. worker \in [Workers -> WorkerStates] /\ worker[w] \in WorkerStates
      /\ result \in [ResultIds -> Results]
  BY DEF Typed, PipelineTypeOK, WorkerTypeOK, IngestTypeOK
<1>2. PICK n \in ResultIds : n = lastResult + 1
  BY IngestionAssumption DEF StoreResult, Typed, PipelineTypeOK, IngestTypeOK, ResultIds
<1>3. PICK row : /\ row.doc = jobDoc[worker[w].job] /\ row.ver = worker[w].ver
                 /\ result' = [result EXCEPT ![n] = row]
  BY <1>2 DEF StoreResult
<1>4. n \notin LiveResults
  <2>1. n > lastResult
    BY <1>2 DEF Typed, PipelineTypeOK, IngestTypeOK
  <2>2. QED
    BY <2>1 DEF Grounded, Fresh, LiveResults
<1>5. worker'[w].pc = "mark" /\ \A x \in Workers \ {w} : worker'[x] = worker[x]
  <2>1. worker' = [worker EXCEPT ![w].pc = "mark", ![w].res = lastResult + 1]
    BY DEF StoreResult
  <2>2. QED
    BY <1>1, <2>1 DEF WorkerStates
<1>6. jobDoc' = jobDoc /\ worker[w].pc = "store"
  BY DEF StoreResult, jobVars
<1> SUFFICES ASSUME NEW d \in Docs, NEW v \in 0..MaxVersion
             PROVE  Cardinality(ResultsOf(d, v)') + Cardinality(StoringOf(d, v)')
                      <= Cardinality(Workers)
  BY DEF WithinProcesses
<1>7. StoringOf(d, v)' = StoringOf(d, v) \ {w}
  BY <1>5, <1>6 DEF StoringOf
<1>8. CASE jobDoc[worker[w].job] = d /\ worker[w].ver = v
  <2>1. ResultsOf(d, v)' \subseteq ResultsOf(d, v) \cup {n}
    BY <1>1, <1>3 DEF ResultsOf, LiveResults
  <2>2. n \notin ResultsOf(d, v) /\ w \in StoringOf(d, v)
    BY <1>4, <1>6, <1>8 DEF ResultsOf, StoringOf
  <2>3. /\ IsFiniteSet(ResultsOf(d, v) \cup {n})
        /\ Cardinality(ResultsOf(d, v) \cup {n}) = Cardinality(ResultsOf(d, v)) + 1
    BY <2>2, CountsAreNumbers, FS_AddElement
  <2>4. Cardinality(ResultsOf(d, v)') <= Cardinality(ResultsOf(d, v)) + 1
    BY <2>1, <2>3, FS_Subset
  <2>5. Cardinality(StoringOf(d, v)') = Cardinality(StoringOf(d, v)) - 1
    BY <1>7, <2>2, CountsAreNumbers, FS_RemoveElement
  <2>6. Cardinality(ResultsOf(d, v)) + Cardinality(StoringOf(d, v)) <= Cardinality(Workers)
    BY DEF WithinProcesses
  <2>7. QED
    BY <2>4, <2>5, <2>6, CountsAreNumbers, CountsAreNumbersNext
<1>9. CASE ~(jobDoc[worker[w].job] = d /\ worker[w].ver = v)
  <2>1. ResultsOf(d, v)' \subseteq ResultsOf(d, v)
    BY <1>1, <1>3, <1>9 DEF ResultsOf, LiveResults
  <2>2. QED
    BY <1>7, <2>1, FewerKept
<1>10. QED
  BY <1>8, <1>9

\* OCR tasks: only the two steps above change what is counted.
LEMMA WithinOcr ==
  ASSUME Typed, Grounded, IsFiniteSet(Workers), WithinProcesses, Ocr
  PROVE  WithinProcesses'
<1> PICK w \in Workers : \/ \E j \in JobIds : Receive(w, j)
                         \/ OcrTask(w) \/ OcrFails(w) \/ WorkerCrash(w)
  BY DEF Ocr
<1>1. worker \in [Workers -> WorkerStates] /\ worker[w] \in WorkerStates
  BY DEF Typed, PipelineTypeOK, WorkerTypeOK
<1>2. ASSUME result' = result, jobDoc' = jobDoc, worker' = [worker EXCEPT ![w] = worker'[w]],
             worker' = worker \/ worker'[w].pc # "store"
      PROVE  WithinProcesses'
  <2>1. \A x \in Workers : worker'[x].pc = "store" => worker'[x] = worker[x]
    BY <1>1, <1>2
  <2>2. QED
    BY <1>2, <2>1, WithinKept
<1>3. ASSUME NEW j \in JobIds, Receive(w, j)
      PROVE  WithinProcesses'
  <2>1. worker' = [worker EXCEPT ![w] = worker'[w]]
    BY <1>1, <1>3 DEF Receive
  <2>2. worker' = worker \/ worker'[w].pc = "read"
    BY <1>1, <1>3, ZenonT(40) DEF Receive, IdleWorker
  <2>3. QED
    BY <1>2, <1>3, <2>1, <2>2 DEF Receive
<1>4. ASSUME NEW pc, Goto(w, pc) \/ EndTask(w), pc # "store", result' = result, jobDoc' = jobDoc
      PROVE  WithinProcesses'
  <2>1. worker'[w].pc # "store" /\ worker' = [worker EXCEPT ![w] = worker'[w]]
    BY <1>1, <1>4 DEF Goto, EndTask, IdleWorker, WorkerStates
  <2>2. QED
    BY <1>2, <1>4, <2>1
<1>5. CASE WorkerCrash(w) \/ MarkSucceeded(w) \/ OcrFails(w) \/ DrainGate(w)
  BY <1>4, <1>5
  DEF WorkerCrash, Raise, MarkSucceeded, OcrFails, DrainGate, ingestVars, jobVars
<1>6. CASE ReadVersion(w) \/ EnsureScanUnit(w) \/ CommitScanUnit(w) \/ Collect(w) \/ Release(w)
           \/ Except(w)
  <2>1. result' = result /\ jobDoc' = jobDoc
    BY <1>6
    DEF ReadVersion, EnsureScanUnit, CommitScanUnit, Collect, Release, Except, ingestVars, jobVars
  <2>2. worker'[w].pc # "store" /\ worker' = [worker EXCEPT ![w] = worker'[w]]
    BY <1>6, TaskGoesTo DEF OcrTask
  <2>3. QED
    BY <1>2, <2>1, <2>2
<1>7. ASSUME NEW s \in ScanIds, SendReleased(w, s)
      PROVE  WithinProcesses'
  <2>1. worker'[w].pc # "store" /\ worker' = [worker EXCEPT ![w] = worker'[w]]
    BY <1>7, TaskGoesTo DEF OcrTask
  <2>2. QED
    BY <1>2, <1>7, <2>1 DEF SendReleased, ingestVars, jobVars
<1>8. QED
  BY <1>3, <1>5, <1>6, <1>7, WithinRunOcr, WithinStore DEF OcrTask

\* Messages, replays and repeated uploads of any number never leave more results of
\* one version than there are OCR processes, whatever order the tasks look and store
\* in and whatever is deleted meanwhile.
THEOREM ResultsStayWithinProcesses ==
  ASSUME IsFiniteSet(Workers)
  PROVE  Spec => []ResultsWithinProcesses
<1>1. Init => WithinProcesses
  <2> SUFFICES ASSUME Init, NEW d \in Docs, NEW v \in 0..MaxVersion
               PROVE  Cardinality(ResultsOf(d, v)) + Cardinality(StoringOf(d, v))
                        <= Cardinality(Workers)
    BY DEF WithinProcesses
  <2>1. ResultsOf(d, v) = {}
    BY DEF Init, IngestInit, ResultsOf, LiveResults, NoResult
  <2>2. QED
    BY <2>1, FS_EmptySet, CountsAreNumbers
<1>2. Typed /\ Grounded /\ WithinProcesses /\ [Next]_vars => WithinProcesses'
  <2> SUFFICES ASSUME Typed, Grounded, WithinProcesses, [Next]_vars PROVE WithinProcesses'
    OBVIOUS
  <2>1. CASE EnsuringKnowledge \/ LosingEnsurer \/ Knowledge \/ UNCHANGED vars
    BY <2>1, KnowledgeIsElsewhere, WithinKept
  <2>2. QED
    BY <2>1, WithinApi, WithinOcr DEF Next
<1>3. WithinProcesses => ResultsWithinProcesses
  <2> SUFFICES ASSUME WithinProcesses, NEW d \in Docs, NEW v \in 0..MaxVersion
               PROVE  Cardinality(ResultsOf(d, v)) <= Cardinality(Workers)
    BY DEF ResultsWithinProcesses
  <2>1. Cardinality(ResultsOf(d, v)) + Cardinality(StoringOf(d, v)) <= Cardinality(Workers)
    BY DEF WithinProcesses
  <2>2. QED
    BY <2>1, CountsAreNumbers
<1>4. QED
  BY TypedInvariant, GroundedInvariant, <1>1, <1>2, <1>3, PTL DEF Spec
=============================================================================
