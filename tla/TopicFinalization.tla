-------------------------- MODULE TopicFinalization --------------------------
(***************************************************************************)
(* The two tasks of the knowledge worker for one scan unit, from the       *)
(* pipeline run on: process_scan_unit_task replaces the document units and *)
(* makes and sends the specialist jobs, then a topic_finalization job;     *)
(* finalize_scan_topics_task waits for the specialists, under an advisory  *)
(* lock, and gives every unit its topics.                                  *)
(*                                                                         *)
(* The gate in front of the pipeline and the full_processing job are in    *)
(* KnowledgeWorker; here a message for the scan is just there.             *)
(***************************************************************************)
EXTENDS SpecialistJobs

CONSTANTS
  Tasks,        \* Celery slots of the knowledge worker (its concurrency)
  NoTask,       \* nobody holds the lock
  MaxRuns,      \* bound: pipeline runs committed
  MaxScanMsgs,  \* bound: messages for the scan that others send
  MaxKRetries,  \* max_retries of process_scan_unit_task
  MaxFRetries,  \* max_retries of finalize_scan_topics_task
  MaxFJobs,     \* bound: topic_finalization rows ever inserted
  MaxFailures   \* bound: pipeline runs and finalizations that raise

ASSUME FinalizationAssumption ==
  /\ NoTask \notin Tasks
  /\ MaxRuns \in Nat /\ MaxScanMsgs \in Nat /\ MaxKRetries \in Nat /\ MaxFRetries \in Nat
  /\ MaxFJobs \in Nat /\ MaxFailures \in Nat

VARIABLES
  runs,       \* pipeline runs committed so far
  scanq,      \* retries used -> process_scan_unit_task messages in the broker
  sent,       \* messages for the scan sent by others so far
  topics,     \* units that have been given topics
  fStatus,    \* topic_finalization job -> status column ("absent": no such row)
  lastFJob,   \* topic_finalization jobs inserted so far
  finalq,     \* retries used -> finalize_scan_topics_task messages in the broker
  lock,       \* the slot whose connection holds the scan's advisory lock
  task,       \* slot -> the task it is running
  failures    \* pipeline runs and finalizations that raised so far

finalVars == <<runs, scanq, sent, topics, fStatus, lastFJob, finalq, lock, task, failures>>
vars == <<specialistVars, finalVars>>

FJobIds == 1..MaxFJobs
FStatuses == {"absent", "queued", "pending", "processing", "succeeded", "failed"}
ScanPcs == {"pipeline", "ensure", "jobs", "dispatch", "find", "insert", "notify", "scanfail"}
FinalPcs == {"begin", "check", "assign", "refresh", "release", "defer", "resend", "fail", "retry"}
TaskStates == [pc: {"idle"} \cup ScanPcs \cup FinalPcs, retries: Nat, units: SUBSET UnitIds,
               send: SUBSET SJobIds, fjob: 0..MaxFJobs]
IdleTask == [pc |-> "idle", retries |-> 0, units |-> {}, send |-> {}, fjob |-> 0]

FinalTypeOK ==
  /\ SpecialistTypeOK
  /\ runs \in 0..MaxRuns
  /\ scanq \in [0..MaxKRetries -> Nat]
  /\ sent \in 0..MaxScanMsgs
  /\ topics \subseteq UnitIds
  /\ fStatus \in [FJobIds -> FStatuses]
  /\ lastFJob \in 0..MaxFJobs
  /\ finalq \in [0..MaxFRetries -> Nat]
  /\ lock \in Tasks \cup {NoTask}
  /\ task \in [Tasks -> TaskStates]
  /\ failures \in 0..MaxFailures

Init ==
  /\ SpecialistInit
  /\ runs = 0
  /\ scanq = [r \in 0..MaxKRetries |-> 0]
  /\ sent = 0
  /\ topics = {}
  /\ fStatus = [f \in FJobIds |-> "absent"]
  /\ lastFJob = 0
  /\ finalq = [r \in 0..MaxFRetries |-> 0]
  /\ lock = NoTask
  /\ task = [t \in Tasks |-> IdleTask]
  /\ failures = 0

TGoto(t, pc) == task' = [task EXCEPT ![t].pc = pc]
TEnd(t) == task' = [task EXCEPT ![t] = IdleTask]

\* _get_latest_knowledge_job of type topic_finalization, and its status.
NewestFinal == IF lastFJob = 0 THEN "absent" ELSE fStatus[lastFJob]
WriteNewestFinal(status) ==
  fStatus' = IF lastFJob = 0 THEN fStatus ELSE [fStatus EXCEPT ![lastFJob] = status]

-----------------------------------------------------------------------------
(* process_scan_unit_task. *)

\* Ingestion, ensure or a replay sends a message for the scan.
ScanMessage ==
  /\ sent < MaxScanMsgs
  /\ sent' = sent + 1
  /\ scanq' = [scanq EXCEPT ![0] = @ + 1]
  /\ UNCHANGED <<specialistVars, runs, topics, fStatus, lastFJob, finalq, lock, task, failures>>

\* The pipeline starts by reading the units that are there (_reset_scan_unit_outputs).
StartPipeline(t, r) ==
  /\ task[t].pc = "idle"
  /\ scanq[r] > 0
  /\ runs + Cardinality({v \in Tasks : task[v].pc = "pipeline"}) < MaxRuns
  /\ scanq' = [scanq EXCEPT ![r] = @ - 1]
  /\ task' = [task EXCEPT ![t] = [pc |-> "pipeline", retries |-> r, units |-> LiveUnits,
                                  send |-> {}, fjob |-> 0]]
  /\ UNCHANGED <<specialistVars, runs, sent, topics, fStatus, lastFJob, finalq, lock, failures>>

\* (Mutant: the jobs of the old units are not deleted with them.)
KeepOldJobs(old, new, R) ==
  /\ lastUnit' = lastUnit + Cardinality(new)
  /\ unitRun' = [u \in UnitIds |-> IF u \in new THEN runs + 1 ELSE IF u \in old THEN 0 ELSE unitRun[u]]
  /\ routed' = (routed \ old) \cup R
  /\ results' = [u \in UnitIds |-> IF u \in old THEN 0 ELSE results[u]]
  /\ UNCHANGED sStatus
  /\ topics' = topics \ old

\* The tables as they are when the units in old are gone, with everything that
\* hangs on them, and n new ones are there, of which those in R are routed.
ReplaceUnits(old, new, R) ==
  /\ lastUnit' = lastUnit + Cardinality(new)
  /\ unitRun' = [u \in UnitIds |-> IF u \in new THEN runs + 1 ELSE IF u \in old THEN 0 ELSE unitRun[u]]
  /\ routed' = (routed \ old) \cup R
  /\ results' = [u \in UnitIds |-> IF u \in old THEN 0 ELSE results[u]]
  /\ sStatus' = [j \in SJobIds |-> IF sUnit[j] \in old THEN "absent" ELSE sStatus[j]]
  /\ topics' = topics \ old

\* Its commit replaces them, in one transaction; the rows of a run that committed
\* meanwhile are not among those it has read, and stay.
CommitPipeline(t) ==
  /\ task[t].pc = "pipeline"
  /\ runs' = runs + 1
  /\ \E n \in 1 .. (MaxUnits - lastUnit) - (MaxRuns - runs'):   \* later runs need a unit
       \E R \in SUBSET (lastUnit + 1 .. lastUnit + n) :
         ReplaceUnits(task[t].units, lastUnit + 1 .. lastUnit + n, R)
  /\ TGoto(t, "ensure")
  /\ UNCHANGED <<sUnit, lastSJob, squeue, client, spec, calls, sfailures, crashes,
                 scanq, sent, fStatus, lastFJob, finalq, lock, failures>>

\* The pipeline raises, or the broker refuses a message of the task later.
ScanFails(t) ==
  /\ \/ /\ task[t].pc = "pipeline"
        /\ failures < MaxFailures
        /\ failures' = failures + 1
        /\ UNCHANGED crashes
     \/ /\ task[t].pc \in {"dispatch", "notify"}
        /\ crashes < MaxCrashes
        /\ crashes' = crashes + 1
        /\ UNCHANGED failures
  /\ TGoto(t, "scanfail")
  /\ UNCHANGED <<unitVars, sjobVars, squeue, results, client, spec, calls, sfailures,
                 runs, scanq, sent, topics, fStatus, lastFJob, finalq, lock>>

\* self.retry: the whole task is run again, or given up.
RetryScan(t) ==
  LET r == task[t].retries
  IN  /\ task[t].pc = "scanfail"
      /\ scanq' = IF r < MaxKRetries THEN [scanq EXCEPT ![r + 1] = @ + 1] ELSE scanq
      /\ TEnd(t)
      /\ UNCHANGED <<specialistVars, runs, sent, topics, fStatus, lastFJob, finalq, lock, failures>>

\* ensure_specialist_jobs_for_scan_unit over whatever units the scan has now.
EnsureJobs(t) ==
  /\ task[t].pc = "ensure"
  /\ task' = [task EXCEPT ![t].pc = IF EnsureRaises THEN "scanfail" ELSE "jobs",
                          ![t].units = IF EnsureRaises THEN {} ELSE Missing]
  /\ UNCHANGED <<specialistVars, runs, scanq, sent, topics, fStatus, lastFJob, finalq, lock, failures>>

CommitJobs(t) ==
  /\ task[t].pc = "jobs"
  /\ \/ /\ Committable(task[t].units)
        /\ InsertJobs(task[t].units)
        /\ task' = [task EXCEPT ![t].pc = IF task[t].units = {} THEN "find" ELSE "dispatch",
                                ![t].units = {}, ![t].send = NewJobs(task[t].units)]
     \/ /\ ~Committable(task[t].units)
        /\ TGoto(t, "scanfail")
        /\ UNCHANGED sjobVars
  /\ UNCHANGED <<unitVars, squeue, results, client, spec, calls, sfailures, crashes,
                 runs, scanq, sent, topics, fStatus, lastFJob, finalq, lock, failures>>

DispatchJob(t, j) ==
  /\ task[t].pc = "dispatch"
  /\ j \in task[t].send
  /\ SendJob(j, 0)
  /\ task' = IF task[t].send = {j} THEN [task EXCEPT ![t].send = {}, ![t].pc = "find"]
              ELSE [task EXCEPT ![t].send = @ \ {j}]
  /\ UNCHANGED <<unitVars, sjobVars, results, client, spec, calls, sfailures, crashes,
                 runs, scanq, sent, topics, fStatus, lastFJob, finalq, lock, failures>>

\* _ensure_topic_finalization_job: a job that is waiting, running or succeeded will
\* do; else another one is inserted.
FindFinalJob(t) ==
  /\ task[t].pc = "find"
  /\ TGoto(t, IF NewestFinal \in {"absent", "failed"} THEN "insert" ELSE "notify")
  /\ UNCHANGED <<specialistVars, runs, scanq, sent, topics, fStatus, lastFJob, finalq, lock, failures>>

InsertFinalJob(t) ==
  /\ task[t].pc = "insert"
  /\ lastFJob < MaxFJobs
  /\ lastFJob' = lastFJob + 1
  /\ fStatus' = [fStatus EXCEPT ![lastFJob + 1] = "queued"]
  /\ TGoto(t, "notify")
  /\ UNCHANGED <<specialistVars, runs, scanq, sent, topics, finalq, lock, failures>>

\* The finalization message, with a countdown of five seconds.
Notify(t) ==
  /\ task[t].pc = "notify"
  /\ finalq' = [finalq EXCEPT ![0] = @ + 1]
  /\ TEnd(t)
  /\ UNCHANGED <<specialistVars, runs, scanq, sent, topics, fStatus, lastFJob, lock, failures>>

-----------------------------------------------------------------------------
(* finalize_scan_topics_task. *)

FinalUnchanged == UNCHANGED <<runs, scanq, sent>>

\* pg_try_advisory_lock: a message that finds the lock taken is dropped.
FinalReceive(t, r) ==
  /\ task[t].pc = "idle"
  /\ finalq[r] > 0
  /\ finalq' = [finalq EXCEPT ![r] = @ - 1]
  /\ \/ /\ lock = NoTask
        /\ lock' = t
        /\ task' = [task EXCEPT ![t] = [pc |-> "begin", retries |-> r, units |-> {},
                                        send |-> {}, fjob |-> 0]]
     \/ /\ lock # NoTask
        /\ UNCHANGED <<lock, task>>
  /\ UNCHANGED <<specialistVars, topics, fStatus, lastFJob, failures>>
  /\ FinalUnchanged

\* A scan whose newest job succeeded is done; else its job is marked, or made.
Begin(t) ==
  /\ task[t].pc = "begin"
  /\ \/ /\ NewestFinal = "succeeded"
        /\ TGoto(t, "release")
        /\ UNCHANGED <<fStatus, lastFJob>>
     \/ /\ NewestFinal = "absent"
        /\ lastFJob < MaxFJobs
        /\ lastFJob' = lastFJob + 1
        /\ fStatus' = [fStatus EXCEPT ![lastFJob + 1] = "processing"]
        /\ task' = [task EXCEPT ![t].pc = "check", ![t].fjob = lastFJob + 1]
     \/ /\ NewestFinal \notin {"absent", "succeeded"}
        /\ WriteNewestFinal("processing")
        /\ task' = [task EXCEPT ![t].pc = "check", ![t].fjob = lastFJob]
        /\ UNCHANGED lastFJob
  /\ UNCHANGED <<specialistVars, topics, finalq, lock, failures>>
  /\ FinalUnchanged

\* finalize_scan_topics: no units raises a ValueError, an active specialist job of
\* one of them a RuntimeError. The model calls that follow may raise either.
Check(t) ==
  /\ task[t].pc = "check"
  /\ \/ /\ LiveUnits = {}
        /\ TGoto(t, "fail")
        /\ UNCHANGED failures
     \/ /\ \E u \in LiveUnits : ActiveJobsOf(u) # {}
        /\ TGoto(t, "defer")
        /\ UNCHANGED failures
     \/ /\ LiveUnits # {}
        /\ \A u \in LiveUnits : ActiveJobsOf(u) = {}
        /\ task' = [task EXCEPT ![t].pc = "assign", ![t].units = LiveUnits]
        /\ UNCHANGED failures
     \/ /\ failures < MaxFailures
        /\ failures' = failures + 1
        /\ TGoto(t, "fail") \/ TGoto(t, "defer")
  /\ UNCHANGED <<specialistVars, topics, fStatus, lastFJob, finalq, lock>>
  /\ FinalUnchanged

\* Topics, review statuses and the job are committed together for the units that
\* were read; one that has been deleted since raises. Some units need review now
\* and are no candidates any more.
AssignTopics(t) ==
  /\ task[t].pc = "assign"
  /\ \/ /\ task[t].units \subseteq LiveUnits
        /\ topics' = topics \cup task[t].units
        /\ \E R \in SUBSET task[t].units : routed' = routed \ R
        /\ fStatus' = [fStatus EXCEPT ![task[t].fjob] = "succeeded"]
        /\ TGoto(t, "refresh")
     \/ /\ ~(task[t].units \subseteq LiveUnits)
        /\ TGoto(t, "fail")
        /\ UNCHANGED <<topics, routed, fStatus>>
  /\ UNCHANGED <<unitRun, lastUnit, sjobVars, squeue, results, client, spec, calls, sfailures,
                 crashes, lastFJob, finalq, lock, failures>>
  /\ FinalUnchanged

\* The message that refreshes the search index; the broker may refuse it, and the
\* except branch then fails the job that has just succeeded.
Refresh(t) ==
  /\ task[t].pc = "refresh"
  /\ \/ /\ TGoto(t, "release")
        /\ UNCHANGED crashes
     \/ /\ crashes < MaxCrashes
        /\ crashes' = crashes + 1
        /\ TGoto(t, "fail")
  /\ UNCHANGED <<unitVars, sjobVars, squeue, results, client, spec, calls, sfailures,
                 topics, fStatus, lastFJob, finalq, lock, failures>>
  /\ FinalUnchanged

\* The finally clause.
Unlock(t) ==
  /\ task[t].pc = "release"
  /\ lock' = NoTask
  /\ TEnd(t)
  /\ UNCHANGED <<specialistVars, topics, fStatus, lastFJob, finalq, failures>>
  /\ FinalUnchanged

\* RuntimeError: the newest job waits for a new message, whose countdown of fifteen
\* seconds outlasts the release of the lock.
Defer(t) ==
  /\ task[t].pc = "defer"
  /\ WriteNewestFinal("pending")
  /\ TGoto(t, "resend")
  /\ UNCHANGED <<specialistVars, topics, lastFJob, finalq, lock, failures>>
  /\ FinalUnchanged

DropDeferredFinal(t) ==   \* (Mutant: the new message is not sent.)
  /\ task[t].pc = "resend"
  /\ lock' = NoTask
  /\ TEnd(t)
  /\ UNCHANGED <<specialistVars, topics, fStatus, lastFJob, finalq, failures>>
  /\ FinalUnchanged

Resend(t) ==
  /\ task[t].pc = "resend"
  /\ finalq' = [finalq EXCEPT ![0] = @ + 1]
  /\ lock' = NoTask
  /\ TEnd(t)
  /\ UNCHANGED <<specialistVars, topics, fStatus, lastFJob, failures>>
  /\ FinalUnchanged

\* Any other exception: the newest job fails, and the task is retried or given up.
FinalFails(t) ==
  /\ task[t].pc = "fail"
  /\ WriteNewestFinal("failed")
  /\ TGoto(t, IF task[t].retries < MaxFRetries THEN "retry" ELSE "release")
  /\ UNCHANGED <<specialistVars, topics, lastFJob, finalq, lock, failures>>
  /\ FinalUnchanged

RetryFinal(t) ==
  /\ task[t].pc = "retry"
  /\ finalq' = [finalq EXCEPT ![task[t].retries + 1] = @ + 1]
  /\ lock' = NoTask
  /\ TEnd(t)
  /\ UNCHANGED <<specialistVars, topics, fStatus, lastFJob, failures>>
  /\ FinalUnchanged

\* The process dies with its message, and its connection with its lock.
TaskCrash(t) ==
  /\ task[t].pc # "idle"
  /\ crashes < MaxCrashes
  /\ crashes' = crashes + 1
  /\ lock' = IF lock = t THEN NoTask ELSE lock
  /\ TEnd(t)
  /\ UNCHANGED <<unitVars, sjobVars, squeue, results, client, spec, calls, sfailures,
                 runs, scanq, sent, topics, fStatus, lastFJob, finalq, failures>>

-----------------------------------------------------------------------------
(* The whole. *)

ScanTask(t) ==
  \/ CommitPipeline(t) \/ RetryScan(t) \/ EnsureJobs(t) \/ CommitJobs(t)
  \/ (\E j \in SJobIds : DispatchJob(t, j))
  \/ FindFinalJob(t) \/ InsertFinalJob(t) \/ Notify(t)

FinalTask(t) ==
  \/ Begin(t) \/ Check(t) \/ AssignTopics(t) \/ Refresh(t) \/ Unlock(t)
  \/ Defer(t) \/ Resend(t) \/ FinalFails(t) \/ RetryFinal(t)

TReceive(t) ==
  \/ \E r \in 0..MaxKRetries : StartPipeline(t, r)
  \/ \E r \in 0..MaxFRetries : FinalReceive(t, r)

SpecialistStep ==
  \/ \E c \in Clients : \/ EnsureSpecialists(c) \/ ClientCommit(c) \/ ClientCrash(c)
                        \/ \E u \in UnitIds : ReviewUnit(c, u)
                        \/ \E j \in SJobIds : ReplaySpecialist(c, j) \/ ClientSend(c, j)
  \/ \E p \in Specialists : \/ Extraction(p) \/ SpecialistCrash(p)
                            \/ \E m \in SMessages : SReceive(p, m)

Next ==
  \/ SpecialistStep /\ UNCHANGED finalVars
  \/ ScanMessage
  \/ \E t \in Tasks : TReceive(t) \/ ScanTask(t) \/ ScanFails(t) \/ FinalTask(t) \/ TaskCrash(t)

Spec == Init /\ [][Next]_vars

\* A slot that can go on does, the broker delivers, and a handler that has begun
\* ends. Nobody need call a handler, and nothing need fail.
Fairness ==
  /\ \A t \in Tasks : /\ WF_vars(ScanTask(t))
                      /\ WF_vars(FinalTask(t))
                      /\ WF_vars(TReceive(t))
  /\ \A p \in Specialists :
       /\ WF_vars(Extraction(p) /\ UNCHANGED finalVars)
       /\ WF_vars((\E m \in SMessages : SReceive(p, m)) /\ UNCHANGED finalVars)
  /\ \A c \in Clients :
       WF_vars((ClientCommit(c) \/ \E j \in SJobIds : ClientSend(c, j)) /\ UNCHANGED finalVars)

FairSpec == Spec /\ Fairness

-----------------------------------------------------------------------------
(* Properties. *)

HasMessage(j) == \E r \in 0..MaxSRetries : squeue[<<j, r>>] > 0
HasSender(j) == \/ \E c \in Clients : j \in client[c].send
                \/ \E t \in Tasks : j \in task[t].send
HasTask(j) == \E p \in Specialists : spec[p].job = j

\* Without crashes a specialist job shown as queued or processing has a message, a
\* handler or task about to send it, or a process that runs it, however deletions,
\* replays and retries interleave with it (dispatch, retry and the two writes of
\* process_specialist_job).
ActiveSpecialistIsDriven ==
  crashes = 0 => \A j \in SJobIds : sStatus[j] \in SActive => HasMessage(j) \/ HasSender(j) \/ HasTask(j)

\* A job says succeeded only when its unit has a result, although the two are
\* written in two transactions and the pipeline deletes units between them.
SucceededSpecialistHasResult ==
  \A j \in SJobIds : sStatus[j] = "succeeded" => results[sUnit[j]] > 0

\* Every job goes through the life that JobLife promises: no step of a handler, of a
\* retry or of a second message brings back a job that succeeded or skips a state.
LifeOf(j) ==
  IF j > lastSJob THEN "new" ELSE IF sStatus[j] = "absent" THEN "gone" ELSE sStatus[j]
Life == INSTANCE JobLife WITH Jobs <- SJobIds, st <- [j \in SJobIds |-> LifeOf(j)]
JobsFollowLife == Life!Spec

FinalizationIsUnderWay ==
  \/ \E r \in 0..MaxFRetries : finalq[r] > 0
  \/ \E t \in Tasks : task[t].pc # "idle"
  \/ \E r \in 0..MaxKRetries : scanq[r] > 0

\* A finalization has ended, for good or not.
FinalizationEnded == \E f \in FJobIds : fStatus[f] \in {"succeeded", "failed"}

\* Two jobs of one unit that both stored a result: whoever looks for the result of
\* that unit raises from then on, and a scan task that ensures its jobs gives up.
ResultStoredTwice == \E u \in UnitIds : results[u] > 1

\* Without crashes, a scan with units has something on its way to give them topics,
\* unless a finalization has ended or a result was stored twice: messages that find
\* the lock taken are dropped, a deferral writes whatever job is the newest, and a
\* task whose units another run has deleted is retried or given up.
FinalizationIsDriven ==
  crashes = 0 /\ ~ LiveUnits \subseteq topics =>
    FinalizationIsUnderWay \/ FinalizationEnded \/ ResultStoredTwice

\* Under fairness each unit gets its topics or is replaced, unless a process dies, a
\* finalization has ended before or a result was stored twice: the chain of
\* deferrals that waits for the specialist jobs ends.
UnitsGetTopics ==
  \A u \in UnitIds :
    unitRun[u] # 0 ~> \/ u \in topics \/ unitRun[u] = 0 \/ crashes > 0
                     \/ FinalizationEnded \/ ResultStoredTwice

\* docs/extraction_schema.md says that finalization gives a scan its topics once the
\* specialists are done: when nothing is under way and nothing went wrong, every unit
\* has topics.
QuietScanHasTopics ==
  (/\ ~FinalizationIsUnderWay /\ crashes = 0 /\ failures = 0
   /\ \A f \in FJobIds : fStatus[f] # "failed")
    => LiveUnits \subseteq topics
=============================================================================
