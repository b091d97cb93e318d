---------------------------- MODULE SpecialistJobs ----------------------------
(***************************************************************************)
(* Specialist extraction: the document units of one scan, the              *)
(* specialist_jobs and specialist_results tables, the two ways a job is    *)
(* made (ensure_specialist_jobs_for_scan_unit and the replay of a failed   *)
(* job), and the Celery task process_specialist_job with its retries.      *)
(*                                                                         *)
(* Only routed units, those some specialist is a candidate for, ever get a *)
(* job; one capability stands for all of them, since jobs of different     *)
(* capabilities share nothing but their unit.                              *)
(***************************************************************************)
EXTENDS Naturals, FiniteSets

CONSTANTS
  Clients,      \* handlers of ensure-specialists and of the replay of a job
  Specialists,  \* Celery processes serving process_specialist_job
  MaxUnits,     \* bound: rows ever inserted in document_units
  MaxSJobs,     \* bound: rows ever inserted in specialist_jobs
  MaxSRetries,  \* max_retries of process_specialist_job
  MaxSFailures, \* bound: extractions that raise
  MaxCalls,     \* bound: calls served by Clients
  MaxCrashes    \* bound: processes that die half way

ASSUME SpecialistAssumption ==
  /\ MaxUnits \in Nat /\ MaxSJobs \in Nat /\ MaxSRetries \in Nat
  /\ MaxSFailures \in Nat /\ MaxCalls \in Nat /\ MaxCrashes \in Nat

VARIABLES
  unitRun,   \* unit -> the pipeline run that made it (0: no such row)
  routed,    \* units that a specialist is a candidate for
  lastUnit,  \* units inserted so far
  sUnit,     \* specialist job -> its unit (kept when the row is deleted)
  sStatus,   \* specialist job -> status column ("absent": no such row)
  lastSJob,  \* specialist jobs inserted so far
  squeue,    \* <<job, retries>> -> process_specialist_job messages in the broker
  results,   \* unit -> its rows in specialist_results
  client,    \* handler -> where it is
  spec,      \* specialist process -> the task it is running
  calls, sfailures, crashes   \* uses made of the bounds

unitVars == <<unitRun, routed, lastUnit>>
sjobVars == <<sUnit, sStatus, lastSJob>>
specialistVars == <<unitVars, sjobVars, squeue, results, client, spec, calls, sfailures, crashes>>

UnitIds == 1..MaxUnits
SJobIds == 1..MaxSJobs
SMessages == SJobIds \X (0..MaxSRetries)
SActive == {"queued", "processing"}
SStatuses == SActive \cup {"succeeded", "failed", "absent"}
ClientStates == [pc: {"idle", "commit", "send"}, plan: SUBSET UnitIds, send: SUBSET SJobIds]
IdleClient == [pc |-> "idle", plan |-> {}, send |-> {}]
SpecStates == [pc: {"idle", "extract", "look", "store", "mark", "fail", "retry"},
               job: 0..MaxSJobs, retries: 0..MaxSRetries, found: BOOLEAN]
IdleSpec == [pc |-> "idle", job |-> 0, retries |-> 0, found |-> FALSE]

SpecialistTypeOK ==
  /\ unitRun \in [UnitIds -> Nat]
  /\ routed \subseteq UnitIds
  /\ lastUnit \in 0..MaxUnits
  /\ sUnit \in [SJobIds -> 0..MaxUnits]
  /\ sStatus \in [SJobIds -> SStatuses]
  /\ lastSJob \in 0..MaxSJobs
  /\ squeue \in [SMessages -> Nat]
  /\ results \in [UnitIds -> Nat]
  /\ client \in [Clients -> ClientStates]
  /\ spec \in [Specialists -> SpecStates]
  /\ calls \in 0..MaxCalls
  /\ sfailures \in 0..MaxSFailures
  /\ crashes \in 0..MaxCrashes

SpecialistInit ==
  /\ unitRun = [u \in UnitIds |-> 0]
  /\ routed = {}
  /\ lastUnit = 0
  /\ sUnit = [j \in SJobIds |-> 0]
  /\ sStatus = [j \in SJobIds |-> "absent"]
  /\ lastSJob = 0
  /\ squeue = [m \in SMessages |-> 0]
  /\ results = [u \in UnitIds |-> 0]
  /\ client = [c \in Clients |-> IdleClient]
  /\ spec = [p \in Specialists |-> IdleSpec]
  /\ calls = 0
  /\ sfailures = 0
  /\ crashes = 0

-----------------------------------------------------------------------------
(* Making jobs. *)

LiveUnits == {u \in UnitIds : unitRun[u] # 0}
JobsOf(u) == {j \in SJobIds : sUnit[j] = u /\ sStatus[j] # "absent"}
ActiveJobsOf(u) == {j \in JobsOf(u) : sStatus[j] \in SActive}
NewestFailed(u) == \A j \in JobsOf(u) : (\A i \in JobsOf(u) : i <= j) => sStatus[j] = "failed"

\* Units that ensure_specialist_jobs_for_scan_unit makes a job for: the newest job
\* is failed, or there is none, and no result of the same input is there.
Missing == {u \in LiveUnits \cap routed : NewestFailed(u) /\ results[u] = 0}

\* scalar_one_or_none over a unit's results raises when there are two.
EnsureRaises == \E u \in LiveUnits \cap routed : NewestFailed(u) /\ results[u] > 1

\* The rows that commit for the units in plan, in the order of the units, and the
\* identifiers they get.
NewJobs(plan) == lastSJob + 1 .. lastSJob + Cardinality(plan)
UnitOfNew(plan, j) ==
  CHOOSE u \in plan : Cardinality({v \in plan : v <= u}) = j - lastSJob

\* The commit is refused by the foreign key when a unit has been deleted since.
Committable(plan) == plan \subseteq LiveUnits

\* (Mutant: a status that this table does not know.)
InsertPendingJobs(plan) ==
  /\ lastSJob + Cardinality(plan) <= MaxSJobs
  /\ lastSJob' = lastSJob + Cardinality(plan)
  /\ sUnit' = [j \in SJobIds |-> IF j \in NewJobs(plan) THEN UnitOfNew(plan, j) ELSE sUnit[j]]
  /\ sStatus' = [j \in SJobIds |-> IF j \in NewJobs(plan) THEN "pending" ELSE sStatus[j]]

InsertJobs(plan) ==
  /\ lastSJob + Cardinality(plan) <= MaxSJobs
  /\ lastSJob' = lastSJob + Cardinality(plan)
  /\ sUnit' = [j \in SJobIds |-> IF j \in NewJobs(plan) THEN UnitOfNew(plan, j) ELSE sUnit[j]]
  /\ sStatus' = [j \in SJobIds |-> IF j \in NewJobs(plan) THEN "queued" ELSE sStatus[j]]

SendJob(j, r) == squeue' = [squeue EXCEPT ![<<j, r>>] = @ + 1]

-----------------------------------------------------------------------------
(* The HTTP handlers. *)

AcceptCall(c) ==
  /\ client[c].pc = "idle"
  /\ calls < MaxCalls
  /\ calls' = calls + 1

\* POST /documents/{id}/ensure-specialists: what is missing is read ...
EnsureSpecialists(c) ==
  /\ AcceptCall(c)
  /\ Missing # {}
  /\ ~EnsureRaises
  /\ client' = [client EXCEPT ![c] = [pc |-> "commit", plan |-> Missing, send |-> {}]]
  /\ UNCHANGED <<unitVars, sjobVars, squeue, results, spec, sfailures, crashes>>

\* A reviewer settles a unit, which then is no candidate any more: its review
\* status is no longer auto_accepted.
ReviewUnit(c, u) ==
  /\ AcceptCall(c)
  /\ u \in LiveUnits \cap routed
  /\ routed' = routed \ {u}
  /\ UNCHANGED <<unitRun, lastUnit, sjobVars, squeue, results, client, spec, sfailures, crashes>>

\* POST /jobs/specialists/{id}/replay of a failed job whose unit has no active one.
ReplaySpecialist(c, j) ==
  /\ AcceptCall(c)
  /\ sStatus[j] = "failed"
  /\ ActiveJobsOf(sUnit[j]) = {}
  /\ client' = [client EXCEPT ![c] = [pc |-> "commit", plan |-> {sUnit[j]}, send |-> {}]]
  /\ UNCHANGED <<unitVars, sjobVars, squeue, results, spec, sfailures, crashes>>

\* ... and written later: nothing is locked, no constraint makes a job unique.
ClientCommit(c) ==
  /\ client[c].pc = "commit"
  /\ \/ /\ Committable(client[c].plan)
        /\ InsertJobs(client[c].plan)
        /\ client' = [client EXCEPT ![c] = [pc |-> "send", plan |-> {},
                                            send |-> NewJobs(client[c].plan)]]
     \/ /\ ~Committable(client[c].plan)
        /\ client' = [client EXCEPT ![c] = IdleClient]
        /\ UNCHANGED sjobVars
  /\ UNCHANGED <<unitVars, squeue, results, spec, calls, sfailures, crashes>>

\* dispatch_specialist_job, one message after the other. The replay reads its job
\* again first, and raises when it has been deleted.
ClientSend(c, j) ==
  /\ client[c].pc = "send"
  /\ j \in client[c].send
  /\ SendJob(j, 0) \/ (sStatus[j] = "absent" /\ UNCHANGED squeue)
  /\ client' = IF client[c].send = {j} THEN [client EXCEPT ![c] = IdleClient]
               ELSE [client EXCEPT ![c].send = @ \ {j}]
  /\ UNCHANGED <<unitVars, sjobVars, results, spec, calls, sfailures, crashes>>

\* The API process dies, or the broker refuses the message.
ClientCrash(c) ==
  /\ client[c].pc # "idle"
  /\ crashes < MaxCrashes
  /\ crashes' = crashes + 1
  /\ client' = [client EXCEPT ![c] = IdleClient]
  /\ UNCHANGED <<unitVars, sjobVars, squeue, results, spec, calls, sfailures>>

-----------------------------------------------------------------------------
(* process_specialist_job. *)

SGoto(p, pc) == spec' = [spec EXCEPT ![p].pc = pc]
SEndTask(p) == spec' = [spec EXCEPT ![p] = IdleSpec]

\* (Mutant: a deleted job is written as if it were there.)
WriteDeletedJob(j, status) == sStatus' = [sStatus EXCEPT ![j] = status]

\* _update_specialist_job: a job that was deleted is left alone.
WriteJob(j, status) ==
  sStatus' = IF sStatus[j] = "absent" THEN sStatus ELSE [sStatus EXCEPT ![j] = status]

\* What a task never writes.
SUnchanged == UNCHANGED <<unitVars, sUnit, lastSJob, client, calls, crashes>>

SReceive(p, m) ==
  /\ spec[p].pc = "idle"
  /\ squeue[m] > 0
  /\ squeue' = [squeue EXCEPT ![m] = @ - 1]
  /\ WriteJob(m[1], "processing")
  /\ spec' = [spec EXCEPT ![p] = [pc |-> "extract", job |-> m[1], retries |-> m[2], found |-> FALSE]]
  /\ UNCHANGED <<results, sfailures>>
  /\ SUnchanged

\* (Mutant: the extraction is outside the try, a handler that raises ends the task.)
ExtractOutsideTry(p) ==
  /\ spec[p].pc = "extract"
  /\ \/ sStatus[spec[p].job] # "absent" /\ SGoto(p, "look") /\ UNCHANGED sfailures
     \/ sfailures < MaxSFailures /\ sfailures' = sfailures + 1 /\ SEndTask(p)
  /\ UNCHANGED <<sStatus, squeue, results>>
  /\ SUnchanged

\* The job and its unit are read and the handler extracts; a job that was deleted
\* raises, and so may the handler.
Extract(p) ==
  /\ spec[p].pc = "extract"
  /\ \/ /\ sStatus[spec[p].job] # "absent"
        /\ SGoto(p, "look")
        /\ UNCHANGED sfailures
     \/ /\ sStatus[spec[p].job] = "absent"
        /\ SGoto(p, "fail")
        /\ UNCHANGED sfailures
     \/ /\ sfailures < MaxSFailures
        /\ sfailures' = sfailures + 1
        /\ SGoto(p, "fail")
  /\ UNCHANGED <<sStatus, squeue, results>>
  /\ SUnchanged

\* The unit's earlier result is looked for; two of them raise.
LookForResult(p) ==
  LET n == results[sUnit[spec[p].job]]
  IN  /\ spec[p].pc = "look"
      /\ spec' = [spec EXCEPT ![p].pc = IF n > 1 THEN "fail" ELSE "store", ![p].found = n = 1]
      /\ UNCHANGED <<sStatus, squeue, results, sfailures>>
      /\ SUnchanged

\* Links, result and projections are committed together; when the unit has been
\* deleted meanwhile, the foreign key (insert) or the missing row (update) raises.
StoreResult(p) ==
  LET u == sUnit[spec[p].job]
  IN  /\ spec[p].pc = "store"
      /\ \/ /\ u \in LiveUnits
            /\ results' = [results EXCEPT ![u] = IF spec[p].found THEN @ ELSE @ + 1]
            /\ SGoto(p, "mark")
         \/ /\ u \notin LiveUnits
            /\ SGoto(p, "fail")
            /\ UNCHANGED results
      /\ UNCHANGED <<sStatus, squeue, sfailures>>
      /\ SUnchanged

\* The job is marked; reading it for the answer raises when it has been deleted.
MarkSucceeded(p) ==
  /\ spec[p].pc = "mark"
  /\ WriteJob(spec[p].job, "succeeded")
  /\ IF sStatus[spec[p].job] = "absent" THEN SGoto(p, "fail") ELSE SEndTask(p)
  /\ UNCHANGED <<squeue, results, sfailures>>
  /\ SUnchanged

\* The except branch marks the job, and self.retry raises when no retry is left.
MarkFailed(p) ==
  /\ spec[p].pc = "fail"
  /\ WriteJob(spec[p].job, "failed")
  /\ IF spec[p].retries < MaxSRetries THEN SGoto(p, "retry") ELSE SEndTask(p)
  /\ UNCHANGED <<squeue, results, sfailures>>
  /\ SUnchanged

SRetry(p) ==
  /\ spec[p].pc = "retry"
  /\ SendJob(spec[p].job, spec[p].retries + 1)
  /\ SEndTask(p)
  /\ UNCHANGED <<sStatus, results, sfailures>>
  /\ SUnchanged

\* The process dies and its message with it. mark_stale_specialist_jobs, which
\* would fail its job in the end, is never called.
SpecialistCrash(p) ==
  /\ spec[p].pc # "idle"
  /\ crashes < MaxCrashes
  /\ crashes' = crashes + 1
  /\ SEndTask(p)
  /\ UNCHANGED <<unitVars, sjobVars, squeue, results, client, calls, sfailures>>

Extraction(p) ==
  \/ Extract(p) \/ LookForResult(p) \/ StoreResult(p)
  \/ MarkSucceeded(p) \/ MarkFailed(p) \/ SRetry(p)
=============================================================================
