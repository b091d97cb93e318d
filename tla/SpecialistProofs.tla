--------------------------- MODULE SpecialistProofs ---------------------------
(***************************************************************************)
(* A specialist job is in one place at a time: a message, the list of a    *)
(* handler or of a task that will send it, or a process that runs it.      *)
(* From that, what TopicFinalization promises of the jobs, and that it     *)
(* implements JobLife, for every value of the constants.                   *)
(***************************************************************************)
EXTENDS FinalizationProofs

\* Where a job can be: in a message with so many retries used, with a handler or a
\* task of the knowledge worker that will send it, or with a specialist process.
Places == {<<"message", r>> : r \in 0..MaxSRetries} \cup {<<"client", c>> : c \in Clients}
            \cup {<<"task", t>> : t \in Tasks} \cup {<<"spec", p>> : p \in Specialists}
Holds(h, j) ==
  \/ \E r \in 0..MaxSRetries : h = <<"message", r>> /\ squeue[<<j, r>>] > 0
  \/ \E c \in Clients : h = <<"client", c>> /\ j \in client[c].send
  \/ \E t \in Tasks : h = <<"task", t>> /\ j \in task[t].send
  \/ \E p \in Specialists : h = <<"spec", p>> /\ spec[p].job = j

\* Jobs that were never inserted are nowhere.
Unborn == \A j \in SJobIds : j > lastSJob => sStatus[j] = "absent" /\ \A h \in Places : ~Holds(h, j)

\* A process that is idle has no job, and one that is not has.
IdleHasNone == \A p \in Specialists : spec[p].pc = "idle" <=> spec[p].job = 0

\* Nothing is sent twice or run while it is still to be sent.
OnePlace ==
  /\ \A m \in SMessages : squeue[m] <= 1
  /\ \A j \in SJobIds : \A g, h \in Places : Holds(g, j) /\ Holds(h, j) => g = h

\* What the row of a job says agrees with where it is, unless the row is gone.
RowFits ==
  /\ \A m \in SMessages : squeue[m] > 0 => sStatus[m[1]] \in {"queued", "failed", "absent"}
  /\ \A c \in Clients : \A j \in client[c].send : sStatus[j] \in {"queued", "absent"}
  /\ \A t \in Tasks : \A j \in task[t].send : sStatus[j] \in {"queued", "absent"}
  /\ \A p \in Specialists : spec[p].pc # "idle" =>
       sStatus[spec[p].job] \in
         IF spec[p].pc = "retry" THEN {"failed", "absent"} ELSE {"processing", "absent"}

Placed == Unborn /\ IdleHasNone /\ OnePlace /\ RowFits

\* The lists to send are those of senders; a task whose message was refused keeps its.
SendersSend ==
  /\ \A c \in Clients : client[c].pc # "send" => client[c].send = {}
  /\ crashes = 0 => \A t \in Tasks : task[t].pc # "dispatch" => task[t].send = {}

\* A retry is only sent when one is left.
RetriesAreLeft == \A p \in Specialists : spec[p].pc = "retry" => spec[p].retries < MaxSRetries

\* A process on its way to mark its job has the result it found or stored.
WorkHasResult ==
  \A p \in Specialists :
    /\ spec[p].pc = "mark" \/ (spec[p].pc = "store" /\ spec[p].found)
    /\ sStatus[spec[p].job] # "absent"
    => results[sUnit[spec[p].job]] > 0

-----------------------------------------------------------------------------
(* Where jobs are. *)

\* At the start no job is anywhere.
LEMMA PlacedInit == Init => Placed
<1> SUFFICES ASSUME Init PROVE Placed
  OBVIOUS
<1> USE SpecialistAssumption DEF Init, SpecialistInit, IdleClient, IdleSpec, IdleTask
<1>1. ASSUME NEW j \in SJobIds, NEW h \in Places PROVE ~Holds(h, j)
  <2>1. \A r \in 0..MaxSRetries : squeue[<<j, r>>] = 0
    BY DEF SMessages
  <2>2. \A c \in Clients : client[c].send = {}
    OBVIOUS
  <2>3. \A t \in Tasks : task[t].send = {}
    OBVIOUS
  <2>4. \A p \in Specialists : spec[p].job = 0
    OBVIOUS
  <2>5. j # 0 /\ ~(0 > 0)
    BY DEF SJobIds
  <2> QED
    BY <2>1, <2>2, <2>3, <2>4, <2>5 DEF Holds
<1>2. Unborn /\ IdleHasNone /\ OnePlace
  BY <1>1 DEF Unborn, IdleHasNone, OnePlace, SMessages
<1>3. RowFits
  BY DEF RowFits
<1> QED
  BY <1>2, <1>3 DEF Placed

\* A step that inserts no job and puts a job in a new place only by taking it from
\* the one where it was.
LEMMA PlacesKept ==
  ASSUME Unborn, OnePlace, UNCHANGED lastSJob,
         \A j \in SJobIds : j > lastSJob => sStatus'[j] = "absent",
         \A m \in SMessages : squeue'[m] <= 1,
         \A j \in SJobIds :
           \/ \A h \in Places : Holds(h, j)' => Holds(h, j)
           \/ /\ \E g \in Places : Holds(g, j)
              /\ \E k \in Places : \A h \in Places : Holds(h, j)' => h = k
  PROVE  Unborn' /\ OnePlace'
<1>0. Places' = Places
  BY DEF Places
<1>1. \A j \in SJobIds : j > lastSJob => \A h \in Places : ~(Holds(h, j)')
  BY DEF Unborn
<1>2. Unborn'
  BY <1>0, <1>1 DEF Unborn
<1>3. OnePlace'
  BY <1>0 DEF OnePlace
<1> QED
  BY <1>2, <1>3

\* A step that puts no job anywhere.
LEMMA NothingMoves ==
  ASSUME Unborn, OnePlace, UNCHANGED <<lastSJob, squeue>>,
         \A j \in SJobIds : j > lastSJob => sStatus'[j] = "absent",
         \A c \in Clients : client'[c].send \subseteq client[c].send,
         \A t \in Tasks : task'[t].send \subseteq task[t].send,
         \A p \in Specialists : spec'[p].job \in {spec[p].job, 0}
  PROVE  Unborn' /\ OnePlace'
<1>1. ASSUME NEW j \in SJobIds, NEW h \in Places, Holds(h, j)' PROVE Holds(h, j)
  BY <1>1 DEF Holds, SJobIds
<1>2. \A m \in SMessages : squeue'[m] <= 1
  BY DEF OnePlace
<1> QED
  BY <1>1, <1>2, PlacesKept

\* A job that a process runs is nowhere else.
LEMMA OnlyRun ==
  ASSUME OnePlace, NEW p \in Specialists, NEW j \in SJobIds, spec[p].job = j
  PROVE  /\ \A r \in 0..MaxSRetries : ~(squeue[<<j, r>>] > 0)
         /\ \A c \in Clients : j \notin client[c].send
         /\ \A t \in Tasks : j \notin task[t].send
         /\ \A q \in Specialists : spec[q].job = j => q = p
<1> DEFINE g == <<"spec", p>>
<1>1. g \in Places /\ Holds(g, j)
  BY DEF Places, Holds
<1>2. \A h \in Places : Holds(h, j) => h = g
  BY <1>1 DEF OnePlace
<1>3. ASSUME NEW r \in 0..MaxSRetries, squeue[<<j, r>>] > 0 PROVE FALSE
  <2>1. <<"message", r>> \in Places /\ Holds(<<"message", r>>, j)
    BY <1>3 DEF Places, Holds
  <2> QED
    BY <1>2, <2>1
<1>4. ASSUME NEW c \in Clients, j \in client[c].send PROVE FALSE
  <2>1. <<"client", c>> \in Places /\ Holds(<<"client", c>>, j)
    BY <1>4 DEF Places, Holds
  <2> QED
    BY <1>2, <2>1
<1>5. ASSUME NEW t \in Tasks, j \in task[t].send PROVE FALSE
  <2>1. <<"task", t>> \in Places /\ Holds(<<"task", t>>, j)
    BY <1>5 DEF Places, Holds
  <2> QED
    BY <1>2, <2>1
<1>6. ASSUME NEW q \in Specialists, spec[q].job = j PROVE q = p
  <2>1. <<"spec", q>> \in Places /\ Holds(<<"spec", q>>, j)
    BY <1>6 DEF Places, Holds
  <2> QED
    BY <1>2, <2>1
<1> QED
  BY <1>3, <1>4, <1>5, <1>6

\* A job with a message is nowhere else, and has one message.
LEMMA OnlyQueued ==
  ASSUME OnePlace, NEW m \in SMessages, squeue[m] > 0
  PROVE  /\ \A n \in SMessages : n[1] = m[1] /\ squeue[n] > 0 => n = m
         /\ \A c \in Clients : m[1] \notin client[c].send
         /\ \A t \in Tasks : m[1] \notin task[t].send
         /\ \A q \in Specialists : spec[q].job # m[1]
<1> DEFINE j == m[1]
           g == <<"message", m[2]>>
<1>0. j \in SJobIds /\ m[2] \in 0..MaxSRetries /\ m = <<j, m[2]>>
  BY DEF SMessages
<1>1. g \in Places /\ Holds(g, j)
  BY <1>0 DEF Places, Holds
<1>2. \A h \in Places : Holds(h, j) => h = g
  BY <1>0, <1>1 DEF OnePlace
<1>3. ASSUME NEW n \in SMessages, n[1] = j, squeue[n] > 0 PROVE n = m
  <2>1. n[2] \in 0..MaxSRetries /\ n = <<j, n[2]>>
    BY <1>3 DEF SMessages
  <2>2. <<"message", n[2]>> \in Places /\ Holds(<<"message", n[2]>>, j)
    BY <1>3, <2>1 DEF Places, Holds
  <2>3. <<"message", n[2]>> = g
    BY <1>2, <2>2
  <2>4. n[2] = m[2]
    BY <2>3
  <2> QED
    BY <1>0, <2>1, <2>4
<1>4. ASSUME NEW c \in Clients, j \in client[c].send PROVE FALSE
  <2>1. <<"client", c>> \in Places /\ Holds(<<"client", c>>, j)
    BY <1>4 DEF Places, Holds
  <2> QED
    BY <1>2, <2>1
<1>5. ASSUME NEW t \in Tasks, j \in task[t].send PROVE FALSE
  <2>1. <<"task", t>> \in Places /\ Holds(<<"task", t>>, j)
    BY <1>5 DEF Places, Holds
  <2> QED
    BY <1>2, <2>1
<1>6. ASSUME NEW q \in Specialists, spec[q].job = j PROVE FALSE
  <2>1. <<"spec", q>> \in Places /\ Holds(<<"spec", q>>, j)
    BY <1>6 DEF Places, Holds
  <2> QED
    BY <1>2, <2>1
<1> QED
  BY <1>3, <1>4, <1>5, <1>6

\* A job that is still to be sent has no message and no process.
LEMMA OnlyToSend ==
  ASSUME OnePlace, NEW j \in SJobIds,
         \/ \E c \in Clients : j \in client[c].send
         \/ \E t \in Tasks : j \in task[t].send
  PROVE  /\ \A r \in 0..MaxSRetries : ~(squeue[<<j, r>>] > 0)
         /\ \A p \in Specialists : spec[p].job # j
<1>1. PICK g \in Places : Holds(g, j) /\ g[1] \in {"client", "task"}
  <2>1. ASSUME NEW c \in Clients, j \in client[c].send
        PROVE  <<"client", c>> \in Places /\ Holds(<<"client", c>>, j)
    BY <2>1 DEF Places, Holds
  <2>2. ASSUME NEW t \in Tasks, j \in task[t].send
        PROVE  <<"task", t>> \in Places /\ Holds(<<"task", t>>, j)
    BY <2>2 DEF Places, Holds
  <2>3. \A x : <<"client", x>>[1] = "client" /\ <<"task", x>>[1] = "task"
    OBVIOUS
  <2> QED
    BY <2>1, <2>2, <2>3
<1>2. ASSUME NEW r \in 0..MaxSRetries, squeue[<<j, r>>] > 0 PROVE FALSE
  <2>1. <<"message", r>> \in Places /\ Holds(<<"message", r>>, j)
    BY <1>2 DEF Places, Holds
  <2> QED
    BY <1>1, <2>1 DEF OnePlace
<1>3. ASSUME NEW p \in Specialists, spec[p].job = j PROVE FALSE
  <2>1. <<"spec", p>> \in Places /\ Holds(<<"spec", p>>, j)
    BY <1>3 DEF Places, Holds
  <2> QED
    BY <1>1, <2>1 DEF OnePlace
<1> QED
  BY <1>2, <1>3

-----------------------------------------------------------------------------
(* The knowledge worker. *)

\* A step that moves no job, and changes a row only by deleting it.
LEMMA QuietPlaced ==
  ASSUME Placed, UNCHANGED <<lastSJob, squeue, client, spec>>,
         \A j \in SJobIds : sStatus'[j] \in {sStatus[j], "absent"},
         \A t \in Tasks : task'[t].send \subseteq task[t].send,
         FinalTypeOK
  PROVE  Placed'
<1>1. Unborn' /\ OnePlace'
  BY NothingMoves DEF Placed, Unborn
<1>2. IdleHasNone'
  BY DEF Placed, IdleHasNone
<1>3. RowFits'
  <2>1. \A m \in SMessages : m[1] \in SJobIds
    BY DEF SMessages
  <2>2. \A c \in Clients : client[c].send \subseteq SJobIds
    BY DEF FinalTypeOK, SpecialistTypeOK, ClientStates
  <2>3. \A p \in Specialists : spec[p].pc # "idle" => spec[p].job \in SJobIds
    BY SpecialistAssumption DEF FinalTypeOK, SpecialistTypeOK, SpecStates, Placed, IdleHasNone, SJobIds
  <2>4. \A t \in Tasks : task[t].send \subseteq SJobIds
    BY DEF FinalTypeOK, TaskStates
  <2> QED
    BY <2>1, <2>2, <2>3, <2>4 DEF Placed, RowFits
<1> QED
  BY <1>1, <1>2, <1>3 DEF Placed

\* Every step of the knowledge worker but the two that insert and send jobs.
LEMMA WorkerQuiet ==
  ASSUME FinalTypeOK, NEW t \in Tasks,
         \/ ScanFails(t) \/ RetryScan(t) \/ EnsureJobs(t) \/ FindFinalJob(t) \/ InsertFinalJob(t)
         \/ Notify(t) \/ CommitPipeline(t) \/ TReceive(t) \/ FinalTask(t) \/ TaskCrash(t)
  PROVE  /\ UNCHANGED <<sUnit, lastSJob, squeue, client, spec>>
         /\ \A j \in SJobIds : sStatus'[j] \in {sStatus[j], "absent"}
         /\ \A v \in Tasks : task'[v].send \subseteq task[v].send
<1> USE DEF specialistVars, unitVars, sjobVars, FinalUnchanged, TGoto, TEnd, IdleTask
<1>0. task \in [Tasks -> TaskStates]
  BY DEF FinalTypeOK
<1> DEFINE Frame == /\ UNCHANGED <<sUnit, lastSJob, squeue, client, spec>>
                    /\ \A j \in SJobIds : sStatus'[j] \in {sStatus[j], "absent"}
           Sends == \A v \in Tasks : task'[v].send \subseteq task[v].send
<1>1. ASSUME ScanFails(t) PROVE Frame /\ Sends
  BY <1>0, <1>1 DEF ScanFails, TaskStates
<1>2. ASSUME RetryScan(t) PROVE Frame /\ Sends
  BY <1>0, <1>2 DEF RetryScan, TaskStates
<1>3. ASSUME EnsureJobs(t) PROVE Frame /\ Sends
  BY <1>0, <1>3 DEF EnsureJobs, TaskStates
<1>4. ASSUME FindFinalJob(t) PROVE Frame /\ Sends
  BY <1>0, <1>4 DEF FindFinalJob, TaskStates
<1>5. ASSUME InsertFinalJob(t) PROVE Frame /\ Sends
  BY <1>0, <1>5 DEF InsertFinalJob, TaskStates
<1>6. ASSUME Notify(t) PROVE Frame /\ Sends
  BY <1>0, <1>6 DEF Notify, TaskStates
<1>7. ASSUME CommitPipeline(t) PROVE Frame /\ Sends
  BY <1>0, <1>7 DEF CommitPipeline, ReplaceUnits, TaskStates
<1>8. ASSUME NEW r \in 0..MaxKRetries, StartPipeline(t, r) PROVE Frame /\ Sends
  BY <1>0, <1>8 DEF StartPipeline, TaskStates
<1>9. ASSUME NEW r \in 0..MaxFRetries, FinalReceive(t, r) PROVE Frame /\ Sends
  BY <1>0, <1>9 DEF FinalReceive, TaskStates
<1>10. ASSUME Begin(t) PROVE Frame /\ Sends
  BY <1>0, <1>10 DEF Begin, TaskStates
<1>11. ASSUME Check(t) PROVE Frame /\ Sends
  BY <1>0, <1>11 DEF Check, TaskStates
<1>12. ASSUME AssignTopics(t) PROVE Frame /\ Sends
  BY <1>0, <1>12 DEF AssignTopics, TaskStates
<1>13. ASSUME Refresh(t) PROVE Frame /\ Sends
  BY <1>0, <1>13 DEF Refresh, TaskStates
<1>14. ASSUME Unlock(t) PROVE Frame /\ Sends
  BY <1>0, <1>14 DEF Unlock, TaskStates
<1>15. ASSUME Defer(t) PROVE Frame /\ Sends
  BY <1>0, <1>15 DEF Defer, TaskStates
<1>16. ASSUME Resend(t) PROVE Frame /\ Sends
  BY <1>0, <1>16 DEF Resend, TaskStates
<1>17. ASSUME FinalFails(t) PROVE Frame /\ Sends
  BY <1>0, <1>17 DEF FinalFails, TaskStates
<1>18. ASSUME RetryFinal(t) PROVE Frame /\ Sends
  BY <1>0, <1>18 DEF RetryFinal, TaskStates
<1>19. ASSUME TaskCrash(t) PROVE Frame /\ Sends
  BY <1>0, <1>19 DEF TaskCrash, TaskStates
<1> QED
  BY <1>1, <1>2, <1>3, <1>4, <1>5, <1>6, <1>7, <1>8, <1>9, <1>10, <1>11, <1>12, <1>13, <1>14, <1>15, <1>16, <1>17, <1>18, <1>19
     DEF TReceive, FinalTask

\* The messages after one has been sent.
LEMMA SentCounts ==
  ASSUME FinalTypeOK, NEW j \in SJobIds, NEW r \in 0..MaxSRetries, SendJob(j, r)
  PROVE  /\ <<j, r>> \in SMessages /\ squeue'[<<j, r>>] = squeue[<<j, r>>] + 1
         /\ \A m \in SMessages : m # <<j, r>> => squeue'[m] = squeue[m]
         /\ \A m \in SMessages : squeue[m] \in Nat
<1> DEFINE k == <<j, r>>
<1>1. k \in SMessages
  BY DEF SMessages
<1>2. squeue' = [squeue EXCEPT ![k] = squeue[k] + 1] /\ squeue \in [SMessages -> Nat]
  BY DEF SendJob, FinalTypeOK, SpecialistTypeOK
<1> HIDE DEF k
<1>3. squeue'[k] = squeue[k] + 1 /\ \A m \in SMessages : m # k => squeue'[m] = squeue[m]
  BY <1>1, <1>2
<1> QED
  BY <1>1, <1>2, <1>3 DEF k

\* A job that is sent goes from its only place into the message.
LEMMA SendMoves ==
  ASSUME FinalTypeOK, Unborn, OnePlace, NEW j \in SJobIds, NEW r \in 0..MaxSRetries, SendJob(j, r),
         UNCHANGED lastSJob, \A i \in SJobIds : i > lastSJob => sStatus'[i] = "absent",
         NEW g \in Places, Holds(g, j), g[1] # "message", ~(Holds(g, j)'),
         \A i \in SJobIds, h \in Places :
           Holds(h, i)' => Holds(h, i) \/ (h = <<"message", r>> /\ i = j)
  PROVE  Unborn' /\ OnePlace'
<1>1. \A h \in Places : Holds(h, j) => h = g
  BY DEF OnePlace
<1>2. squeue[<<j, r>>] = 0
  <2>1. <<"message", r>> \in Places /\ <<"message", r>> # g
    BY DEF Places
  <2>2. ~Holds(<<"message", r>>, j)
    BY <1>1, <2>1
  <2>3. ~(squeue[<<j, r>>] > 0)
    BY <2>2 DEF Holds
  <2>4. squeue[<<j, r>>] \in Nat
    BY SentCounts
  <2> QED
    BY <2>3, <2>4
<1>3. \A m \in SMessages : squeue'[m] <= 1
  BY <1>2, SentCounts DEF OnePlace
<1>4. \A h \in Places : Holds(h, j)' => h = <<"message", r>>
  BY <1>1
<1>5. <<"message", r>> \in Places
  BY DEF Places
<1>6. ASSUME NEW i \in SJobIds
      PROVE  \/ \A h \in Places : Holds(h, i)' => Holds(h, i)
             \/ /\ \E f \in Places : Holds(f, i)
                /\ \E k \in Places : \A h \in Places : Holds(h, i)' => h = k
  <2>1. CASE i = j
    BY <1>4, <1>5, <2>1
  <2>2. CASE i # j
    BY <2>2
  <2> QED
    BY <2>1, <2>2
<1> QED
  BY <1>3, <1>6, PlacesKept

\* Inserted jobs appear in one new place.
LEMMA InsertMoves ==
  ASSUME FinalTypeOK, Unborn, OnePlace, NEW plan \in SUBSET UnitIds, InsertJobs(plan),
         UNCHANGED squeue, NEW k \in Places,
         \A i \in SJobIds, h \in Places :
           Holds(h, i)' => Holds(h, i) \/ (h = k /\ i \in NewJobs(plan))
  PROVE  /\ Unborn' /\ OnePlace'
         /\ \A i \in SJobIds \cap NewJobs(plan) : sStatus'[i] = "queued" /\ \A h \in Places : ~Holds(h, i)
         /\ \A i \in SJobIds \ NewJobs(plan) : sStatus'[i] = sStatus[i] /\ sUnit'[i] = sUnit[i]
<1>1. Cardinality(plan) \in Nat /\ lastSJob \in Nat
  BY UnitsOfNew, SpecialistAssumption DEF FinalTypeOK, SpecialistTypeOK
<1>2. lastSJob' = lastSJob + Cardinality(plan)
  BY DEF InsertJobs
<1>3. \A i \in SJobIds : i \in NewJobs(plan) <=> i > lastSJob /\ ~(i > lastSJob')
  BY <1>1, <1>2 DEF NewJobs, SJobIds
<1>4. \A i \in SJobIds : i > lastSJob' => i > lastSJob
  BY <1>1, <1>2 DEF SJobIds
<1>5. /\ \A i \in SJobIds \cap NewJobs(plan) : sStatus'[i] = "queued"
      /\ \A i \in SJobIds \ NewJobs(plan) : sStatus'[i] = sStatus[i] /\ sUnit'[i] = sUnit[i]
  BY DEF InsertJobs
<1>6. Places' = Places
  BY DEF Places
<1>7. Unborn'
  <2>1. ASSUME NEW i \in SJobIds, i > lastSJob' PROVE sStatus'[i] = "absent" /\ \A h \in Places : ~(Holds(h, i)')
    BY <1>3, <1>4, <1>5, <2>1 DEF Unborn
  <2> QED
    BY <1>6, <2>1 DEF Unborn
<1>8. OnePlace'
  <2>1. ASSUME NEW i \in SJobIds, NEW g \in Places, NEW h \in Places, Holds(g, i)', Holds(h, i)'
        PROVE  g = h
    <3>1. CASE i \in NewJobs(plan)
      BY <1>3, <2>1, <3>1 DEF Unborn
    <3>2. CASE i \notin NewJobs(plan)
      BY <2>1, <3>2 DEF OnePlace
    <3> QED
      BY <3>1, <3>2
  <2> QED
    BY <1>6, <2>1 DEF OnePlace
<1>9. \A i \in SJobIds \cap NewJobs(plan) : \A h \in Places : ~Holds(h, i)
  BY <1>3 DEF Unborn
<1> QED
  BY <1>5, <1>7, <1>8, <1>9

\* Jobs, as indices of the table.
LEMMA JobsAreIds ==
  ASSUME FinalTypeOK, IdleHasNone
  PROVE  /\ \A m \in SMessages : m[1] \in SJobIds /\ m[2] \in 0..MaxSRetries /\ m = <<m[1], m[2]>>
         /\ \A c \in Clients : client[c].send \subseteq SJobIds
         /\ \A t \in Tasks : task[t].send \subseteq SJobIds
         /\ \A p \in Specialists : spec[p].pc # "idle" => spec[p].job \in SJobIds
<1>1. \A m \in SMessages : m[1] \in SJobIds /\ m[2] \in 0..MaxSRetries /\ m = <<m[1], m[2]>>
  BY DEF SMessages
<1>2. \A c \in Clients : client[c].send \subseteq SJobIds
  BY DEF FinalTypeOK, SpecialistTypeOK, ClientStates
<1>3. \A t \in Tasks : task[t].send \subseteq SJobIds
  BY DEF FinalTypeOK, TaskStates
<1>4. \A p \in Specialists : spec[p].pc # "idle" => spec[p].job \in SJobIds
  BY SpecialistAssumption DEF FinalTypeOK, SpecialistTypeOK, SpecStates, IdleHasNone, SJobIds
<1> QED
  BY <1>1, <1>2, <1>3, <1>4

\* Inserting jobs: their rows are queued, and nobody had them.
LEMMA InsertPlaced ==
  ASSUME FinalTypeOK, Placed, NEW plan \in SUBSET UnitIds, InsertJobs(plan),
         UNCHANGED <<squeue, spec>>,
         \/ \E c \in Clients : /\ UNCHANGED task
                               /\ client'[c].send \subseteq NewJobs(plan) \cap SJobIds
                               /\ \A d \in Clients : d # c => client'[d].send = client[d].send
         \/ \E t \in Tasks : /\ UNCHANGED client
                             /\ task'[t].send \subseteq NewJobs(plan) \cap SJobIds
                             /\ \A v \in Tasks : v # t => task'[v].send = task[v].send
  PROVE  Placed'
<1>0. Unborn /\ IdleHasNone /\ OnePlace /\ RowFits
  BY DEF Placed
<1>1. PICK k \in Places : \A i \in SJobIds, h \in Places :
             Holds(h, i)' => Holds(h, i) \/ (h = k /\ i \in NewJobs(plan))
  <2>1. CASE \E c \in Clients : /\ UNCHANGED task
                               /\ client'[c].send \subseteq NewJobs(plan) \cap SJobIds
                               /\ \A d \in Clients : d # c => client'[d].send = client[d].send
    <3>1. PICK c \in Clients : /\ UNCHANGED task
                               /\ client'[c].send \subseteq NewJobs(plan) \cap SJobIds
                               /\ \A d \in Clients : d # c => client'[d].send = client[d].send
      BY <2>1
    <3>2. <<"client", c>> \in Places
      BY DEF Places
    <3>3. \A i \in SJobIds, h \in Places :
             Holds(h, i)' => Holds(h, i) \/ (h = <<"client", c>> /\ i \in NewJobs(plan))
      BY <3>1 DEF Holds
    <3> QED
      BY <3>2, <3>3
  <2>2. CASE \E t \in Tasks : /\ UNCHANGED client
                             /\ task'[t].send \subseteq NewJobs(plan) \cap SJobIds
                             /\ \A v \in Tasks : v # t => task'[v].send = task[v].send
    <3>1. PICK t \in Tasks : /\ UNCHANGED client
                             /\ task'[t].send \subseteq NewJobs(plan) \cap SJobIds
                             /\ \A v \in Tasks : v # t => task'[v].send = task[v].send
      BY <2>2
    <3>2. <<"task", t>> \in Places
      BY DEF Places
    <3>3. \A i \in SJobIds, h \in Places :
             Holds(h, i)' => Holds(h, i) \/ (h = <<"task", t>> /\ i \in NewJobs(plan))
      BY <3>1 DEF Holds
    <3> QED
      BY <3>2, <3>3
  <2> QED
    BY <2>1, <2>2
<1>2. /\ Unborn' /\ OnePlace'
      /\ \A i \in SJobIds \cap NewJobs(plan) : sStatus'[i] = "queued" /\ \A h \in Places : ~Holds(h, i)
      /\ \A i \in SJobIds \ NewJobs(plan) : sStatus'[i] = sStatus[i] /\ sUnit'[i] = sUnit[i]
  BY <1>0, <1>1, InsertMoves
<1>3. IdleHasNone'
  BY <1>0 DEF IdleHasNone
<1>4. RowFits'
  <2>1. \A m \in SMessages : squeue[m] > 0 => sStatus'[m[1]] = sStatus[m[1]]
    <3>1. ASSUME NEW m \in SMessages, squeue[m] > 0 PROVE m[1] \notin NewJobs(plan)
      <4>1. m[1] \in SJobIds /\ m[2] \in 0..MaxSRetries /\ m = <<m[1], m[2]>>
        BY <1>0, JobsAreIds
      <4>2. <<"message", m[2]>> \in Places /\ Holds(<<"message", m[2]>>, m[1])
        BY <3>1, <4>1 DEF Places, Holds
      <4> QED
        BY <1>2, <4>1, <4>2
    <3> QED
      BY <1>0, <1>2, <3>1, JobsAreIds
  <2>2. \A p \in Specialists : spec[p].pc # "idle" => sStatus'[spec[p].job] = sStatus[spec[p].job]
    <3>1. ASSUME NEW p \in Specialists, spec[p].pc # "idle" PROVE spec[p].job \notin NewJobs(plan)
      <4>1. <<"spec", p>> \in Places /\ Holds(<<"spec", p>>, spec[p].job)
        BY DEF Places, Holds
      <4> QED
        BY <1>0, <1>2, <3>1, <4>1, JobsAreIds
    <3> QED
      BY <1>0, <1>2, <3>1, JobsAreIds
  <2>3. \A c \in Clients : \A i \in client'[c].send : sStatus'[i] \in {"queued", "absent"}
    <3>1. \A c \in Clients : \A i \in client'[c].send :
            i \in SJobIds /\ (i \in NewJobs(plan) \/ i \in client[c].send)
      BY <1>0, JobsAreIds
    <3> QED
      BY <1>0, <1>2, <3>1 DEF RowFits
  <2>4. \A t \in Tasks : \A i \in task'[t].send : sStatus'[i] \in {"queued", "absent"}
    <3>1. \A t \in Tasks : \A i \in task'[t].send :
            i \in SJobIds /\ (i \in NewJobs(plan) \/ i \in task[t].send)
      BY <1>0, JobsAreIds
    <3> QED
      BY <1>0, <1>2, <3>1 DEF RowFits
  <2> QED
    BY <1>0, <2>1, <2>2, <2>3, <2>4 DEF RowFits
<1> QED
  BY <1>2, <1>3, <1>4 DEF Placed

\* The first message of a job, sent by the handler or the task that has it on its list.
LEMMA DispatchPlaced ==
  ASSUME FinalTypeOK, Placed, NEW j \in SJobIds, SendJob(j, 0), UNCHANGED <<sStatus, lastSJob, spec>>,
         \/ \E c \in Clients : /\ UNCHANGED task
                               /\ j \in client[c].send /\ client'[c].send = client[c].send \ {j}
                               /\ \A d \in Clients : d # c => client'[d].send = client[d].send
         \/ \E t \in Tasks : /\ UNCHANGED client
                             /\ j \in task[t].send /\ task'[t].send = task[t].send \ {j}
                             /\ \A v \in Tasks : v # t => task'[v].send = task[v].send
  PROVE  Placed'
<1>0. Unborn /\ IdleHasNone /\ OnePlace /\ RowFits
  BY DEF Placed
<1>1. 0 \in 0..MaxSRetries
  BY SpecialistAssumption
<1>2. \A i \in SJobIds, r \in 0..MaxSRetries : squeue'[<<i, r>>] > 0 => squeue[<<i, r>>] > 0 \/ (i = j /\ r = 0)
  BY <1>1, SentCounts, ZenonT(40) DEF SMessages
<1>3. Unborn' /\ OnePlace'
  <2>1. CASE \E c \in Clients : /\ UNCHANGED task
                               /\ j \in client[c].send /\ client'[c].send = client[c].send \ {j}
                               /\ \A d \in Clients : d # c => client'[d].send = client[d].send
    <3>1. PICK c \in Clients : /\ UNCHANGED task
                               /\ j \in client[c].send /\ client'[c].send = client[c].send \ {j}
                               /\ \A d \in Clients : d # c => client'[d].send = client[d].send
      BY <2>1
    <3> DEFINE g == <<"client", c>>
    <3>2. g \in Places /\ Holds(g, j) /\ g[1] # "message" /\ ~(Holds(g, j)')
      BY <3>1 DEF Places, Holds
    <3>3. \A i \in SJobIds, h \in Places : Holds(h, i)' => Holds(h, i) \/ (h = <<"message", 0>> /\ i = j)
      BY <1>2, <3>1 DEF Holds
    <3> HIDE DEF g
    <3> QED
      BY <1>0, <1>1, <3>2, <3>3, SendMoves DEF Unborn
  <2>2. CASE \E t \in Tasks : /\ UNCHANGED client
                             /\ j \in task[t].send /\ task'[t].send = task[t].send \ {j}
                             /\ \A v \in Tasks : v # t => task'[v].send = task[v].send
    <3>1. PICK t \in Tasks : /\ UNCHANGED client
                             /\ j \in task[t].send /\ task'[t].send = task[t].send \ {j}
                             /\ \A v \in Tasks : v # t => task'[v].send = task[v].send
      BY <2>2
    <3> DEFINE g == <<"task", t>>
    <3>2. g \in Places /\ Holds(g, j) /\ g[1] # "message" /\ ~(Holds(g, j)')
      BY <3>1 DEF Places, Holds
    <3>3. \A i \in SJobIds, h \in Places : Holds(h, i)' => Holds(h, i) \/ (h = <<"message", 0>> /\ i = j)
      BY <1>2, <3>1 DEF Holds
    <3> HIDE DEF g
    <3> QED
      BY <1>0, <1>1, <3>2, <3>3, SendMoves DEF Unborn
  <2> QED
    BY <2>1, <2>2
<1>4. IdleHasNone'
  BY <1>0 DEF IdleHasNone
<1>5. RowFits'
  <2>1. sStatus[j] \in {"queued", "absent"}
    BY <1>0 DEF RowFits
  <2>2. \A m \in SMessages : squeue'[m] > 0 => sStatus'[m[1]] \in {"queued", "failed", "absent"}
    <3>1. ASSUME NEW m \in SMessages, squeue'[m] > 0
          PROVE  sStatus'[m[1]] \in {"queued", "failed", "absent"}
      <4>1. CASE m = <<j, 0>>
        BY <2>1, <4>1
      <4>2. CASE m # <<j, 0>>
        <5>1. squeue'[m] = squeue[m]
          BY <1>1, <4>2, SentCounts
        <5>2. squeue[m] > 0 => sStatus[m[1]] \in {"queued", "failed", "absent"}
          BY <1>0 DEF RowFits
        <5> QED
          BY <3>1, <5>1, <5>2
      <4> QED
        BY <4>1, <4>2
    <3> QED
      BY <3>1
  <2>3. \A c \in Clients : \A i \in client'[c].send : sStatus'[i] \in {"queued", "absent"}
    BY <1>0 DEF RowFits
  <2>4. \A t \in Tasks : \A i \in task'[t].send : sStatus'[i] \in {"queued", "absent"}
    BY <1>0 DEF RowFits
  <2> QED
    BY <1>0, <2>2, <2>3, <2>4 DEF RowFits
<1> QED
  BY <1>3, <1>4, <1>5 DEF Placed

\* The two steps of the knowledge worker that insert and send jobs.
LEMMA WorkerSends ==
  ASSUME Typed, Placed, NEW t \in Tasks,
         CommitJobs(t) \/ \E j \in SJobIds : DispatchJob(t, j)
  PROVE  Placed'
<1>0. FinalTypeOK /\ task \in [Tasks -> TaskStates]
  BY DEF Typed, FinalTypeOK
<1>1. ASSUME CommitJobs(t) PROVE Placed'
  <2>1. CASE /\ InsertJobs(task[t].units)
             /\ task' = [task EXCEPT ![t].pc = IF task[t].units = {} THEN "find" ELSE "dispatch",
                                     ![t].units = {}, ![t].send = NewJobs(task[t].units)]
    <3>1. task[t].units \in SUBSET UnitIds
      BY <1>0 DEF TaskStates
    <3>2. NewJobs(task[t].units) \subseteq SJobIds
      BY <2>1, <3>1, InsertTyped
    <3>3. /\ task'[t].send = NewJobs(task[t].units)
          /\ \A v \in Tasks : v # t => task'[v].send = task[v].send
      BY <1>0, <2>1 DEF TaskStates
    <3> QED
      BY <1>0, <1>1, <2>1, <3>1, <3>2, <3>3, InsertPlaced, ZenonT(40) DEF CommitJobs
  <2>2. CASE TGoto(t, "scanfail") /\ UNCHANGED sjobVars
    <3>1. \A v \in Tasks : task'[v].send \subseteq task[v].send
      BY <1>0, <2>2 DEF TGoto, TaskStates
    <3> QED
      BY <1>0, <1>1, <2>2, <3>1, QuietPlaced DEF CommitJobs, sjobVars
  <2> QED
    BY <1>1, <2>1, <2>2 DEF CommitJobs
<1>2. ASSUME NEW j \in SJobIds, DispatchJob(t, j) PROVE Placed'
  <2>1. /\ task'[t].send = task[t].send \ {j}
        /\ \A v \in Tasks : v # t => task'[v].send = task[v].send
    <3>1. CASE task[t].send = {j}
      BY <1>0, <1>2, <3>1 DEF DispatchJob, TaskStates
    <3>2. CASE task[t].send # {j}
      BY <1>0, <1>2, <3>2 DEF DispatchJob, TaskStates
    <3> QED
      BY <3>1, <3>2
  <2> QED
    BY <1>0, <1>2, <2>1, DispatchPlaced DEF DispatchJob, sjobVars
<1> QED
  BY <1>1, <1>2

-----------------------------------------------------------------------------
(* Handlers and specialist processes. *)

LEMMA ClientPlaced ==
  ASSUME Typed, Placed, UNCHANGED finalVars, NEW c \in Clients,
         \/ EnsureSpecialists(c) \/ ClientCommit(c) \/ ClientCrash(c)
         \/ (\E u \in UnitIds : ReviewUnit(c, u))
         \/ (\E j \in SJobIds : ReplaySpecialist(c, j) \/ ClientSend(c, j))
  PROVE  Placed'
<1> USE DEF sjobVars, unitVars, finalVars, IdleClient
<1>0. FinalTypeOK /\ client \in [Clients -> ClientStates] /\ Unborn /\ IdleHasNone /\ OnePlace /\ RowFits
  BY DEF Typed, FinalTypeOK, SpecialistTypeOK, Placed
<1> DEFINE Quiet == /\ UNCHANGED <<sStatus, lastSJob, squeue, spec, task>>
                    /\ \A d \in Clients : client'[d].send \subseteq client[d].send
<1>1. ASSUME Quiet PROVE Placed'
  <2>1. Unborn' /\ OnePlace'
    BY <1>0, <1>1, NothingMoves DEF Unborn
  <2>2. IdleHasNone' /\ RowFits'
    BY <1>0, <1>1 DEF IdleHasNone, RowFits
  <2> QED
    BY <2>1, <2>2 DEF Placed
<1>2. ASSUME EnsureSpecialists(c) PROVE Quiet
  BY <1>0, <1>2 DEF EnsureSpecialists, ClientStates
<1>3. ASSUME ClientCrash(c) PROVE Quiet
  BY <1>0, <1>3 DEF ClientCrash, ClientStates
<1>4. ASSUME NEW u \in UnitIds, ReviewUnit(c, u) PROVE Quiet
  BY <1>0, <1>4 DEF ReviewUnit
<1>5. ASSUME NEW j \in SJobIds, ReplaySpecialist(c, j) PROVE Quiet
  BY <1>0, <1>5 DEF ReplaySpecialist, ClientStates
<1>6. ASSUME ClientCommit(c) PROVE Placed'
  <2>1. CASE client' = [client EXCEPT ![c] = IdleClient] /\ UNCHANGED sjobVars
    <3>1. Quiet
      BY <1>0, <1>6, <2>1 DEF ClientCommit, ClientStates
    <3> QED
      BY <1>1, <3>1
  <2>2. CASE InsertJobs(client[c].plan) /\ client' = [client EXCEPT ![c] =
                 [pc |-> "send", plan |-> {}, send |-> NewJobs(client[c].plan)]]
    <3>1. client[c].plan \in SUBSET UnitIds
      BY <1>0 DEF ClientStates
    <3>2. NewJobs(client[c].plan) \subseteq SJobIds
      BY <2>2, <3>1, InsertTyped
    <3>3. /\ client'[c].send = NewJobs(client[c].plan)
          /\ \A d \in Clients : d # c => client'[d].send = client[d].send
      BY <1>0, <2>2
    <3> QED
      BY <1>0, <1>6, <2>2, <3>1, <3>2, <3>3, InsertPlaced DEF ClientCommit
  <2> QED
    BY <1>6, <2>1, <2>2 DEF ClientCommit
<1>7. ASSUME NEW j \in SJobIds, ClientSend(c, j) PROVE Placed'
  <2>1. /\ client'[c].send = client[c].send \ {j} /\ j \in client[c].send
        /\ \A d \in Clients : d # c => client'[d].send = client[d].send
    <3>1. CASE client[c].send = {j}
      BY <1>0, <1>7, <3>1 DEF ClientSend, ClientStates
    <3>2. CASE client[c].send # {j}
      BY <1>0, <1>7, <3>2 DEF ClientSend, ClientStates
    <3> QED
      BY <3>1, <3>2
  <2>2. CASE SendJob(j, 0)
    BY <1>0, <1>7, <2>1, <2>2, DispatchPlaced DEF ClientSend
  <2>3. CASE UNCHANGED squeue
    <3>1. Quiet
      BY <1>7, <2>1, <2>3 DEF ClientSend
    <3> QED
      BY <1>1, <3>1
  <2> QED
    BY <1>7, <2>2, <2>3 DEF ClientSend
<1> QED
  BY <1>1, <1>2, <1>3, <1>4, <1>5, <1>6, <1>7

\* A process that goes on with its job or ends it, and writes at most its row.
LEMMA WorkPlaced ==
  ASSUME FinalTypeOK, Placed, NEW p \in Specialists,
         UNCHANGED <<lastSJob, squeue, client, task>>, spec[p].pc # "idle",
         \A q \in Specialists : q # p => spec'[q] = spec[q],
         \/ spec'[p] = IdleSpec
         \/ /\ spec'[p].pc # "idle" /\ spec'[p].job = spec[p].job
            /\ sStatus'[spec[p].job] \in
                 IF spec'[p].pc = "retry" THEN {"failed", "absent"} ELSE {"processing", "absent"},
         sStatus[spec[p].job] = "absent" => sStatus'[spec[p].job] = "absent",
         \A j \in SJobIds : j # spec[p].job => sStatus'[j] = sStatus[j]
  PROVE  Placed'
<1>0. Unborn /\ IdleHasNone /\ OnePlace /\ RowFits
  BY DEF Placed
<1> DEFINE j == spec[p].job
<1>1. j \in SJobIds /\ j # 0
  BY <1>0, JobsAreIds DEF SJobIds
<1>2. \A i \in SJobIds : i > lastSJob => sStatus'[i] = "absent"
  <2>1. ASSUME NEW i \in SJobIds, i > lastSJob PROVE sStatus'[i] = "absent"
    <3>1. sStatus[i] = "absent"
      BY <1>0, <2>1 DEF Unborn
    <3> QED
      BY <3>1
  <2> QED
    BY <2>1
<1>3. \A q \in Specialists : spec'[q].job \in {spec[q].job, 0}
  BY DEF IdleSpec
<1>4. Unborn' /\ OnePlace'
  BY <1>0, <1>2, <1>3, NothingMoves
<1>5. IdleHasNone'
  <2>1. spec'[p].pc = "idle" <=> spec'[p].job = 0
    BY <1>1 DEF IdleSpec
  <2> QED
    BY <1>0, <2>1 DEF IdleHasNone
<1>6. RowFits'
  <2>1. /\ \A m \in SMessages : squeue[m] > 0 => m[1] # j
        /\ \A c \in Clients : j \notin client[c].send
        /\ \A t \in Tasks : j \notin task[t].send
        /\ \A q \in Specialists : q # p => spec[q].job # j
    <3>1. \A m \in SMessages : squeue[m] > 0 => m[1] # j
      <4>1. ASSUME NEW m \in SMessages, squeue[m] > 0, m[1] = j PROVE FALSE
        BY <1>0, <4>1, OnlyQueued
      <4> QED
        BY <4>1
    <3> QED
      BY <1>0, <1>1, <3>1, OnlyRun
  <2> HIDE DEF j
  <2>2. \A i \in SJobIds : i # j => sStatus'[i] = sStatus[i]
    BY DEF j
  <2>3. \A m \in SMessages : squeue'[m] > 0 => sStatus'[m[1]] \in {"queued", "failed", "absent"}
    BY <1>0, <2>1, <2>2, JobsAreIds DEF RowFits
  <2>4. \A c \in Clients : \A i \in client'[c].send : sStatus'[i] \in {"queued", "absent"}
    BY <1>0, <2>1, <2>2, JobsAreIds DEF RowFits
  <2>5. \A t \in Tasks : \A i \in task'[t].send : sStatus'[i] \in {"queued", "absent"}
    BY <1>0, <2>1, <2>2, JobsAreIds DEF RowFits
  <2>6. ASSUME NEW q \in Specialists, spec'[q].pc # "idle"
        PROVE  sStatus'[spec'[q].job] \in
                 IF spec'[q].pc = "retry" THEN {"failed", "absent"} ELSE {"processing", "absent"}
    <3>1. CASE q = p
      BY <2>6, <3>1 DEF IdleSpec
    <3>2. CASE q # p
      <4>1. spec'[q] = spec[q] /\ spec[q].job # j /\ spec[q].job \in SJobIds
        BY <1>0, <2>1, <2>6, <3>2, JobsAreIds
      <4>2. sStatus'[spec[q].job] = sStatus[spec[q].job]
        BY <2>2, <4>1
      <4> QED
        BY <1>0, <2>6, <4>1, <4>2 DEF RowFits
    <3> QED
      BY <3>1, <3>2
  <2> QED
    BY <2>3, <2>4, <2>5, <2>6 DEF RowFits
<1> QED
  BY <1>4, <1>5, <1>6 DEF Placed

\* A process takes a message: the job moves from the one to the other.
LEMMA ReceivePlaced ==
  ASSUME FinalTypeOK, Placed, UNCHANGED finalVars, NEW p \in Specialists, NEW m \in SMessages,
         SReceive(p, m)
  PROVE  Placed'
<1>0. Unborn /\ IdleHasNone /\ OnePlace /\ RowFits
  BY DEF Placed
<1> DEFINE j == m[1]
           k == <<"spec", p>>
<1>1. j \in SJobIds /\ j # 0 /\ m[2] \in 0..MaxSRetries /\ m = <<j, m[2]>> /\ spec[p].job = 0
  BY <1>0, JobsAreIds DEF SReceive, IdleHasNone, SJobIds
<1>2. /\ squeue[m] = 1 /\ squeue'[m] = 0
      /\ \A n \in SMessages : n # m => squeue'[n] = squeue[n]
  <2>1. squeue[m] \in Nat /\ squeue[m] > 0 /\ squeue[m] <= 1
    BY <1>0 DEF FinalTypeOK, SpecialistTypeOK, SReceive, OnePlace
  <2>2. squeue' = [squeue EXCEPT ![m] = squeue[m] - 1] /\ squeue \in [SMessages -> Nat]
    BY DEF SReceive, FinalTypeOK, SpecialistTypeOK
  <2> QED
    BY <2>1, <2>2
<1>3. /\ spec'[p].pc = "extract" /\ spec'[p].job = j
      /\ \A q \in Specialists : q # p => spec'[q] = spec[q]
  BY DEF SReceive, FinalTypeOK, SpecialistTypeOK
<1>4. UNCHANGED <<lastSJob, client, task>>
  BY DEF SReceive, SUnchanged, finalVars
<1>5. /\ sStatus[j] \in {"queued", "failed", "absent"}
      /\ sStatus'[j] \in {"processing", "absent"}
      /\ sStatus[j] = "absent" => sStatus'[j] = "absent"
      /\ \A i \in SJobIds : i # j => sStatus'[i] = sStatus[i]
  BY <1>0, <1>1, <1>2 DEF SReceive, WriteJob, RowFits, FinalTypeOK, SpecialistTypeOK
<1>6. /\ \A n \in SMessages : n[1] = j /\ squeue[n] > 0 => n = m
      /\ \A c \in Clients : j \notin client[c].send
      /\ \A t \in Tasks : j \notin task[t].send
      /\ \A q \in Specialists : spec[q].job # j
  BY <1>0, <1>2, OnlyQueued
<1> HIDE DEF j
<1>7. Unborn' /\ OnePlace'
  <2>1. \A i \in SJobIds : i > lastSJob => sStatus'[i] = "absent"
    <3>1. ASSUME NEW i \in SJobIds, i > lastSJob PROVE sStatus'[i] = "absent"
      BY <1>0, <1>5, <3>1 DEF Unborn
    <3> QED
      BY <3>1
  <2>2. \A n \in SMessages : squeue'[n] <= 1
    BY <1>0, <1>2 DEF OnePlace
  <2>3. k \in Places /\ <<"message", m[2]>> \in Places /\ Holds(<<"message", m[2]>>, j)
    BY <1>1, <1>2 DEF Places, Holds
  <2>4. ASSUME NEW h \in Places, Holds(h, j)' PROVE h = k
    <3>1. \A r \in 0..MaxSRetries : ~(squeue'[<<j, r>>] > 0)
      <4>1. ASSUME NEW r \in 0..MaxSRetries PROVE ~(squeue'[<<j, r>>] > 0)
        <5>1. <<j, r>> \in SMessages /\ <<j, r>>[1] = j
          BY <1>1 DEF SMessages
        <5>2. CASE <<j, r>> = m
          BY <1>2, <5>2
        <5>3. CASE <<j, r>> # m
          BY <1>2, <1>6, <5>1, <5>3
        <5> QED
          BY <5>2, <5>3
      <4> QED
        BY <4>1
    <3>2. \A q \in Specialists : spec'[q].job = j => q = p
      BY <1>3, <1>6
    <3> QED
      BY <1>4, <1>6, <2>4, <3>1, <3>2 DEF Holds
  <2>5. ASSUME NEW i \in SJobIds, i # j, NEW h \in Places, Holds(h, i)' PROVE Holds(h, i)
    <3>1. \A r \in 0..MaxSRetries : squeue'[<<i, r>>] = squeue[<<i, r>>]
      <4>1. ASSUME NEW r \in 0..MaxSRetries PROVE squeue'[<<i, r>>] = squeue[<<i, r>>]
        <5>1. <<i, r>> \in SMessages /\ <<i, r>> # m
          BY <1>1, <2>5 DEF SMessages
        <5> QED
          BY <1>2, <5>1
      <4> QED
        BY <4>1
    <3>2. \A q \in Specialists : spec'[q].job = i => spec[q].job = i
      BY <1>3, <2>5
    <3> QED
      BY <1>4, <2>5, <3>1, <3>2 DEF Holds
  <2> HIDE DEF k
  <2> QED
    BY <1>0, <1>4, <2>1, <2>2, <2>3, <2>4, <2>5, PlacesKept
<1>8. IdleHasNone'
  BY <1>0, <1>1, <1>3 DEF IdleHasNone
<1>9. RowFits'
  <2>1. \A n \in SMessages : squeue'[n] > 0 => sStatus'[n[1]] \in {"queued", "failed", "absent"}
    <3>1. ASSUME NEW n \in SMessages, squeue'[n] > 0
          PROVE  sStatus'[n[1]] \in {"queued", "failed", "absent"}
      <4>1. n # m /\ squeue[n] > 0
        BY <1>2, <3>1
      <4>2. n[1] \in SJobIds /\ n[1] # j
        BY <1>0, <1>6, <4>1, JobsAreIds
      <4> QED
        BY <1>0, <1>5, <4>1, <4>2 DEF RowFits
    <3> QED
      BY <3>1
  <2>2. \A c \in Clients : \A i \in client'[c].send : sStatus'[i] \in {"queued", "absent"}
    BY <1>0, <1>4, <1>5, <1>6, JobsAreIds DEF RowFits
  <2>3. \A t \in Tasks : \A i \in task'[t].send : sStatus'[i] \in {"queued", "absent"}
    BY <1>0, <1>4, <1>5, <1>6, JobsAreIds DEF RowFits
  <2>4. ASSUME NEW q \in Specialists, spec'[q].pc # "idle"
        PROVE  sStatus'[spec'[q].job] \in
                 IF spec'[q].pc = "retry" THEN {"failed", "absent"} ELSE {"processing", "absent"}
    <3>1. CASE q = p
      BY <1>3, <1>5, <3>1
    <3>2. CASE q # p
      <4>1. spec'[q] = spec[q] /\ spec[q].job # j /\ spec[q].job \in SJobIds
        BY <1>0, <1>3, <1>6, <2>4, <3>2, JobsAreIds
      <4>2. sStatus'[spec[q].job] = sStatus[spec[q].job]
        BY <1>5, <4>1
      <4> QED
        BY <1>0, <2>4, <4>1, <4>2 DEF RowFits
    <3> QED
      BY <3>1, <3>2
  <2> QED
    BY <2>1, <2>2, <2>3, <2>4 DEF RowFits
<1> QED
  BY <1>7, <1>8, <1>9 DEF Placed

\* self.retry: the job goes from the process into a message with one retry more.
LEMMA RetryPlaced ==
  ASSUME FinalTypeOK, Placed, RetriesAreLeft, UNCHANGED finalVars, NEW p \in Specialists, SRetry(p)
  PROVE  Placed'
<1>0. Unborn /\ IdleHasNone /\ OnePlace /\ RowFits
  BY DEF Placed
<1> DEFINE g == <<"spec", p>>
<1>1. PICK j \in SJobIds, r \in 0..MaxSRetries : j = spec[p].job /\ j # 0 /\ r = spec[p].retries + 1
  <2>1. spec[p].pc = "retry" /\ spec[p].retries < MaxSRetries /\ spec[p].retries \in 0..MaxSRetries
    BY DEF SRetry, RetriesAreLeft, FinalTypeOK, SpecialistTypeOK, SpecStates
  <2>2. spec[p].retries + 1 \in 0..MaxSRetries
    BY <2>1, SpecialistAssumption
  <2>3. spec[p].job \in SJobIds
    BY <1>0, <2>1, JobsAreIds
  <2> QED
    BY <2>2, <2>3 DEF SJobIds
<1>2. SendJob(j, r) /\ UNCHANGED <<sStatus, lastSJob, client, task>> /\ sStatus[j] \in {"failed", "absent"}
  BY <1>0, <1>1 DEF SRetry, SUnchanged, finalVars, RowFits
<1>3. spec'[p] = IdleSpec /\ \A q \in Specialists : q # p => spec'[q] = spec[q]
  BY DEF SRetry, SEndTask, FinalTypeOK, SpecialistTypeOK
<1>4. g \in Places /\ Holds(g, j) /\ g[1] # "message" /\ ~(Holds(g, j)')
  BY <1>1, <1>3 DEF Places, Holds, IdleSpec
<1>5. \A n \in SMessages : n # <<j, r>> => squeue'[n] = squeue[n]
  BY <1>1, <1>2, SentCounts
<1>6. ASSUME NEW i \in SJobIds, NEW h \in Places, Holds(h, i)'
      PROVE  Holds(h, i) \/ (h = <<"message", r>> /\ i = j)
  <2>1. \A s \in 0..MaxSRetries : squeue'[<<i, s>>] = squeue[<<i, s>>] \/ (s = r /\ i = j)
    <3>1. ASSUME NEW s \in 0..MaxSRetries PROVE squeue'[<<i, s>>] = squeue[<<i, s>>] \/ (s = r /\ i = j)
      <4>1. <<i, s>> \in SMessages
        BY DEF SMessages
      <4>2. <<i, s>> = <<j, r>> => s = r /\ i = j
        OBVIOUS
      <4> QED
        BY <1>5, <4>1, <4>2
    <3> QED
      BY <3>1
  <2>2. \A q \in Specialists : spec'[q].job = i => spec[q].job = i
    BY <1>3 DEF IdleSpec, SJobIds
  <2> QED
    BY <1>2, <1>6, <2>1, <2>2 DEF Holds
<1>7. \A i \in SJobIds : i > lastSJob => sStatus'[i] = "absent"
  BY <1>0, <1>2 DEF Unborn
<1> HIDE DEF g
<1>8. Unborn' /\ OnePlace'
  BY <1>0, <1>1, <1>2, <1>4, <1>6, <1>7, SendMoves
<1>9. IdleHasNone'
  BY <1>0, <1>3 DEF IdleHasNone, IdleSpec
<1>10. RowFits'
  <2>1. \A n \in SMessages : squeue'[n] > 0 => sStatus'[n[1]] \in {"queued", "failed", "absent"}
    <3>1. ASSUME NEW n \in SMessages, squeue'[n] > 0
          PROVE  sStatus'[n[1]] \in {"queued", "failed", "absent"}
      <4>1. CASE n = <<j, r>>
        BY <1>2, <4>1
      <4>2. CASE n # <<j, r>>
        BY <1>0, <1>2, <1>5, <3>1, <4>2 DEF RowFits
      <4> QED
        BY <4>1, <4>2
    <3> QED
      BY <3>1
  <2>2. \A q \in Specialists : spec'[q].pc # "idle" => q # p
    BY <1>3 DEF IdleSpec
  <2> QED
    BY <1>0, <1>2, <1>3, <2>1, <2>2 DEF RowFits
<1> QED
  BY <1>8, <1>9, <1>10 DEF Placed

\* The other steps of a task, and the death of its process.
LEMMA SpecialistPlaced ==
  ASSUME FinalTypeOK, Placed, RetriesAreLeft, UNCHANGED finalVars, NEW p \in Specialists,
         \/ Extraction(p) \/ SpecialistCrash(p)
         \/ (\E m \in SMessages : SReceive(p, m))
  PROVE  Placed'
<1>0. Unborn /\ IdleHasNone /\ OnePlace /\ RowFits /\ spec \in [Specialists -> SpecStates]
  BY DEF Placed, FinalTypeOK, SpecialistTypeOK
<1> DEFINE j == spec[p].job
<1>1. spec[p].pc # "idle" => /\ j \in SJobIds /\ j # 0
                             /\ sStatus[j] \in IF spec[p].pc = "retry" THEN {"failed", "absent"}
                                               ELSE {"processing", "absent"}
  BY <1>0, JobsAreIds DEF RowFits, SJobIds
<1>2. ASSUME Extract(p) \/ LookForResult(p) \/ StoreResult(p)
      PROVE  /\ spec[p].pc \notin {"idle", "retry"} /\ spec'[p].pc \notin {"idle", "retry"}
             /\ spec'[p].job = j /\ \A q \in Specialists : q # p => spec'[q] = spec[q]
             /\ UNCHANGED <<sStatus, lastSJob, squeue, client, task>>
  <2>1. CASE Extract(p)
    BY <1>0, <2>1 DEF Extract, SGoto, SUnchanged, SpecStates, finalVars
  <2>2. CASE LookForResult(p)
    BY <1>0, <2>2 DEF LookForResult, SUnchanged, SpecStates, finalVars
  <2>3. CASE StoreResult(p)
    BY <1>0, <2>3 DEF StoreResult, SGoto, SUnchanged, SpecStates, finalVars
  <2> QED
    BY <1>2, <2>1, <2>2, <2>3
<1>3. CASE Extract(p) \/ LookForResult(p) \/ StoreResult(p)
  BY <1>1, <1>2, <1>3, WorkPlaced
<1>4. CASE MarkSucceeded(p)
  <2>1. /\ spec[p].pc = "mark" /\ \A q \in Specialists : q # p => spec'[q] = spec[q]
        /\ UNCHANGED <<lastSJob, squeue, client, task>>
        /\ IF sStatus[j] = "absent" THEN spec'[p].pc = "fail" /\ spec'[p].job = j
           ELSE spec'[p] = IdleSpec
    BY <1>0, <1>4 DEF MarkSucceeded, SGoto, SEndTask, SUnchanged, SpecStates, finalVars
  <2>2. /\ sStatus[j] = "absent" => sStatus'[j] = "absent"
        /\ \A i \in SJobIds : i # j => sStatus'[i] = sStatus[i]
    BY <1>4 DEF MarkSucceeded, WriteJob, FinalTypeOK, SpecialistTypeOK
  <2> QED
    BY <2>1, <2>2, WorkPlaced
<1>5. CASE MarkFailed(p)
  <2>1. /\ spec[p].pc = "fail" /\ \A q \in Specialists : q # p => spec'[q] = spec[q]
        /\ UNCHANGED <<lastSJob, squeue, client, task>>
        /\ \/ spec'[p].pc = "retry" /\ spec'[p].job = j
           \/ spec'[p] = IdleSpec
    BY <1>0, <1>5 DEF MarkFailed, SGoto, SEndTask, SUnchanged, SpecStates, finalVars
  <2>2. /\ sStatus[j] = "absent" => sStatus'[j] = "absent"
        /\ sStatus'[j] \in {"failed", "absent"}
        /\ \A i \in SJobIds : i # j => sStatus'[i] = sStatus[i]
    BY <1>1, <2>1, <1>5 DEF MarkFailed, WriteJob, FinalTypeOK, SpecialistTypeOK
  <2> QED
    BY <2>1, <2>2, WorkPlaced
<1>6. CASE SpecialistCrash(p)
  <2>1. /\ spec[p].pc # "idle" /\ \A q \in Specialists : q # p => spec'[q] = spec[q]
        /\ UNCHANGED <<sStatus, lastSJob, squeue, client, task>> /\ spec'[p] = IdleSpec
    BY <1>0, <1>6 DEF SpecialistCrash, SEndTask, SpecStates, finalVars, sjobVars
  <2> QED
    BY <2>1, WorkPlaced
<1>7. CASE SRetry(p)
  BY <1>7, RetryPlaced
<1>8. CASE \E m \in SMessages : SReceive(p, m)
  BY <1>8, ReceivePlaced
<1> QED
  BY <1>3, <1>4, <1>5, <1>6, <1>7, <1>8 DEF Extraction

\* A task that is going to send itself again has a retry left.
LEMMA RetriesStep == FinalTypeOK /\ RetriesAreLeft /\ [Next]_vars => RetriesAreLeft'
<1> SUFFICES ASSUME FinalTypeOK, RetriesAreLeft, [Next]_vars PROVE RetriesAreLeft'
  OBVIOUS
<1>0. spec \in [Specialists -> SpecStates]
  BY DEF FinalTypeOK, SpecialistTypeOK
<1>1. CASE UNCHANGED spec
  BY <1>1 DEF RetriesAreLeft
<1>2. ASSUME NEW p \in Specialists,
             \A q \in Specialists : q # p => spec'[q] = spec[q],
             spec'[p].pc # "retry" \/ spec'[p].retries < MaxSRetries
      PROVE  RetriesAreLeft'
  BY <1>2 DEF RetriesAreLeft
<1>3. ASSUME NEW p \in Specialists, Extraction(p) \/ SpecialistCrash(p) PROVE RetriesAreLeft'
  <2>1. CASE Extract(p)
    BY <1>0, <1>2, <2>1 DEF Extract, SGoto, SpecStates
  <2>2. CASE LookForResult(p)
    BY <1>0, <1>2, <2>2 DEF LookForResult, SpecStates
  <2>3. CASE StoreResult(p)
    BY <1>0, <1>2, <2>3 DEF StoreResult, SGoto, SpecStates
  <2>4. CASE MarkSucceeded(p)
    BY <1>0, <1>2, <2>4 DEF MarkSucceeded, SGoto, SEndTask, IdleSpec, SpecStates
  <2>5. CASE MarkFailed(p)
    BY <1>0, <1>2, <2>5 DEF MarkFailed, SGoto, SEndTask, IdleSpec, SpecStates
  <2>6. CASE SRetry(p)
    BY <1>0, <1>2, <2>6 DEF SRetry, SEndTask, IdleSpec, SpecStates
  <2>7. CASE SpecialistCrash(p)
    BY <1>0, <1>2, <2>7 DEF SpecialistCrash, SEndTask, IdleSpec, SpecStates
  <2> QED
    BY <1>3, <2>1, <2>2, <2>3, <2>4, <2>5, <2>6, <2>7 DEF Extraction
<1>4. ASSUME NEW p \in Specialists, NEW m \in SMessages, SReceive(p, m) PROVE RetriesAreLeft'
  BY <1>0, <1>2, <1>4 DEF SReceive, SpecStates
<1>5. ASSUME NEW c \in Clients,
             \/ EnsureSpecialists(c) \/ ClientCommit(c) \/ ClientCrash(c)
             \/ (\E u \in UnitIds : ReviewUnit(c, u))
             \/ (\E j \in SJobIds : ReplaySpecialist(c, j) \/ ClientSend(c, j))
      PROVE  UNCHANGED spec
  BY <1>5 DEF EnsureSpecialists, ClientCommit, ClientCrash, ReviewUnit, ReplaySpecialist, ClientSend
<1>6. ASSUME NEW t \in Tasks, TReceive(t) \/ ScanTask(t) \/ ScanFails(t) \/ FinalTask(t) \/ TaskCrash(t)
      PROVE  UNCHANGED spec
  <2>1. CASE CommitJobs(t)
    BY <2>1 DEF CommitJobs
  <2>2. CASE \E j \in SJobIds : DispatchJob(t, j)
    BY <2>2 DEF DispatchJob
  <2> QED
    BY <1>6, <2>1, <2>2, WorkerQuiet DEF ScanTask
<1>7. CASE ScanMessage
  BY <1>1, <1>7 DEF ScanMessage, specialistVars
<1>8. CASE UNCHANGED vars
  BY <1>1, <1>8 DEF vars, specialistVars
<1> QED
  BY <1>1, <1>3, <1>4, <1>5, <1>6, <1>7, <1>8 DEF Next, SpecialistStep

LEMMA PlacedStep == Typed /\ Placed /\ RetriesAreLeft /\ [Next]_vars => Placed'
<1> SUFFICES ASSUME Typed, Placed, RetriesAreLeft, [Next]_vars PROVE Placed'
  OBVIOUS
<1>0. FinalTypeOK
  BY DEF Typed
<1>1. CASE SpecialistStep /\ UNCHANGED finalVars
  BY <1>0, <1>1, ClientPlaced, SpecialistPlaced DEF SpecialistStep
<1>2. ASSUME NEW t \in Tasks, TReceive(t) \/ ScanTask(t) \/ ScanFails(t) \/ FinalTask(t) \/ TaskCrash(t)
      PROVE  Placed'
  <2>1. CASE CommitJobs(t) \/ \E j \in SJobIds : DispatchJob(t, j)
    BY <2>1, WorkerSends
  <2>2. CASE ~(CommitJobs(t) \/ \E j \in SJobIds : DispatchJob(t, j))
    BY <1>0, <1>2, <2>2, WorkerQuiet, QuietPlaced DEF ScanTask
  <2> QED
    BY <2>1, <2>2
<1>3. CASE ScanMessage \/ UNCHANGED vars
  <2>1. UNCHANGED <<sStatus, lastSJob, squeue, client, spec, task>>
    BY <1>3 DEF ScanMessage, vars, finalVars, specialistVars, sjobVars
  <2> QED
    BY <1>0, <2>1, QuietPlaced
<1> QED
  BY <1>1, <1>2, <1>3 DEF Next

\* What the theorems below start from.
Steady == Typed /\ Placed /\ RetriesAreLeft

LEMMA AlwaysSteady == Spec => []Steady
<1>1. Init => Steady
  BY TypedInit, PlacedInit DEF Steady, Init, SpecialistInit, RetriesAreLeft, IdleSpec
<1>2. Steady /\ [Next]_vars => Steady'
  BY TypedStep, PlacedStep, RetriesStep DEF Steady, Typed
<1> QED
  BY <1>1, <1>2, PTL DEF Spec

-----------------------------------------------------------------------------
(* The implementation of JobLife. *)

LifeTable == [j \in SJobIds |-> LifeOf(j)]

LEMMA LifeWrite ==
  ASSUME NEW S, NEW s, \A j \in SJobIds : LifeOf(j)' = IF j \in S THEN s ELSE LifeOf(j)
  PROVE  Life!Write(S, s)
BY DEF Life!Write

\* Rows are deleted, or nothing of the table changes.
LEMMA LifeRemove ==
  ASSUME FinalTypeOK, UNCHANGED lastSJob,
         \A j \in SJobIds : sStatus'[j] \in {sStatus[j], "absent"}
  PROVE  Life!Next
<1> DEFINE S == {j \in SJobIds : ~(j > lastSJob) /\ sStatus'[j] = "absent"}
<1>1. \A j \in SJobIds : LifeOf(j)' = IF j \in S THEN "gone" ELSE LifeOf(j)
  BY DEF LifeOf
<1>2. \A j \in S : LifeTable[j] # "new"
  BY DEF LifeTable, LifeOf, FinalTypeOK, SpecialistTypeOK, SStatuses, SActive
<1>3. S \in SUBSET SJobIds
  OBVIOUS
<1> HIDE DEF S
<1>4. Life!Remove(S)
  BY <1>1, <1>2, LifeWrite DEF Life!Remove, LifeTable
<1> QED
  BY <1>3, <1>4 DEF Life!Next

\* Rows are inserted.
LEMMA LifeCreate ==
  ASSUME FinalTypeOK, NEW plan \in SUBSET UnitIds, InsertJobs(plan)
  PROVE  Life!Next
<1> DEFINE S == NewJobs(plan) \cap SJobIds
<1>1. Cardinality(plan) \in Nat /\ lastSJob \in Nat
  BY UnitsOfNew, SpecialistAssumption DEF FinalTypeOK, SpecialistTypeOK
<1>2. lastSJob' = lastSJob + Cardinality(plan)
  BY DEF InsertJobs
<1>3. \A j \in SJobIds : /\ j \in S <=> j > lastSJob /\ ~(j > lastSJob')
                         /\ j > lastSJob' => j > lastSJob
  BY <1>1, <1>2 DEF NewJobs, SJobIds
<1>4. \A j \in SJobIds : sStatus'[j] = IF j \in S THEN "queued" ELSE sStatus[j]
  BY DEF InsertJobs
<1> HIDE DEF S
<1>5. \A j \in SJobIds : LifeOf(j)' = IF j \in S THEN "queued" ELSE LifeOf(j)
  BY <1>3, <1>4 DEF LifeOf
<1>6. S \in SUBSET SJobIds /\ \A j \in S : LifeTable[j] = "new"
  BY <1>3 DEF LifeTable, LifeOf, S
<1>7. Life!Create(S)
  BY <1>5, <1>6, LifeWrite DEF Life!Create, LifeTable
<1> QED
  BY <1>6, <1>7 DEF Life!Next

\* A process writes the row of its job.
LEMMA LifeWork ==
  ASSUME Placed, NEW j \in SJobIds, UNCHANGED lastSJob, NEW h \in Places, Holds(h, j),
         FinalTypeOK, NEW s, WriteJob(j, s),
         \/ s = "processing" /\ sStatus[j] \in {"queued", "failed", "absent"}
         \/ s \in {"succeeded", "failed"} /\ sStatus[j] \in {"processing", "absent"}
  PROVE  [Life!Next]_LifeTable
<1>1. ~(j > lastSJob)
  BY DEF Placed, Unborn
<1>2. CASE sStatus[j] = "absent"
  <2>1. \A i \in SJobIds : sStatus'[i] \in {sStatus[i], "absent"}
    BY <1>2 DEF WriteJob
  <2> QED
    BY <2>1, LifeRemove
<1>3. CASE sStatus[j] # "absent"
  <2>1. \A i \in SJobIds : sStatus'[i] = IF i = j THEN s ELSE sStatus[i]
    BY <1>3 DEF WriteJob, FinalTypeOK, SpecialistTypeOK
  <2>2. s # "absent" /\ LifeTable[j] = sStatus[j]
    BY <1>1, <1>3 DEF LifeTable, LifeOf
  <2>3. \A i \in SJobIds : LifeOf(i)' = IF i \in {j} THEN s ELSE LifeOf(i)
    BY <1>1, <2>1, <2>2 DEF LifeOf
  <2>4. Life!Write({j}, s)
    BY <2>3, LifeWrite
  <2>5. Life!Start(j) \/ Life!Succeed(j) \/ Life!Fail(j)
    BY <1>3, <2>2, <2>4 DEF Life!Start, Life!Succeed, Life!Fail, LifeTable
  <2> QED
    BY <2>5 DEF Life!Next
<1> QED
  BY <1>2, <1>3

\* Specialist processes.
LEMMA LifeOfTasks ==
  ASSUME Steady, UNCHANGED finalVars, NEW p \in Specialists,
         \/ Extraction(p) \/ SpecialistCrash(p)
         \/ (\E m \in SMessages : SReceive(p, m))
  PROVE  [Life!Next]_LifeTable
<1>0. FinalTypeOK /\ Placed /\ RowFits /\ IdleHasNone
  BY DEF Steady, Typed, Placed
<1>1. ASSUME UNCHANGED <<sStatus, lastSJob>> PROVE Life!Next
  BY <1>0, <1>1, LifeRemove
<1>2. ASSUME Extract(p) \/ LookForResult(p) \/ StoreResult(p) \/ SRetry(p) \/ SpecialistCrash(p)
      PROVE  UNCHANGED <<sStatus, lastSJob>>
  BY <1>2 DEF Extract, LookForResult, StoreResult, SRetry, SpecialistCrash, SUnchanged, sjobVars
<1>3. ASSUME MarkSucceeded(p) \/ MarkFailed(p) PROVE [Life!Next]_LifeTable
  <2>1. spec[p].pc \in {"mark", "fail"} /\ UNCHANGED lastSJob
    BY <1>3 DEF MarkSucceeded, MarkFailed, SUnchanged
  <2>2. spec[p].job \in SJobIds /\ sStatus[spec[p].job] \in {"processing", "absent"}
    BY <1>0, <2>1, JobsAreIds DEF RowFits
  <2>3. <<"spec", p>> \in Places /\ Holds(<<"spec", p>>, spec[p].job)
    BY DEF Places, Holds
  <2>4. PICK s \in {"succeeded", "failed"} : WriteJob(spec[p].job, s)
    BY <1>3 DEF MarkSucceeded, MarkFailed
  <2> QED
    BY <1>0, <2>1, <2>2, <2>3, <2>4, LifeWork
<1>4. ASSUME NEW m \in SMessages, SReceive(p, m) PROVE [Life!Next]_LifeTable
  <2>1. m[1] \in SJobIds /\ m[2] \in 0..MaxSRetries /\ m = <<m[1], m[2]>>
    BY <1>0, JobsAreIds
  <2>2. squeue[m] > 0 /\ WriteJob(m[1], "processing") /\ UNCHANGED lastSJob
    BY <1>4 DEF SReceive, SUnchanged
  <2>3. <<"message", m[2]>> \in Places /\ Holds(<<"message", m[2]>>, m[1])
    BY <2>1, <2>2 DEF Places, Holds
  <2>4. sStatus[m[1]] \in {"queued", "failed", "absent"}
    BY <1>0, <2>2 DEF RowFits
  <2> QED
    BY <1>0, <2>1, <2>2, <2>3, <2>4, LifeWork
<1> QED
  BY <1>1, <1>2, <1>3, <1>4 DEF Extraction

LEMMA LifeStep == Steady /\ [Next]_vars => [Life!Next]_LifeTable
<1> SUFFICES ASSUME Steady, [Next]_vars PROVE [Life!Next]_LifeTable
  OBVIOUS
<1>0. FinalTypeOK
  BY DEF Steady, Typed
<1>1. ASSUME NEW c \in Clients,
             \/ EnsureSpecialists(c) \/ ClientCommit(c) \/ ClientCrash(c)
             \/ (\E u \in UnitIds : ReviewUnit(c, u))
             \/ (\E j \in SJobIds : ReplaySpecialist(c, j) \/ ClientSend(c, j))
      PROVE  [Life!Next]_LifeTable
  <2>1. CASE UNCHANGED <<sStatus, lastSJob>>
    BY <1>0, <2>1, LifeRemove
  <2>2. CASE InsertJobs(client[c].plan)
    <3>1. client[c].plan \in SUBSET UnitIds
      BY <1>0 DEF FinalTypeOK, SpecialistTypeOK, ClientStates
    <3> QED
      BY <1>0, <2>2, <3>1, LifeCreate
  <2> QED
    BY <1>1, <2>1, <2>2 DEF EnsureSpecialists, ClientCommit, ClientCrash, ReviewUnit,
       ReplaySpecialist, ClientSend, sjobVars
<1>2. ASSUME NEW t \in Tasks, TReceive(t) \/ ScanTask(t) \/ ScanFails(t) \/ FinalTask(t) \/ TaskCrash(t)
      PROVE  [Life!Next]_LifeTable
  <2>1. CASE CommitJobs(t)
    <3>1. CASE InsertJobs(task[t].units)
      <4>1. task[t].units \in SUBSET UnitIds
        BY <1>0 DEF FinalTypeOK, TaskStates
      <4> QED
        BY <1>0, <3>1, <4>1, LifeCreate
    <3>2. CASE UNCHANGED sjobVars
      BY <1>0, <3>2, LifeRemove DEF sjobVars
    <3> QED
      BY <2>1, <3>1, <3>2 DEF CommitJobs
  <2>2. CASE \E j \in SJobIds : DispatchJob(t, j)
    BY <1>0, <2>2, LifeRemove DEF DispatchJob, sjobVars
  <2>3. CASE ~(CommitJobs(t) \/ \E j \in SJobIds : DispatchJob(t, j))
    BY <1>0, <1>2, <2>3, WorkerQuiet, LifeRemove DEF ScanTask
  <2> QED
    BY <2>1, <2>2, <2>3
<1>3. CASE ScanMessage \/ UNCHANGED vars
  <2>1. UNCHANGED <<sStatus, lastSJob>>
    BY <1>3 DEF ScanMessage, vars, specialistVars, sjobVars
  <2> QED
    BY <1>0, <2>1, LifeRemove
<1> QED
  BY <1>1, <1>2, <1>3, LifeOfTasks DEF Next, SpecialistStep

\* The table of specialist jobs, with its handlers, retries, deletions and crashes,
\* implements JobLife: whatever the interleaving, a job is queued once, comes back
\* only from failed, and nothing but its deletion changes one that succeeded.
THEOREM JobsLiveAsPromised == Spec => JobsFollowLife
<1>1. Init => Life!Init
  <2>1. Init => \A j \in SJobIds : LifeOf(j) = "new"
    BY DEF Init, SpecialistInit, LifeOf, SJobIds
  <2> QED
    BY <2>1 DEF Life!Init
<1>2. Steady /\ [Next]_vars => [Life!Next]_[j \in SJobIds |-> LifeOf(j)]
  BY LifeStep DEF LifeTable
<1> QED
  BY <1>1, <1>2, AlwaysSteady, PTL DEF Spec, JobsFollowLife, Life!Spec

-----------------------------------------------------------------------------
(* A job that succeeded has its result. *)

ResultInv == SucceededSpecialistHasResult /\ WorkHasResult

\* Steps that change no result and no status, insert no job and do no work.
LEMMA ResultKept ==
  ASSUME ResultInv, UNCHANGED <<sUnit, sStatus, results, spec>>
  PROVE  ResultInv'
BY DEF ResultInv, SucceededSpecialistHasResult, WorkHasResult

\* Inserted jobs have not succeeded, and nobody works at one.
LEMMA ResultInsert ==
  ASSUME Steady, ResultInv, NEW plan \in SUBSET UnitIds, InsertJobs(plan), UNCHANGED <<results, spec>>
  PROVE  ResultInv'
<1>0. FinalTypeOK /\ Unborn /\ IdleHasNone
  BY DEF Steady, Typed, Placed
<1>1. Cardinality(plan) \in Nat /\ lastSJob \in Nat
  BY <1>0, UnitsOfNew, SpecialistAssumption DEF FinalTypeOK, SpecialistTypeOK
<1>2. \A j \in SJobIds : j \in NewJobs(plan) => j > lastSJob
  BY <1>1 DEF NewJobs, SJobIds
<1>3. /\ \A j \in SJobIds : j \in NewJobs(plan) => sStatus'[j] = "queued"
      /\ \A j \in SJobIds : j \notin NewJobs(plan) => sStatus'[j] = sStatus[j] /\ sUnit'[j] = sUnit[j]
  BY DEF InsertJobs
<1>4. SucceededSpecialistHasResult'
  BY <1>3 DEF ResultInv, SucceededSpecialistHasResult
<1>5. \A p \in Specialists : spec[p].pc # "idle" =>
         spec[p].job \in SJobIds /\ spec[p].job \notin NewJobs(plan)
  <2>1. ASSUME NEW p \in Specialists, spec[p].pc # "idle"
        PROVE  spec[p].job \in SJobIds /\ spec[p].job \notin NewJobs(plan)
    <3>1. spec[p].job \in SJobIds
      BY <1>0, <2>1, JobsAreIds
    <3>2. <<"spec", p>> \in Places /\ Holds(<<"spec", p>>, spec[p].job)
      BY DEF Places, Holds
    <3> QED
      BY <1>0, <1>2, <3>1, <3>2 DEF Unborn
  <2> QED
    BY <2>1
<1>6. WorkHasResult'
  BY <1>3, <1>5 DEF ResultInv, WorkHasResult
<1> QED
  BY <1>4, <1>6 DEF ResultInv

\* Deleting units: what hangs on them goes with them.
LEMMA ResultReplace ==
  ASSUME Steady, ResultInv, NEW t \in Tasks, CommitPipeline(t)
  PROVE  ResultInv'
<1>0. FinalTypeOK /\ IdleHasNone
  BY DEF Steady, Typed, Placed
<1>1. PICK old \in SUBSET UnitIds :
        /\ results' = [u \in UnitIds |-> IF u \in old THEN 0 ELSE results[u]]
        /\ sStatus' = [j \in SJobIds |-> IF sUnit[j] \in old THEN "absent" ELSE sStatus[j]]
  BY <1>0 DEF CommitPipeline, ReplaceUnits, FinalTypeOK, TaskStates
<1>2. UNCHANGED <<sUnit, spec>>
  BY DEF CommitPipeline
<1>3. ASSUME NEW j \in SJobIds, sStatus'[j] # "absent", results[sUnit[j]] > 0
      PROVE  results'[sUnit[j]] > 0
  <2>1. sStatus[j] # "absent" /\ sUnit[j] \notin old
    BY <1>1, <1>3
  <2>2. sUnit[j] \in UnitIds
    BY <2>1 DEF Steady, Typed, JobsHaveUnits
  <2> QED
    BY <1>1, <1>3, <2>1, <2>2
<1>4. \A j \in SJobIds : sStatus'[j] \in {sStatus[j], "absent"}
  BY <1>1
<1>5. SucceededSpecialistHasResult'
  BY <1>2, <1>3, <1>4 DEF ResultInv, SucceededSpecialistHasResult
<1>6. \A p \in Specialists : spec[p].pc # "idle" => spec[p].job \in SJobIds
  BY <1>0, JobsAreIds
<1>7. WorkHasResult'
  BY <1>2, <1>3, <1>4, <1>6 DEF ResultInv, WorkHasResult
<1> QED
  BY <1>5, <1>7 DEF ResultInv

\* The process that works: it finds or stores the result before it marks its job.
LEMMA ResultWork ==
  ASSUME Steady, ResultInv, UNCHANGED finalVars, NEW p \in Specialists,
         \/ Extraction(p) \/ SpecialistCrash(p)
         \/ (\E m \in SMessages : SReceive(p, m))
  PROVE  ResultInv'
<1>0. /\ FinalTypeOK /\ JobsHaveUnits /\ IdleHasNone /\ OnePlace
      /\ spec \in [Specialists -> SpecStates] /\ results \in [UnitIds -> Nat]
  BY DEF Steady, Typed, Placed, FinalTypeOK, SpecialistTypeOK
<1> DEFINE j == spec[p].job
           Work(q) == \/ spec'[q].pc \notin {"store", "mark"} \/ (spec'[q].pc = "store" /\ ~spec'[q].found)
                      \/ sStatus'[spec'[q].job] = "absent" \/ results'[sUnit'[spec'[q].job]] > 0
\* Steps that lower no count, revive no row, and after which p is right.
<1>1. ASSUME UNCHANGED sUnit, \A q \in Specialists : q # p => spec'[q] = spec[q],
             \A u \in UnitIds : results[u] > 0 => results'[u] > 0,
             \A i \in SJobIds : sStatus[i] = "absent" => sStatus'[i] = "absent",
             \A i \in SJobIds : sStatus'[i] = "succeeded" =>
               sStatus[i] = "succeeded" \/ results[sUnit[i]] > 0,
             Work(p)
      PROVE  ResultInv'
  <2>1. \A i \in SJobIds : sStatus'[i] # "absent" => sUnit[i] \in UnitIds
    BY <1>0, <1>1 DEF JobsHaveUnits
  <2>2. SucceededSpecialistHasResult'
    BY <1>1, <2>1 DEF ResultInv, SucceededSpecialistHasResult
  <2>3. \A q \in Specialists : q # p => Work(q)
    <3>1. \A q \in Specialists : spec[q].pc # "idle" => spec[q].job \in SJobIds
      BY <1>0, JobsAreIds
    <3> QED
      BY <1>1, <2>1, <3>1 DEF ResultInv, WorkHasResult
  <2>4. WorkHasResult'
    BY <1>1, <2>3 DEF WorkHasResult
  <2> QED
    BY <2>2, <2>4 DEF ResultInv
<1>2. spec[p].pc # "idle" => j \in SJobIds
  BY <1>0, JobsAreIds
<1>3. CASE Extract(p)
  <2>1. /\ spec'[p].pc \in {"look", "fail"} /\ \A q \in Specialists : q # p => spec'[q] = spec[q]
        /\ UNCHANGED <<sUnit, sStatus, results>>
    BY <1>0, <1>3 DEF Extract, SGoto, SUnchanged, SpecStates
  <2> QED
    BY <1>1, <2>1
<1>4. CASE LookForResult(p)
  <2>1. UNCHANGED <<sUnit, sStatus, results>>
    BY <1>4 DEF LookForResult, SUnchanged
  <2>2. /\ spec'[p].pc \in {"fail", "store"} /\ \A q \in Specialists : q # p => spec'[q] = spec[q]
        /\ spec'[p].job = j /\ (spec'[p].found <=> results[sUnit[j]] = 1)
    BY <1>0, <1>4 DEF LookForResult, SpecStates
  <2>3. Work(p)
    BY <2>1, <2>2
  <2> QED
    BY <1>1, <2>1, <2>2, <2>3
<1>5. CASE StoreResult(p)
  <2>1. /\ UNCHANGED <<sUnit, sStatus>> /\ spec[p].pc = "store"
        /\ \A q \in Specialists : q # p => spec'[q] = spec[q]
        /\ spec'[p].job = j /\ spec'[p].pc \in {"mark", "fail"}
    BY <1>0, <1>5 DEF StoreResult, SGoto, SUnchanged, SpecStates
  <2>2. CASE spec'[p].pc = "fail"
    <3>1. UNCHANGED results
      BY <1>0, <1>5, <2>2 DEF StoreResult, SGoto, SpecStates
    <3> QED
      BY <1>1, <2>1, <2>2, <3>1
  <2>3. CASE spec'[p].pc = "mark"
    <3>1. /\ sUnit[j] \in LiveUnits
          /\ results' = [results EXCEPT ![sUnit[j]] = IF spec[p].found THEN results[sUnit[j]]
                                                      ELSE results[sUnit[j]] + 1]
      BY <1>0, <1>5, <2>3 DEF StoreResult, SGoto, SpecStates
    <3>2. sUnit[j] \in UnitIds
      BY <3>1 DEF LiveUnits
    <3>3. \A u \in UnitIds : results[u] > 0 => results'[u] > 0
      BY <1>0, <3>1, <3>2
    <3>4. sStatus[j] # "absent" => results'[sUnit[j]] > 0
      <4>1. CASE spec[p].found
        <5>1. sStatus[j] # "absent" => results[sUnit[j]] > 0
          BY <2>1, <4>1 DEF ResultInv, WorkHasResult
        <5> QED
          BY <3>2, <3>3, <5>1
      <4>2. CASE ~spec[p].found
        BY <1>0, <3>1, <3>2, <4>2
      <4> QED
        BY <4>1, <4>2
    <3>5. Work(p)
      BY <2>1, <3>4
    <3> QED
      BY <1>1, <2>1, <3>3, <3>5
  <2> QED
    BY <2>1, <2>2, <2>3
<1>6. CASE MarkSucceeded(p)
  <2>1. /\ UNCHANGED <<sUnit, results>> /\ spec[p].pc = "mark"
        /\ \A q \in Specialists : q # p => spec'[q] = spec[q]
        /\ spec'[p].pc \in {"idle", "fail"}
    BY <1>0, <1>6 DEF MarkSucceeded, SGoto, SEndTask, IdleSpec, SUnchanged, SpecStates
  <2>2. /\ sStatus[j] = "absent" => sStatus'[j] = "absent"
        /\ \A i \in SJobIds : i # j => sStatus'[i] = sStatus[i]
    BY <1>6 DEF MarkSucceeded, WriteJob, FinalTypeOK, SpecialistTypeOK
  <2>3. sStatus[j] # "absent" => results[sUnit[j]] > 0
    BY <2>1 DEF ResultInv, WorkHasResult
  <2>4. \A i \in SJobIds : sStatus[i] = "absent" => sStatus'[i] = "absent"
    BY <2>2
  <2>5. \A i \in SJobIds : sStatus'[i] = "succeeded" =>
               sStatus[i] = "succeeded" \/ results[sUnit[i]] > 0
    BY <2>2, <2>3
  <2> QED
    BY <1>1, <2>1, <2>4, <2>5
<1>7. CASE MarkFailed(p)
  <2>1. /\ UNCHANGED <<sUnit, results>> /\ \A q \in Specialists : q # p => spec'[q] = spec[q]
        /\ spec'[p].pc \in {"idle", "retry"}
    BY <1>0, <1>7 DEF MarkFailed, SGoto, SEndTask, IdleSpec, SUnchanged, SpecStates
  <2>2. \A i \in SJobIds : /\ sStatus[i] = "absent" => sStatus'[i] = "absent"
                           /\ sStatus'[i] = "succeeded" => sStatus[i] = "succeeded"
    BY <1>0, <1>7 DEF MarkFailed, WriteJob, FinalTypeOK, SpecialistTypeOK
  <2> QED
    BY <1>1, <2>1, <2>2
<1>8. CASE SRetry(p) \/ SpecialistCrash(p)
  <2>1. /\ UNCHANGED <<sUnit, sStatus, results>> /\ spec'[p].pc = "idle"
        /\ \A q \in Specialists : q # p => spec'[q] = spec[q]
    BY <1>0, <1>8 DEF SRetry, SpecialistCrash, SEndTask, IdleSpec, SUnchanged, SpecStates, sjobVars
  <2> QED
    BY <1>1, <2>1
<1>9. ASSUME NEW m \in SMessages, SReceive(p, m) PROVE ResultInv'
  <2>1. /\ UNCHANGED <<sUnit, results>> /\ spec'[p].pc = "extract"
        /\ \A q \in Specialists : q # p => spec'[q] = spec[q]
    BY <1>0, <1>9 DEF SReceive, SUnchanged
  <2>2. \A i \in SJobIds : /\ sStatus[i] = "absent" => sStatus'[i] = "absent"
                           /\ sStatus'[i] = "succeeded" => sStatus[i] = "succeeded"
    BY <1>0, <1>9 DEF SReceive, WriteJob, FinalTypeOK, SpecialistTypeOK
  <2> QED
    BY <1>1, <2>1, <2>2
<1> QED
  BY <1>3, <1>4, <1>5, <1>6, <1>7, <1>8, <1>9 DEF Extraction

LEMMA ResultStep == Steady /\ ResultInv /\ [Next]_vars => ResultInv'
<1> SUFFICES ASSUME Steady, ResultInv, [Next]_vars PROVE ResultInv'
  OBVIOUS
<1>0. FinalTypeOK
  BY DEF Steady, Typed
<1>1. ASSUME NEW c \in Clients,
             \/ EnsureSpecialists(c) \/ ClientCommit(c) \/ ClientCrash(c)
             \/ (\E u \in UnitIds : ReviewUnit(c, u))
             \/ (\E j \in SJobIds : ReplaySpecialist(c, j) \/ ClientSend(c, j))
      PROVE  ResultInv'
  <2>1. CASE UNCHANGED <<sUnit, sStatus, results, spec>>
    BY <2>1, ResultKept
  <2>2. CASE InsertJobs(client[c].plan) /\ UNCHANGED <<results, spec>>
    <3>1. client[c].plan \in SUBSET UnitIds
      BY <1>0 DEF FinalTypeOK, SpecialistTypeOK, ClientStates
    <3> QED
      BY <2>2, <3>1, ResultInsert
  <2> QED
    BY <1>1, <2>1, <2>2 DEF EnsureSpecialists, ClientCommit, ClientCrash, ReviewUnit,
       ReplaySpecialist, ClientSend, sjobVars
<1>2. ASSUME NEW t \in Tasks, TReceive(t) \/ ScanTask(t) \/ ScanFails(t) \/ FinalTask(t) \/ TaskCrash(t)
      PROVE  ResultInv'
  <2>1. CASE CommitJobs(t)
    <3>1. task[t].units \in SUBSET UnitIds
      BY <1>0 DEF FinalTypeOK, TaskStates
    <3> QED
      BY <2>1, <3>1, ResultInsert, ResultKept DEF CommitJobs, sjobVars
  <2>2. CASE CommitPipeline(t)
    BY <2>2, ResultReplace
  <2>3. CASE ~(CommitJobs(t) \/ CommitPipeline(t))
    <3> USE DEF specialistVars, unitVars, sjobVars
    <3>1. ASSUME TReceive(t) PROVE UNCHANGED <<sUnit, sStatus, results, spec>>
      BY <3>1 DEF TReceive, StartPipeline, FinalReceive
    <3>2. ASSUME ScanTask(t) PROVE UNCHANGED <<sUnit, sStatus, results, spec>>
      BY <2>3, <3>2 DEF ScanTask, RetryScan, EnsureJobs, DispatchJob, FindFinalJob, InsertFinalJob, Notify
    <3>3. ASSUME FinalTask(t) PROVE UNCHANGED <<sUnit, sStatus, results, spec>>
      BY <3>3 DEF FinalTask, Begin, Check, AssignTopics, Refresh, Unlock, Defer, Resend, FinalFails, RetryFinal
    <3>4. ASSUME ScanFails(t) \/ TaskCrash(t) PROVE UNCHANGED <<sUnit, sStatus, results, spec>>
      BY <3>4 DEF ScanFails, TaskCrash
    <3> QED
      BY <1>2, <3>1, <3>2, <3>3, <3>4, ResultKept
  <2> QED
    BY <2>1, <2>2, <2>3
<1>3. CASE ScanMessage \/ UNCHANGED vars
  <2>1. UNCHANGED <<sUnit, sStatus, results, spec>>
    BY <1>3 DEF ScanMessage, vars, specialistVars, sjobVars
  <2> QED
    BY <2>1, ResultKept
<1> QED
  BY <1>1, <1>2, <1>3, ResultWork DEF Next, SpecialistStep

\* A specialist job says succeeded only while its unit has a result: the process that
\* marks it has found or stored one, and what deletes the result deletes the job.
THEOREM SucceededSpecialistsHaveResults == Spec => []SucceededSpecialistHasResult
<1>1. Init => ResultInv
  BY DEF Init, SpecialistInit, ResultInv, SucceededSpecialistHasResult, WorkHasResult, IdleSpec
<1>2. ResultInv => SucceededSpecialistHasResult
  BY DEF ResultInv
<1> QED
  BY <1>1, <1>2, ResultStep, AlwaysSteady, PTL DEF Spec

-----------------------------------------------------------------------------
(* A job that is queued or processing is somewhere. *)

\* Lists are those of senders, also after a step.
LEMMA SendersStep == FinalTypeOK /\ SendersSend /\ [Next]_vars => SendersSend'
<1> SUFFICES ASSUME FinalTypeOK, SendersSend, [Next]_vars PROVE SendersSend'
  OBVIOUS
<1> DEFINE CS == \A c \in Clients : client[c].pc # "send" => client[c].send = {}
           TS == crashes = 0 => \A t \in Tasks : task[t].pc # "dispatch" => task[t].send = {}
<1>0. /\ client \in [Clients -> ClientStates] /\ task \in [Tasks -> TaskStates] /\ crashes \in Nat
      /\ CS /\ TS
  BY SpecialistAssumption DEF FinalTypeOK, SpecialistTypeOK, SendersSend
<1>1. CASE SpecialistStep /\ UNCHANGED finalVars
  <2>1. ASSUME NEW c \in Clients,
               \/ EnsureSpecialists(c) \/ ClientCommit(c) \/ ClientCrash(c)
               \/ (\E u \in UnitIds : ReviewUnit(c, u))
               \/ (\E j \in SJobIds : ReplaySpecialist(c, j) \/ ClientSend(c, j))
        PROVE  CS' /\ (crashes' = 0 => crashes = 0)
    <3>1. CASE EnsureSpecialists(c)
      BY <1>0, <3>1 DEF EnsureSpecialists
    <3>2. CASE ClientCommit(c)
      BY <1>0, <3>2 DEF ClientCommit, IdleClient
    <3>3. CASE ClientCrash(c)
      BY <1>0, <3>3 DEF ClientCrash, IdleClient
    <3>4. CASE \E u \in UnitIds : ReviewUnit(c, u)
      BY <1>0, <3>4 DEF ReviewUnit
    <3>5. CASE \E j \in SJobIds : ReplaySpecialist(c, j)
      BY <1>0, <3>5 DEF ReplaySpecialist
    <3>6. ASSUME NEW j \in SJobIds, ClientSend(c, j) PROVE CS' /\ (crashes' = 0 => crashes = 0)
      <4>1. CASE client[c].send = {j}
        BY <1>0, <3>6, <4>1 DEF ClientSend, IdleClient
      <4>2. CASE client[c].send # {j}
        BY <1>0, <3>6, <4>2 DEF ClientSend, ClientStates
      <4> QED
        BY <4>1, <4>2
    <3> QED
      BY <2>1, <3>1, <3>2, <3>3, <3>4, <3>5, <3>6
  <2>2. ASSUME NEW p \in Specialists,
               \/ Extraction(p) \/ SpecialistCrash(p) \/ (\E m \in SMessages : SReceive(p, m))
        PROVE  UNCHANGED client /\ (crashes' = 0 => crashes = 0)
    BY <1>0, <2>2 DEF Extraction, Extract, LookForResult, StoreResult, MarkSucceeded, MarkFailed, SRetry,
       SUnchanged, SpecialistCrash, SReceive
  <2>3. CS' /\ (crashes' = 0 => crashes = 0)
    BY <1>0, <1>1, <2>1, <2>2 DEF SpecialistStep
  <2> QED
    BY <1>0, <1>1, <2>3 DEF SendersSend, finalVars
<1>2. ASSUME NEW t \in Tasks, TReceive(t) \/ ScanTask(t) \/ ScanFails(t) \/ FinalTask(t) \/ TaskCrash(t)
      PROVE  SendersSend'
  <2>1. UNCHANGED client
    <3>1. CASE CommitJobs(t) \/ \E j \in SJobIds : DispatchJob(t, j)
      BY <3>1 DEF CommitJobs, DispatchJob
    <3>2. CASE ~(CommitJobs(t) \/ \E j \in SJobIds : DispatchJob(t, j))
      BY <1>2, <3>2, WorkerQuiet DEF ScanTask
    <3> QED
      BY <3>1, <3>2
  <2>2. TS'
    <3> USE DEF specialistVars, FinalUnchanged, TGoto, TEnd, IdleTask, TaskStates
    <3>1. CASE TReceive(t)
      <4>1. UNCHANGED crashes
        BY <3>1 DEF TReceive, StartPipeline, FinalReceive
      <4>2. \A v \in Tasks : task'[v].send = {} \/ task'[v] = task[v]
        <5>1. ASSUME NEW r \in 0..MaxKRetries, StartPipeline(t, r)
              PROVE  \A v \in Tasks : task'[v].send = {} \/ task'[v] = task[v]
          BY <1>0, <5>1 DEF StartPipeline
        <5>2. ASSUME NEW r \in 0..MaxFRetries, FinalReceive(t, r)
              PROVE  \A v \in Tasks : task'[v].send = {} \/ task'[v] = task[v]
          BY <1>0, <5>2 DEF FinalReceive
        <5> QED
          BY <3>1, <5>1, <5>2 DEF TReceive
      <4> QED
        BY <1>0, <4>1, <4>2
    <3>2. CASE RetryScan(t)
      BY <1>0, <3>2 DEF RetryScan
    <3>3. CASE CommitPipeline(t)
      BY <1>0, <3>3 DEF CommitPipeline
    <3>4. CASE EnsureJobs(t)
      BY <1>0, <3>4 DEF EnsureJobs
    <3>5. CASE CommitJobs(t)
      <4>1. UNCHANGED crashes /\ task[t].pc = "jobs"
        BY <3>5 DEF CommitJobs
      <4>2. CASE TGoto(t, "scanfail")
        BY <1>0, <4>1, <4>2
      <4>3. CASE /\ InsertJobs(task[t].units)
                 /\ task' = [task EXCEPT ![t].pc = IF task[t].units = {} THEN "find" ELSE "dispatch",
                                         ![t].units = {}, ![t].send = NewJobs(task[t].units)]
        <5>1. task'[t].send = NewJobs(task[t].units) /\ \A v \in Tasks : v # t => task'[v] = task[v]
          BY <1>0, <4>3
        <5>2. CASE task[t].units = {}
          <6>1. task'[t].send = {}
            <7>1. lastSJob \in Nat
              BY SpecialistAssumption DEF FinalTypeOK, SpecialistTypeOK
            <7>2. Cardinality(task[t].units) = 0
              BY <5>2, FS_EmptySet
            <7> QED
              BY <5>1, <7>1, <7>2 DEF NewJobs
          <6> QED
            BY <1>0, <4>1, <5>1, <6>1
        <5>3. CASE task[t].units # {}
          <6>1. task'[t].pc = "dispatch"
            BY <1>0, <4>3, <5>3
          <6> QED
            BY <1>0, <4>1, <5>1, <6>1
        <5> QED
          BY <5>2, <5>3
      <4> QED
        BY <3>5, <4>2, <4>3 DEF CommitJobs
    <3>6. ASSUME NEW j \in SJobIds, DispatchJob(t, j) PROVE TS'
      <4>1. CASE task[t].send = {j}
        BY <1>0, <3>6, <4>1 DEF DispatchJob
      <4>2. CASE task[t].send # {j}
        BY <1>0, <3>6, <4>2 DEF DispatchJob
      <4> QED
        BY <4>1, <4>2
    <3>7. CASE FindFinalJob(t) \/ InsertFinalJob(t) \/ Notify(t)
      <4>1. PICK pc \in {"insert", "notify", "idle"} :
              task' = [task EXCEPT ![t].pc = pc] \/ task' = [task EXCEPT ![t] = IdleTask]
        BY <3>7 DEF FindFinalJob, InsertFinalJob, Notify
      <4>2. task[t].pc # "dispatch" /\ UNCHANGED crashes
        BY <3>7 DEF FindFinalJob, InsertFinalJob, Notify
      <4> QED
        BY <1>0, <4>1, <4>2
    <3>8. CASE ScanFails(t)
      <4>1. CASE task[t].pc = "pipeline" /\ UNCHANGED crashes
        BY <1>0, <3>8, <4>1 DEF ScanFails
      <4>2. CASE crashes' = crashes + 1
        BY <1>0, <4>2
      <4> QED
        BY <3>8, <4>1, <4>2 DEF ScanFails
    <3>9. CASE FinalTask(t)
      <4>1. task[t].pc # "dispatch" /\ task'[t].pc # "dispatch" /\ task'[t].send \subseteq task[t].send
        <5>1. task[t].pc # "dispatch"
          BY <3>9 DEF FinalTask, Begin, Check, AssignTopics, Refresh, Unlock, Defer, Resend, FinalFails, RetryFinal
        <5>2. task'[t].send \subseteq task[t].send
          BY <3>9, WorkerQuiet
        <5>3. task'[t].pc # "dispatch"
          BY <1>0, <3>9 DEF FinalTask, Begin, Check, AssignTopics, Refresh, Unlock, Defer, Resend,
             FinalFails, RetryFinal
        <5> QED
          BY <5>1, <5>2, <5>3
      <4>2. \A v \in Tasks : v # t => task'[v] = task[v]
        BY <1>0, <3>9 DEF FinalTask, Begin, Check, AssignTopics, Refresh, Unlock, Defer, Resend,
           FinalFails, RetryFinal
      <4>3. crashes' = 0 => crashes = 0
        BY <1>0, <3>9 DEF FinalTask, Begin, Check, AssignTopics, Refresh, Unlock, Defer, Resend,
           FinalFails, RetryFinal
      <4> QED
        BY <1>0, <4>1, <4>2, <4>3
    <3>10. CASE TaskCrash(t)
      BY <1>0, <3>10 DEF TaskCrash
    <3> QED
      BY <1>2, <3>1, <3>2, <3>3, <3>4, <3>5, <3>6, <3>7, <3>8, <3>9, <3>10 DEF ScanTask
  <2> QED
    BY <1>0, <2>1, <2>2 DEF SendersSend
<1>3. CASE ScanMessage \/ UNCHANGED vars
  BY <1>0, <1>3 DEF ScanMessage, vars, specialistVars, finalVars, SendersSend
<1> QED
  BY <1>1, <1>2, <1>3 DEF Next

Driven(j) == HasMessage(j) \/ HasSender(j) \/ HasTask(j)

\* Steps that take no job from where it is and make no row active.
LEMMA DrivenKept ==
  ASSUME ActiveSpecialistIsDriven, crashes' = 0 => crashes = 0, UNCHANGED squeue,
         \A c \in Clients : client[c].send \subseteq client'[c].send,
         crashes' = 0 => \A t \in Tasks : task[t].send \subseteq task'[t].send,
         \A j \in SJobIds : sStatus'[j] \in SActive =>
           /\ sStatus[j] \in SActive
           /\ \A p \in Specialists : spec[p].job = j => spec'[p].job = j
  PROVE  ActiveSpecialistIsDriven'
<1> SUFFICES ASSUME crashes' = 0, NEW j \in SJobIds, sStatus'[j] \in SActive PROVE Driven(j)'
  BY DEF ActiveSpecialistIsDriven, Driven
<1>1. Driven(j)
  BY DEF ActiveSpecialistIsDriven, Driven
<1> QED
  BY <1>1 DEF Driven, HasMessage, HasSender, HasTask

\* Inserted jobs are on the list of who inserted them.
LEMMA DrivenInsert ==
  ASSUME ActiveSpecialistIsDriven, NEW plan \in SUBSET UnitIds, InsertJobs(plan),
         crashes' = 0 => crashes = 0, UNCHANGED <<squeue, spec>>,
         \/ \E c \in Clients : NewJobs(plan) \subseteq client'[c].send
         \/ \E t \in Tasks : NewJobs(plan) \subseteq task'[t].send,
         \A c \in Clients : client[c].send \subseteq client'[c].send,
         crashes' = 0 => \A t \in Tasks : task[t].send \subseteq task'[t].send
  PROVE  ActiveSpecialistIsDriven'
<1> SUFFICES ASSUME crashes' = 0, NEW j \in SJobIds, sStatus'[j] \in SActive PROVE Driven(j)'
  BY DEF ActiveSpecialistIsDriven, Driven
<1>1. CASE j \in NewJobs(plan)
  BY <1>1 DEF Driven, HasSender
<1>2. CASE j \notin NewJobs(plan)
  <2>1. sStatus'[j] = sStatus[j]
    BY <1>2 DEF InsertJobs
  <2>2. Driven(j)
    BY <2>1 DEF ActiveSpecialistIsDriven, Driven
  <2> QED
    BY <2>2 DEF Driven, HasMessage, HasSender, HasTask
<1> QED
  BY <1>1, <1>2

\* A job that is sent has a message.
LEMMA DrivenSend ==
  ASSUME FinalTypeOK, ActiveSpecialistIsDriven, crashes' = 0 => crashes = 0, UNCHANGED sStatus,
         NEW j \in SJobIds, NEW r \in 0..MaxSRetries, SendJob(j, r),
         \A c \in Clients : client[c].send \ {j} \subseteq client'[c].send,
         \A t \in Tasks : task[t].send \ {j} \subseteq task'[t].send,
         \A p \in Specialists : spec[p].job = j \/ spec'[p].job = spec[p].job
  PROVE  ActiveSpecialistIsDriven'
<1> SUFFICES ASSUME crashes' = 0, NEW i \in SJobIds, sStatus'[i] \in SActive PROVE Driven(i)'
  BY DEF ActiveSpecialistIsDriven, Driven
<1>1. Driven(i)
  BY DEF ActiveSpecialistIsDriven, Driven
<1>2. \A m \in SMessages : squeue[m] > 0 => squeue'[m] > 0
  <2>1. ASSUME NEW m \in SMessages, squeue[m] > 0 PROVE squeue'[m] > 0
    <3>1. squeue[m] \in Nat /\ (squeue'[m] = squeue[m] \/ squeue'[m] = squeue[m] + 1)
      BY SentCounts
    <3> QED
      BY <2>1, <3>1
  <2> QED
    BY <2>1
<1>3. squeue'[<<j, r>>] > 0
  <2>1. squeue'[<<j, r>>] = squeue[<<j, r>>] + 1 /\ squeue[<<j, r>>] \in Nat
    BY SentCounts
  <2> QED
    BY <2>1
<1>4. CASE i = j
  BY <1>3, <1>4 DEF Driven, HasMessage
<1>5. CASE i # j
  <2>1. HasMessage(i) => HasMessage(i)'
    BY <1>2 DEF HasMessage, SMessages
  <2>2. HasSender(i) => HasSender(i)'
    BY <1>5 DEF HasSender
  <2>3. HasTask(i) => HasTask(i)'
    BY <1>5 DEF HasTask
  <2> QED
    BY <1>1, <2>1, <2>2, <2>3 DEF Driven
<1> QED
  BY <1>4, <1>5

LEMMA DrivenByClients ==
  ASSUME Steady, SendersSend, ActiveSpecialistIsDriven, UNCHANGED finalVars, NEW c \in Clients,
         \/ EnsureSpecialists(c) \/ ClientCommit(c) \/ ClientCrash(c)
         \/ (\E u \in UnitIds : ReviewUnit(c, u))
         \/ (\E j \in SJobIds : ReplaySpecialist(c, j) \/ ClientSend(c, j))
  PROVE  ActiveSpecialistIsDriven'
<1> USE DEF sjobVars, unitVars, finalVars, IdleClient
<1>0. FinalTypeOK /\ client \in [Clients -> ClientStates] /\ 0 \in 0..MaxSRetries /\ crashes \in Nat
  BY SpecialistAssumption DEF Steady, Typed, FinalTypeOK, SpecialistTypeOK
<1>1. client[c].pc # "send" => client[c].send = {}
  BY DEF SendersSend
<1>2. CASE EnsureSpecialists(c) \/ \E j \in SJobIds : ReplaySpecialist(c, j)
  <2>1. \A d \in Clients : client[d].send \subseteq client'[d].send
    BY <1>0, <1>1, <1>2 DEF EnsureSpecialists, ReplaySpecialist, AcceptCall
  <2> QED
    BY <1>2, <2>1, DrivenKept DEF EnsureSpecialists, ReplaySpecialist
<1>3. CASE \E u \in UnitIds : ReviewUnit(c, u)
  BY <1>3, DrivenKept DEF ReviewUnit
<1>4. CASE ClientCrash(c)
  <2>1. crashes' # 0
    BY <1>0, <1>4 DEF ClientCrash
  <2> QED
    BY <2>1 DEF ActiveSpecialistIsDriven
<1>5. CASE ClientCommit(c)
  <2>1. client[c].send = {} /\ UNCHANGED <<crashes, squeue, spec, task>>
    BY <1>1, <1>5 DEF ClientCommit
  <2>2. CASE InsertJobs(client[c].plan) /\ client' = [client EXCEPT ![c] =
                 [pc |-> "send", plan |-> {}, send |-> NewJobs(client[c].plan)]]
    <3>1. client[c].plan \in SUBSET UnitIds
      BY <1>0 DEF ClientStates
    <3>2. /\ NewJobs(client[c].plan) \subseteq client'[c].send
          /\ \A d \in Clients : client[d].send \subseteq client'[d].send
      BY <1>0, <2>1, <2>2
    <3> QED
      BY <2>1, <2>2, <3>1, <3>2, DrivenInsert
  <2>3. CASE client' = [client EXCEPT ![c] = IdleClient] /\ UNCHANGED sjobVars
    <3>1. \A d \in Clients : client[d].send \subseteq client'[d].send
      BY <1>0, <2>1, <2>3
    <3> QED
      BY <2>1, <2>3, <3>1, DrivenKept
  <2> QED
    BY <1>5, <2>2, <2>3 DEF ClientCommit
<1>6. ASSUME NEW j \in SJobIds, ClientSend(c, j) PROVE ActiveSpecialistIsDriven'
  <2>1. \A d \in Clients : client[d].send \ {j} \subseteq client'[d].send
    <3>1. CASE client[c].send = {j}
      BY <1>0, <1>6, <3>1 DEF ClientSend
    <3>2. CASE client[c].send # {j}
      BY <1>0, <1>6, <3>2 DEF ClientSend, ClientStates
    <3> QED
      BY <3>1, <3>2
  <2>2. CASE SendJob(j, 0)
    BY <1>0, <1>6, <2>1, <2>2, DrivenSend DEF ClientSend
  <2>3. CASE sStatus[j] = "absent" /\ UNCHANGED squeue
    <3> SUFFICES ASSUME crashes' = 0, NEW i \in SJobIds, sStatus'[i] \in SActive PROVE Driven(i)'
      BY DEF ActiveSpecialistIsDriven, Driven
    <3>1. i # j /\ Driven(i) /\ UNCHANGED <<task, spec>>
      BY <1>6, <2>3 DEF ClientSend, ActiveSpecialistIsDriven, Driven, SActive
    <3> QED
      BY <2>1, <2>3, <3>1 DEF Driven, HasMessage, HasSender, HasTask
  <2> QED
    BY <1>6, <2>2, <2>3 DEF ClientSend
<1> QED
  BY <1>2, <1>3, <1>4, <1>5, <1>6

LEMMA DrivenBySpecialists ==
  ASSUME Steady, ActiveSpecialistIsDriven, UNCHANGED finalVars, NEW p \in Specialists,
         \/ Extraction(p) \/ SpecialistCrash(p)
         \/ (\E m \in SMessages : SReceive(p, m))
  PROVE  ActiveSpecialistIsDriven'
<1>0. /\ FinalTypeOK /\ IdleHasNone /\ RetriesAreLeft /\ crashes \in Nat
      /\ spec \in [Specialists -> SpecStates]
  BY SpecialistAssumption DEF Steady, Typed, Placed, FinalTypeOK, SpecialistTypeOK
<1>1. CASE Extract(p) \/ LookForResult(p) \/ StoreResult(p)
  <2>1. UNCHANGED <<sStatus, squeue, client, task, crashes>>
    BY <1>1 DEF Extract, LookForResult, StoreResult, SUnchanged, finalVars
  <2>2. \A q \in Specialists : spec'[q].job = spec[q].job
    <3>1. CASE Extract(p)
      BY <1>0, <3>1 DEF Extract, SGoto, SpecStates
    <3>2. CASE LookForResult(p)
      BY <1>0, <3>2 DEF LookForResult, SpecStates
    <3>3. CASE StoreResult(p)
      BY <1>0, <3>3 DEF StoreResult, SGoto, SpecStates
    <3> QED
      BY <1>1, <3>1, <3>2, <3>3
  <2> QED
    BY <2>1, <2>2, DrivenKept
<1>2. CASE MarkSucceeded(p) \/ MarkFailed(p)
  <2>1. UNCHANGED <<squeue, client, task, crashes>>
    BY <1>2 DEF MarkSucceeded, MarkFailed, SUnchanged, finalVars
  <2>2. PICK s \in {"succeeded", "failed"} : WriteJob(spec[p].job, s)
    BY <1>2 DEF MarkSucceeded, MarkFailed
  <2>3. \A i \in SJobIds : sStatus'[i] \in SActive => sStatus[i] \in SActive /\ i # spec[p].job
    BY <1>0, <2>2 DEF WriteJob, SActive, FinalTypeOK, SpecialistTypeOK
  <2>4. \A q \in Specialists : q # p => spec'[q] = spec[q]
    BY <1>0, <1>2 DEF MarkSucceeded, MarkFailed, SGoto, SEndTask
  <2> QED
    BY <2>1, <2>3, <2>4, DrivenKept
<1>3. CASE SRetry(p)
  <2>1. spec[p].pc = "retry" /\ SendJob(spec[p].job, spec[p].retries + 1)
        /\ UNCHANGED <<sStatus, client, task, crashes>>
    BY <1>3 DEF SRetry, SUnchanged, finalVars
  <2>2. spec[p].job \in SJobIds
    BY <1>0, <2>1, JobsAreIds
  <2>3. spec[p].retries + 1 \in 0..MaxSRetries
    <3>1. spec[p].retries < MaxSRetries /\ spec[p].retries \in 0..MaxSRetries
      BY <1>0, <2>1 DEF RetriesAreLeft, SpecStates
    <3> QED
      BY <3>1, SpecialistAssumption
  <2>4. \A q \in Specialists : q # p => spec'[q] = spec[q]
    BY <1>0, <1>3 DEF SRetry, SEndTask
  <2> QED
    BY <1>0, <2>1, <2>2, <2>3, <2>4, DrivenSend
<1>4. CASE SpecialistCrash(p)
  <2>1. crashes' # 0
    BY <1>0, <1>4 DEF SpecialistCrash
  <2> QED
    BY <2>1 DEF ActiveSpecialistIsDriven
<1>5. ASSUME NEW m \in SMessages, SReceive(p, m) PROVE ActiveSpecialistIsDriven'
  <2> SUFFICES ASSUME crashes' = 0, NEW i \in SJobIds, sStatus'[i] \in SActive PROVE Driven(i)'
    BY DEF ActiveSpecialistIsDriven, Driven
  <2>1. /\ UNCHANGED <<client, task, crashes>> /\ spec[p].job = 0 /\ spec'[p].job = m[1]
        /\ \A q \in Specialists : q # p => spec'[q] = spec[q]
        /\ \A n \in SMessages : n # m => squeue'[n] = squeue[n]
    BY <1>0, <1>5 DEF SReceive, SUnchanged, finalVars, IdleHasNone, FinalTypeOK, SpecialistTypeOK
  <2>2. CASE i = m[1]
    BY <2>1, <2>2 DEF Driven, HasTask
  <2>3. CASE i # m[1]
    <3>1. sStatus'[i] = sStatus[i]
      BY <1>0, <1>5, <2>3 DEF SReceive, WriteJob, FinalTypeOK, SpecialistTypeOK
    <3>2. Driven(i)
      BY <2>1, <3>1 DEF ActiveSpecialistIsDriven, Driven
    <3>3. HasMessage(i) => HasMessage(i)'
      <4>1. \A r \in 0..MaxSRetries : <<i, r>> \in SMessages /\ <<i, r>> # m
        BY <2>3 DEF SMessages
      <4> QED
        BY <2>1, <4>1 DEF HasMessage
    <3>4. HasTask(i) => HasTask(i)'
      BY <2>1 DEF HasTask, SJobIds
    <3>5. HasSender(i) => HasSender(i)'
      BY <2>1 DEF HasSender
    <3> QED
      BY <3>2, <3>3, <3>4, <3>5 DEF Driven
  <2> QED
    BY <2>2, <2>3
<1> QED
  BY <1>1, <1>2, <1>3, <1>4, <1>5 DEF Extraction

LEMMA DrivenByWorker ==
  ASSUME Steady, SendersSend, ActiveSpecialistIsDriven, NEW t \in Tasks,
         TReceive(t) \/ ScanTask(t) \/ ScanFails(t) \/ FinalTask(t) \/ TaskCrash(t)
  PROVE  ActiveSpecialistIsDriven'
<1>0. FinalTypeOK /\ task \in [Tasks -> TaskStates] /\ crashes \in Nat /\ 0 \in 0..MaxSRetries
  BY SpecialistAssumption DEF Steady, Typed, FinalTypeOK, SpecialistTypeOK
<1>1. CASE CommitJobs(t)
  <2>1. /\ UNCHANGED <<squeue, client, spec, crashes>>
        /\ crashes = 0 => task[t].send = {}
    BY <1>1 DEF CommitJobs, SendersSend
  <2>2. CASE /\ InsertJobs(task[t].units)
             /\ task' = [task EXCEPT ![t].pc = IF task[t].units = {} THEN "find" ELSE "dispatch",
                                     ![t].units = {}, ![t].send = NewJobs(task[t].units)]
    <3>1. task[t].units \in SUBSET UnitIds
      BY <1>0 DEF TaskStates
    <3>2. task'[t].send = NewJobs(task[t].units) /\ \A v \in Tasks : v # t => task'[v] = task[v]
      BY <1>0, <2>2 DEF TaskStates
    <3>3. crashes' = 0 => \A v \in Tasks : task[v].send \subseteq task'[v].send
      BY <2>1, <3>2
    <3>4. \E v \in Tasks : NewJobs(task[t].units) \subseteq task'[v].send
      BY <3>2
    <3>5. \A c \in Clients : client[c].send \subseteq client'[c].send
      BY <2>1
    <3> QED
      BY <2>1, <2>2, <3>1, <3>3, <3>4, <3>5, DrivenInsert
  <2>3. CASE TGoto(t, "scanfail") /\ UNCHANGED sjobVars
    <3>1. \A v \in Tasks : task'[v].send = task[v].send
      BY <1>0, <2>3 DEF TGoto, TaskStates
    <3> QED
      BY <2>1, <2>3, <3>1, DrivenKept DEF sjobVars
  <2> QED
    BY <1>1, <2>2, <2>3 DEF CommitJobs
<1>2. ASSUME NEW j \in SJobIds, DispatchJob(t, j) PROVE ActiveSpecialistIsDriven'
  <2>1. \A v \in Tasks : task[v].send \ {j} \subseteq task'[v].send
    <3>1. CASE task[t].send = {j}
      BY <1>0, <1>2, <3>1 DEF DispatchJob
    <3>2. CASE task[t].send # {j}
      BY <1>0, <1>2, <3>2 DEF DispatchJob, TaskStates
    <3> QED
      BY <3>1, <3>2
  <2> QED
    BY <1>0, <1>2, <2>1, DrivenSend DEF DispatchJob, sjobVars
<1>3. CASE ScanFails(t)
  <2>1. \A v \in Tasks : task'[v].send = task[v].send
    BY <1>0, <1>3 DEF ScanFails, TGoto, TaskStates
  <2>2. crashes' = 0 => crashes = 0
    BY <1>0, <1>3 DEF ScanFails
  <2> QED
    BY <1>3, <2>1, <2>2, DrivenKept DEF ScanFails, sjobVars
<1>4. CASE TaskCrash(t)
  <2>1. crashes' # 0
    BY <1>0, <1>4 DEF TaskCrash
  <2> QED
    BY <2>1 DEF ActiveSpecialistIsDriven
<1>5. CASE ~(CommitJobs(t) \/ ScanFails(t) \/ TaskCrash(t) \/ \E j \in SJobIds : DispatchJob(t, j))
  <2>1. /\ UNCHANGED <<squeue, client, spec>>
        /\ \A j \in SJobIds : sStatus'[j] \in {sStatus[j], "absent"}
    BY <1>0, <1>5, WorkerQuiet DEF ScanTask
  <2>2. crashes' = 0 => crashes = 0
    <3>1. ASSUME TReceive(t) PROVE UNCHANGED crashes
      BY <3>1 DEF TReceive, StartPipeline, FinalReceive, specialistVars
    <3>2. ASSUME ScanTask(t) PROVE UNCHANGED crashes
      BY <1>5, <3>2 DEF ScanTask, CommitPipeline, RetryScan, EnsureJobs, FindFinalJob, InsertFinalJob,
         Notify, specialistVars
    <3>3. ASSUME FinalTask(t) PROVE crashes' = 0 => crashes = 0
      BY <1>0, <3>3 DEF FinalTask, Begin, Check, AssignTopics, Refresh, Unlock, Defer, Resend, FinalFails,
         RetryFinal, specialistVars
    <3> QED
      BY <1>5, <3>1, <3>2, <3>3
  <2>3. crashes = 0 => \A v \in Tasks : task[v].send \subseteq task'[v].send
    <3>1. task[t].pc # "dispatch"
      BY <1>5 DEF TReceive, StartPipeline, FinalReceive, ScanTask, CommitPipeline, RetryScan, EnsureJobs,
         FindFinalJob, InsertFinalJob, Notify, FinalTask, Begin, Check, AssignTopics, Refresh, Unlock,
         Defer, Resend, FinalFails, RetryFinal
    <3>2. \A v \in Tasks : v # t => task'[v] = task[v]
      <4> USE DEF TGoto, TEnd
      <4>1. ASSUME TReceive(t) PROVE \A v \in Tasks : v # t => task'[v] = task[v]
        BY <1>0, <4>1 DEF TReceive, StartPipeline, FinalReceive
      <4>2. ASSUME ScanTask(t) PROVE \A v \in Tasks : v # t => task'[v] = task[v]
        BY <1>0, <1>5, <4>2 DEF ScanTask, CommitPipeline, RetryScan, EnsureJobs, FindFinalJob,
           InsertFinalJob, Notify
      <4>3. ASSUME FinalTask(t) PROVE \A v \in Tasks : v # t => task'[v] = task[v]
        BY <1>0, <4>3 DEF FinalTask, Begin, Check, AssignTopics, Refresh, Unlock, Defer, Resend,
           FinalFails, RetryFinal
      <4> QED
        BY <1>5, <4>1, <4>2, <4>3
    <3> QED
      BY <3>1, <3>2 DEF SendersSend
  <2>4. \A j \in SJobIds : sStatus'[j] \in SActive => sStatus[j] \in SActive
    BY <2>1 DEF SActive
  <2> QED
    BY <2>1, <2>2, <2>3, <2>4, DrivenKept
<1> QED
  BY <1>1, <1>2, <1>3, <1>4, <1>5

LEMMA DrivenStep == Steady /\ SendersSend /\ ActiveSpecialistIsDriven /\ [Next]_vars => ActiveSpecialistIsDriven'
<1> SUFFICES ASSUME Steady, SendersSend, ActiveSpecialistIsDriven, [Next]_vars
             PROVE  ActiveSpecialistIsDriven'
  OBVIOUS
<1>1. CASE ScanMessage \/ UNCHANGED vars
  <2>1. UNCHANGED <<sStatus, squeue, client, spec, task, crashes>>
    BY <1>1 DEF ScanMessage, vars, finalVars, specialistVars, sjobVars
  <2> QED
    BY <2>1, DrivenKept
<1> QED
  BY <1>1, DrivenByClients, DrivenBySpecialists, DrivenByWorker DEF Next, SpecialistStep

\* Without crashes, a specialist job that the API shows as queued or processing has a
\* message, somebody about to send it or a process that runs it, although its message
\* was sent after its row was committed and units are deleted under running tasks.
THEOREM ActiveSpecialistsAreDriven == Spec => []ActiveSpecialistIsDriven
<1>1. Init => SendersSend /\ ActiveSpecialistIsDriven
  BY DEF Init, SpecialistInit, SendersSend, ActiveSpecialistIsDriven, IdleClient, IdleTask, SActive
<1>2. Steady /\ SendersSend /\ ActiveSpecialistIsDriven /\ [Next]_vars
        => (SendersSend /\ ActiveSpecialistIsDriven)'
  BY SendersStep, DrivenStep DEF Steady, Typed
<1> QED
  BY <1>1, <1>2, AlwaysSteady, PTL DEF Spec
=============================================================================
