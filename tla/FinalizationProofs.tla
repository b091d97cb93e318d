------------------------- MODULE FinalizationProofs -------------------------
(***************************************************************************)
(* Safety of TopicFinalization, for every number of slots, processes and   *)
(* handlers and every value of the bounds.                                 *)
(***************************************************************************)
EXTENDS TopicFinalization, FiniteSetTheorems, TLAPS

\* What the types leave open: a job that is there has a unit, and the bound on
\* pipeline runs counts those under way.
Piping == {t \in Tasks : task[t].pc = "pipeline"}
JobsHaveUnits == \A j \in SJobIds : sStatus[j] # "absent" => sUnit[j] \in UnitIds
RunsAreCounted == IsFiniteSet(Piping) /\ runs + Cardinality(Piping) <= MaxRuns

Typed == FinalTypeOK /\ JobsHaveUnits /\ RunsAreCounted

\* The empty tables, the empty broker and the idle processes have their types.
LEMMA TypedInit == Init => Typed
<1> SUFFICES ASSUME Init PROVE Typed
  OBVIOUS
<1> USE SpecialistAssumption, FinalizationAssumption DEF Init, SpecialistInit
<1>1. SpecialistTypeOK
  BY DEF SpecialistTypeOK, UnitIds, SJobIds, SMessages, SStatuses, SActive, ClientStates,
         IdleClient, SpecStates, IdleSpec
<1>2. FinalTypeOK
  BY <1>1 DEF FinalTypeOK, FJobIds, FStatuses, TaskStates, IdleTask, ScanPcs, FinalPcs, UnitIds, SJobIds
<1>3. JobsHaveUnits
  BY DEF JobsHaveUnits
<1>4. Piping = {}
  BY DEF Piping, IdleTask
<1>5. RunsAreCounted
  BY <1>4, FS_EmptySet DEF RunsAreCounted
<1> QED
  BY <1>2, <1>3, <1>5 DEF Typed

\* In a finite set of naturals there is an element of every rank.
LEMMA RankExists ==
  ASSUME NEW S \in SUBSET Nat, IsFiniteSet(S), NEW k \in 1..Cardinality(S)
  PROVE  \E u \in S : Cardinality({v \in S : v <= u}) = k
<1> DEFINE Upto(u) == {v \in S : v <= u}
           n == Cardinality(S)
<1>1. n \in Nat
  BY FS_CardinalityType
<1>2. ASSUME NEW u \in S PROVE IsFiniteSet(Upto(u)) /\ Cardinality(Upto(u)) \in 1..n
  <2>1. Upto(u) \in SUBSET S
    OBVIOUS
  <2>2. IsFiniteSet(Upto(u)) /\ Cardinality(Upto(u)) <= n
    BY <2>1, FS_Subset
  <2>3. Cardinality(Upto(u)) \in Nat
    BY <2>2, FS_CardinalityType
  <2>4. u \in Upto(u)
    OBVIOUS
  <2>5. Cardinality(Upto(u)) # 0
    BY <2>2, <2>4, FS_EmptySet
  <2> QED
    BY <1>1, <2>2, <2>3, <2>5
<1>3. ASSUME NEW u \in S, NEW w \in S, u < w PROVE Cardinality(Upto(u)) # Cardinality(Upto(w))
  <2>0. \A v \in S : v <= u => v <= w
    BY <1>3
  <2>1. Upto(u) \in SUBSET Upto(w) /\ w \in Upto(w) /\ w \notin Upto(u)
    <3>1. \A v \in S : v \in Nat
      OBVIOUS
    <3>2. w <= w /\ ~(w <= u)
      BY <1>3, <3>1
    <3> QED
      BY <2>0, <3>2
  <2>2. IsFiniteSet(Upto(w))
    BY <1>2
  <2>3. Upto(u) # Upto(w)
    BY <2>1
  <2> HIDE DEF Upto
  <2>4. Upto(u) \in SUBSET Upto(w)
    BY <2>1
  <2> QED
    BY <2>2, <2>3, <2>4, FS_Subset
<1>4. SUFFICES ASSUME \A u \in S : Cardinality(Upto(u)) # k PROVE FALSE
  OBVIOUS
<1> DEFINE T == (1..n) \ {k}
           f == [u \in S |-> Cardinality(Upto(u))]
<1>5. IsFiniteSet(T) /\ Cardinality(T) = n - 1
  <2>1. IsFiniteSet(1..n) /\ Cardinality(1..n) = n
    BY <1>1, FS_Interval
  <2> QED
    BY <2>1, FS_RemoveElement, ZenonT(40)
<1>6. f \in [S -> T]
  BY <1>2, <1>4
<1>7. \E u, w \in S : u # w /\ f[u] = f[w]
  <2> HIDE DEF f, T
  <2>1. Cardinality(T) < Cardinality(S)
    BY <1>1, <1>5
  <2> QED
    BY <1>5, <1>6, <2>1, FS_PigeonHole
<1>8. PICK u \in S, w \in S : u # w /\ f[u] = f[w]
  BY <1>7
<1>9. u < w \/ w < u
  BY <1>8
<1> QED
  BY <1>3, <1>8, <1>9

\* The rows that commit for a plan have the units of the plan, in its order.
LEMMA UnitsOfNew ==
  ASSUME FinalTypeOK, NEW plan \in SUBSET UnitIds
  PROVE  /\ IsFiniteSet(plan) /\ Cardinality(plan) \in Nat
         /\ \A j \in NewJobs(plan) : UnitOfNew(plan, j) \in plan
<1>1. IsFiniteSet(UnitIds)
  BY SpecialistAssumption, FS_Interval DEF UnitIds
<1>2. IsFiniteSet(plan) /\ Cardinality(plan) \in Nat
  BY <1>1, FS_Subset, FS_CardinalityType
<1>3. ASSUME NEW j \in NewJobs(plan) PROVE UnitOfNew(plan, j) \in plan
  <2>1. j - lastSJob \in 1..Cardinality(plan)
    BY <1>2 DEF NewJobs, FinalTypeOK, SpecialistTypeOK
  <2>2. plan \in SUBSET Nat
    BY DEF UnitIds
  <2>3. \E u \in plan : Cardinality({v \in plan : v <= u}) = j - lastSJob
    BY <1>2, <2>1, <2>2, RankExists
  <2> QED
    BY <2>3 DEF UnitOfNew
<1> QED
  BY <1>2, <1>3

\* Inserting the jobs of a plan keeps the types of the three columns.
LEMMA InsertTyped ==
  ASSUME Typed, NEW plan \in SUBSET UnitIds, InsertJobs(plan)
  PROVE  /\ sUnit' \in [SJobIds -> 0..MaxUnits]
         /\ sStatus' \in [SJobIds -> SStatuses]
         /\ lastSJob' \in 0..MaxSJobs
         /\ JobsHaveUnits'
         /\ NewJobs(plan) \subseteq SJobIds
<1>1. FinalTypeOK /\ JobsHaveUnits
  BY DEF Typed
<1>2. Cardinality(plan) \in Nat /\ \A j \in NewJobs(plan) : UnitOfNew(plan, j) \in UnitIds
  BY <1>1, UnitsOfNew
<1>3. UnitIds \subseteq 0..MaxUnits
  BY SpecialistAssumption DEF UnitIds
<1>4. NewJobs(plan) \subseteq SJobIds
  <2>1. lastSJob \in Nat /\ lastSJob + Cardinality(plan) <= MaxSJobs
    BY <1>1, SpecialistAssumption DEF InsertJobs, FinalTypeOK, SpecialistTypeOK
  <2> QED
    BY <1>2, <2>1, SpecialistAssumption DEF NewJobs, SJobIds
<1>5. sUnit' \in [SJobIds -> 0..MaxUnits] /\ sStatus' \in [SJobIds -> SStatuses]
  BY <1>1, <1>2, <1>3 DEF InsertJobs, FinalTypeOK, SpecialistTypeOK, SStatuses, SActive
<1>6. lastSJob' \in 0..MaxSJobs
  BY <1>1, <1>2, SpecialistAssumption DEF InsertJobs, FinalTypeOK, SpecialistTypeOK
<1>7. JobsHaveUnits'
  BY <1>1, <1>2 DEF InsertJobs, JobsHaveUnits, UnitIds, SJobIds
<1> QED
  BY <1>4, <1>5, <1>6, <1>7

\* Writing a status the table knows, into a row that is there.
LEMMA WriteTyped ==
  ASSUME Typed, NEW j, NEW s \in SStatuses, WriteJob(j, s), UNCHANGED sUnit
  PROVE  sStatus' \in [SJobIds -> SStatuses] /\ JobsHaveUnits'
<1>1. sStatus \in [SJobIds -> SStatuses] /\ JobsHaveUnits
  BY DEF Typed, FinalTypeOK, SpecialistTypeOK
<1>2. \A i \in SJobIds : sStatus'[i] # "absent" => sStatus[i] # "absent"
  BY <1>1 DEF WriteJob
<1> QED
  BY <1>1, <1>2 DEF WriteJob, JobsHaveUnits, UnitIds, SJobIds

\* Handlers keep the types of the specialist tables.
LEMMA ClientTyped ==
  ASSUME Typed, UNCHANGED finalVars, NEW c \in Clients,
         \/ EnsureSpecialists(c) \/ ClientCommit(c) \/ ClientCrash(c)
         \/ (\E u \in UnitIds : ReviewUnit(c, u))
         \/ (\E j \in SJobIds : ReplaySpecialist(c, j) \/ ClientSend(c, j))
  PROVE  SpecialistTypeOK' /\ JobsHaveUnits'
<1> USE SpecialistAssumption
<1>0. SpecialistTypeOK /\ JobsHaveUnits
  BY DEF Typed, FinalTypeOK
<1>1. ASSUME EnsureSpecialists(c) PROVE SpecialistTypeOK' /\ JobsHaveUnits'
  <2>1. Missing \subseteq UnitIds
    BY DEF Missing, LiveUnits
  <2>2. [pc |-> "commit", plan |-> Missing, send |-> {}] \in ClientStates
    BY <2>1 DEF ClientStates
  <2> QED
    BY <1>0, <1>1, <2>2 DEF EnsureSpecialists, AcceptCall, SpecialistTypeOK, JobsHaveUnits,
       unitVars, sjobVars
<1>2. ASSUME ClientCommit(c) PROVE SpecialistTypeOK' /\ JobsHaveUnits'
  <2>1. client[c].plan \in SUBSET UnitIds /\ client[c].pc = "commit"
    BY <1>0, <1>2 DEF ClientCommit, SpecialistTypeOK, ClientStates
  <2>2. CASE InsertJobs(client[c].plan) /\ client' = [client EXCEPT ![c] =
                 [pc |-> "send", plan |-> {}, send |-> NewJobs(client[c].plan)]]
    <3>1. [pc |-> "send", plan |-> {}, send |-> NewJobs(client[c].plan)] \in ClientStates
      BY <2>1, <2>2, InsertTyped DEF ClientStates
    <3>2. client' \in [Clients -> ClientStates]
      BY <1>0, <2>2, <3>1 DEF SpecialistTypeOK
    <3> QED
      BY <1>0, <1>2, <2>1, <2>2, <3>2, InsertTyped DEF ClientCommit, SpecialistTypeOK, unitVars
  <2>3. CASE client' = [client EXCEPT ![c] = IdleClient] /\ UNCHANGED sjobVars
    BY <1>0, <1>2, <2>3 DEF ClientCommit, SpecialistTypeOK, JobsHaveUnits, unitVars, sjobVars,
       IdleClient, ClientStates
  <2> QED
    BY <1>2, <2>2, <2>3 DEF ClientCommit
<1>3. ASSUME ClientCrash(c) PROVE SpecialistTypeOK' /\ JobsHaveUnits'
  BY <1>0, <1>3 DEF ClientCrash, SpecialistTypeOK, JobsHaveUnits, unitVars, sjobVars, IdleClient,
     ClientStates
<1>4. ASSUME NEW u \in UnitIds, ReviewUnit(c, u) PROVE SpecialistTypeOK' /\ JobsHaveUnits'
  BY <1>0, <1>4 DEF ReviewUnit, AcceptCall, SpecialistTypeOK, JobsHaveUnits, sjobVars
<1>5. ASSUME NEW j \in SJobIds, ReplaySpecialist(c, j) PROVE SpecialistTypeOK' /\ JobsHaveUnits'
  <2>1. sUnit[j] \in UnitIds
    BY <1>0, <1>5 DEF ReplaySpecialist, JobsHaveUnits
  <2>2. [pc |-> "commit", plan |-> {sUnit[j]}, send |-> {}] \in ClientStates
    BY <2>1 DEF ClientStates
  <2> QED
    BY <1>0, <1>5, <2>2 DEF ReplaySpecialist, AcceptCall, SpecialistTypeOK, JobsHaveUnits,
       unitVars, sjobVars
<1>6. ASSUME NEW j \in SJobIds, ClientSend(c, j) PROVE SpecialistTypeOK' /\ JobsHaveUnits'
  <2>1. squeue' \in [SMessages -> Nat]
    BY <1>0, <1>6 DEF ClientSend, SendJob, SpecialistTypeOK
  <2>2. client' \in [Clients -> ClientStates]
    <3>1. IdleClient \in ClientStates /\ client[c] \in ClientStates
      BY <1>0 DEF SpecialistTypeOK, ClientStates, IdleClient
    <3>2. [client EXCEPT ![c].send = @ \ {j}] \in [Clients -> ClientStates]
      BY <1>0, <3>1 DEF ClientStates, SpecialistTypeOK
    <3>3. CASE client[c].send = {j}
      <4>1. client' = [client EXCEPT ![c] = IdleClient]
        BY <1>6, <3>3 DEF ClientSend
      <4> QED
        BY <1>0, <3>1, <4>1 DEF SpecialistTypeOK
    <3>4. CASE client[c].send # {j}
      <4>1. client' = [client EXCEPT ![c].send = @ \ {j}]
        BY <1>6, <3>4 DEF ClientSend
      <4> QED
        BY <1>0, <3>2, <4>1 DEF SpecialistTypeOK
    <3> QED
      BY <3>3, <3>4
  <2> QED
    BY <1>0, <1>6, <2>1, <2>2 DEF ClientSend, SpecialistTypeOK, JobsHaveUnits, unitVars, sjobVars
<1> QED
  BY <1>1, <1>2, <1>3, <1>4, <1>5, <1>6

\* A task of a specialist goes on or ends.
LEMMA GotoTyped ==
  ASSUME SpecialistTypeOK, NEW p \in Specialists,
         \/ (\E pc \in {"look", "fail", "store", "mark", "retry"} : SGoto(p, pc))
         \/ SEndTask(p)
  PROVE  spec' \in [Specialists -> SpecStates]
<1> USE SpecialistAssumption DEF SpecialistTypeOK, SpecStates
<1>1. ASSUME NEW pc \in {"look", "fail", "store", "mark", "retry"}, SGoto(p, pc)
      PROVE  spec' \in [Specialists -> SpecStates]
  BY <1>1 DEF SGoto
<1>2. ASSUME SEndTask(p) PROVE spec' \in [Specialists -> SpecStates]
  BY <1>2 DEF SEndTask, IdleSpec
<1> QED
  BY <1>1, <1>2

\* One more of something in a table of counts.
LEMMA CountTyped ==
  ASSUME NEW S, NEW f \in [S -> Nat], NEW k
  PROVE  [f EXCEPT ![k] = f[k] + 1] \in [S -> Nat]
<1>1. ASSUME NEW m \in S PROVE [f EXCEPT ![k] = f[k] + 1][m] \in Nat
  <2>1. f[m] \in Nat
    OBVIOUS
  <2> QED
    BY <2>1
<1> QED
  BY <1>1

\* One more message, of whatever job and number of retries, or one less.
LEMMA QueueTyped ==
  ASSUME SpecialistTypeOK, NEW j, NEW r, SendJob(j, r)
  PROVE  squeue' \in [SMessages -> Nat]
<1>1. squeue' = [squeue EXCEPT ![<<j, r>>] = squeue[<<j, r>>] + 1]
  BY DEF SendJob
<1> QED
  BY <1>1, CountTyped DEF SpecialistTypeOK

\* Specialist processes keep the types of the specialist tables.
LEMMA SpecialistTyped ==
  ASSUME Typed, UNCHANGED finalVars, NEW p \in Specialists,
         \/ Extraction(p) \/ SpecialistCrash(p)
         \/ (\E m \in SMessages : SReceive(p, m))
  PROVE  SpecialistTypeOK' /\ JobsHaveUnits'
<1> USE SpecialistAssumption
<1>0. SpecialistTypeOK /\ JobsHaveUnits
  BY DEF Typed, FinalTypeOK
<1>1. ASSUME NEW m \in SMessages, SReceive(p, m) PROVE SpecialistTypeOK' /\ JobsHaveUnits'
  <2>1. sStatus' \in [SJobIds -> SStatuses] /\ JobsHaveUnits'
    BY <1>1, WriteTyped DEF SReceive, SUnchanged, SStatuses, SActive
  <2>2. m[1] \in 0..MaxSJobs /\ m[2] \in 0..MaxSRetries
    BY DEF SMessages, SJobIds
  <2>3. [pc |-> "extract", job |-> m[1], retries |-> m[2], found |-> FALSE] \in SpecStates
    BY <2>2 DEF SpecStates
  <2>4. squeue' \in [SMessages -> Nat]
    BY <1>0, <1>1 DEF SReceive, SpecialistTypeOK
  <2>5. spec' \in [Specialists -> SpecStates]
    BY <1>0, <1>1, <2>3 DEF SReceive, SpecialistTypeOK
  <2> QED
    BY <1>0, <1>1, <2>1, <2>4, <2>5 DEF SReceive, SUnchanged, SpecialistTypeOK, unitVars
<1>2. ASSUME Extract(p) PROVE SpecialistTypeOK' /\ JobsHaveUnits'
  <2>1. spec' \in [Specialists -> SpecStates]
    BY <1>0, <1>2, GotoTyped DEF Extract
  <2> QED
    BY <1>0, <1>2, <2>1 DEF Extract, SUnchanged, SpecialistTypeOK, JobsHaveUnits, unitVars
<1>3. ASSUME LookForResult(p) PROVE SpecialistTypeOK' /\ JobsHaveUnits'
  <2>1. spec' \in [Specialists -> SpecStates]
    <3>1. PICK pc \in {"fail", "store"}, found \in BOOLEAN :
            spec' = [spec EXCEPT ![p].pc = pc, ![p].found = found]
      BY <1>3 DEF LookForResult
    <3> QED
      BY <1>0, <3>1, ZenonT(40) DEF SpecialistTypeOK, SpecStates
  <2> QED
    BY <1>0, <1>3, <2>1 DEF LookForResult, SUnchanged, SpecialistTypeOK, JobsHaveUnits, unitVars
<1>4. ASSUME StoreResult(p) PROVE SpecialistTypeOK' /\ JobsHaveUnits'
  <2>1. spec' \in [Specialists -> SpecStates]
    BY <1>0, <1>4, GotoTyped DEF StoreResult
  <2>2. results' \in [UnitIds -> Nat]
    BY <1>0, <1>4 DEF StoreResult, SpecialistTypeOK
  <2> QED
    BY <1>0, <1>4, <2>1, <2>2 DEF StoreResult, SUnchanged, SpecialistTypeOK, JobsHaveUnits, unitVars
<1>5. ASSUME MarkSucceeded(p) PROVE SpecialistTypeOK' /\ JobsHaveUnits'
  <2>1. spec' \in [Specialists -> SpecStates]
    BY <1>0, <1>5, GotoTyped DEF MarkSucceeded
  <2>2. sStatus' \in [SJobIds -> SStatuses] /\ JobsHaveUnits'
    BY <1>5, WriteTyped DEF MarkSucceeded, SUnchanged, SStatuses
  <2> QED
    BY <1>0, <1>5, <2>1, <2>2 DEF MarkSucceeded, SUnchanged, SpecialistTypeOK, unitVars
<1>6. ASSUME MarkFailed(p) PROVE SpecialistTypeOK' /\ JobsHaveUnits'
  <2>1. spec' \in [Specialists -> SpecStates]
    BY <1>0, <1>6, GotoTyped DEF MarkFailed
  <2>2. sStatus' \in [SJobIds -> SStatuses] /\ JobsHaveUnits'
    BY <1>6, WriteTyped DEF MarkFailed, SUnchanged, SStatuses
  <2> QED
    BY <1>0, <1>6, <2>1, <2>2 DEF MarkFailed, SUnchanged, SpecialistTypeOK, unitVars
<1>7. ASSUME SRetry(p) PROVE SpecialistTypeOK' /\ JobsHaveUnits'
  <2>1. spec' \in [Specialists -> SpecStates]
    BY <1>0, <1>7, GotoTyped DEF SRetry
  <2>2. squeue' \in [SMessages -> Nat]
    BY <1>0, <1>7, QueueTyped DEF SRetry
  <2> QED
    BY <1>0, <1>7, <2>1, <2>2 DEF SRetry, SUnchanged, SpecialistTypeOK, JobsHaveUnits, unitVars
<1>8. ASSUME SpecialistCrash(p) PROVE SpecialistTypeOK' /\ JobsHaveUnits'
  <2>1. spec' \in [Specialists -> SpecStates]
    BY <1>0, <1>8, GotoTyped DEF SpecialistCrash
  <2> QED
    BY <1>0, <1>8, <2>1 DEF SpecialistCrash, SpecialistTypeOK, JobsHaveUnits, unitVars, sjobVars
<1> QED
  BY <1>1, <1>2, <1>3, <1>4, <1>5, <1>6, <1>7, <1>8 DEF Extraction

\* Neither touches the knowledge worker.
LEMMA SpecialistStepTyped ==
  ASSUME Typed, SpecialistStep, UNCHANGED finalVars
  PROVE  Typed'
<1>1. SpecialistTypeOK' /\ JobsHaveUnits'
  BY ClientTyped, SpecialistTyped DEF SpecialistStep
<1>2. Piping' = Piping
  BY DEF Piping, finalVars
<1> QED
  BY <1>1, <1>2 DEF Typed, FinalTypeOK, finalVars, RunsAreCounted

\* A task of the knowledge worker goes on, or ends; neither starts a pipeline.
LEMMA TGotoTyped ==
  ASSUME Typed, NEW t \in Tasks, UNCHANGED runs,
         \/ (\E pc \in ({"idle"} \cup ScanPcs \cup FinalPcs) \ {"pipeline"} : TGoto(t, pc))
         \/ TEnd(t)
  PROVE  task' \in [Tasks -> TaskStates] /\ RunsAreCounted'
<1>0. task \in [Tasks -> TaskStates] /\ RunsAreCounted
  BY DEF Typed, FinalTypeOK
<1>1. ASSUME NEW pc \in ({"idle"} \cup ScanPcs \cup FinalPcs) \ {"pipeline"}, TGoto(t, pc)
      PROVE  task' \in [Tasks -> TaskStates] /\ Piping' \subseteq Piping
  BY <1>0, <1>1 DEF TGoto, TaskStates, Piping
<1>2. ASSUME TEnd(t) PROVE task' \in [Tasks -> TaskStates] /\ Piping' \subseteq Piping
  BY <1>0, <1>2, FinalizationAssumption DEF TEnd, IdleTask, TaskStates, Piping, ScanPcs, FinalPcs
<1>3. task' \in [Tasks -> TaskStates] /\ Piping' \in SUBSET Piping
  BY <1>1, <1>2
<1>4. IsFiniteSet(Piping') /\ Cardinality(Piping') <= Cardinality(Piping)
  BY <1>0, <1>3, FS_Subset DEF RunsAreCounted
<1>5. Cardinality(Piping') \in Nat /\ Cardinality(Piping) \in Nat /\ runs \in Nat /\ MaxRuns \in Nat
  BY <1>0, <1>4, FS_CardinalityType, FinalizationAssumption DEF RunsAreCounted, Typed, FinalTypeOK
<1> QED
  BY <1>0, <1>3, <1>4, <1>5 DEF RunsAreCounted

\* The same for a step that also changes what the task holds.
LEMMA TaskTyped ==
  ASSUME Typed, NEW t \in Tasks, UNCHANGED runs, NEW s \in TaskStates, s.pc # "pipeline",
         task' = [task EXCEPT ![t] = s]
  PROVE  task' \in [Tasks -> TaskStates] /\ RunsAreCounted'
<1>0. task \in [Tasks -> TaskStates] /\ RunsAreCounted
  BY DEF Typed, FinalTypeOK
<1>3. task' \in [Tasks -> TaskStates] /\ Piping' \in SUBSET Piping
  BY <1>0 DEF Piping
<1>4. IsFiniteSet(Piping') /\ Cardinality(Piping') <= Cardinality(Piping)
  BY <1>0, <1>3, FS_Subset DEF RunsAreCounted
<1>5. Cardinality(Piping') \in Nat /\ Cardinality(Piping) \in Nat /\ runs \in Nat /\ MaxRuns \in Nat
  BY <1>0, <1>4, FS_CardinalityType, FinalizationAssumption DEF RunsAreCounted, Typed, FinalTypeOK
<1> QED
  BY <1>0, <1>3, <1>4, <1>5 DEF RunsAreCounted

\* The pipeline: a run is counted when it starts, and again when it commits.
LEMMA StartTyped ==
  ASSUME Typed, NEW t \in Tasks, NEW r \in 0..MaxKRetries, StartPipeline(t, r)
  PROVE  Typed'
<1>0. FinalTypeOK /\ RunsAreCounted /\ JobsHaveUnits
  BY DEF Typed
<1> DEFINE s == [pc |-> "pipeline", retries |-> r, units |-> LiveUnits, send |-> {}, fjob |-> 0]
<1>1. s \in TaskStates /\ s.pc = "pipeline"
  <2>1. LiveUnits \in SUBSET UnitIds /\ r \in Nat /\ 0 \in 0..MaxFJobs
    BY FinalizationAssumption DEF LiveUnits
  <2> QED
    BY <2>1 DEF TaskStates, ScanPcs
<1>2. task' = [task EXCEPT ![t] = s]
  BY DEF StartPipeline
<1> HIDE DEF s
<1>3. task' \in [Tasks -> TaskStates] /\ Piping' = Piping \cup {t} /\ t \notin Piping
  BY <1>0, <1>1, <1>2, ZenonT(40) DEF FinalTypeOK, Piping, StartPipeline
<1>4. Cardinality(Piping) \in Nat /\ runs + Cardinality(Piping) < MaxRuns
  BY <1>0, FS_CardinalityType DEF RunsAreCounted, StartPipeline, Piping
<1>5. IsFiniteSet(Piping') /\ Cardinality(Piping') = Cardinality(Piping) + 1
  BY <1>0, <1>3, FS_AddElement DEF RunsAreCounted
<1>6. RunsAreCounted'
  BY <1>0, <1>4, <1>5, FinalizationAssumption DEF RunsAreCounted, StartPipeline, FinalTypeOK
<1>7. scanq' \in [0..MaxKRetries -> Nat]
  BY <1>0 DEF StartPipeline, FinalTypeOK
<1> QED
  BY <1>0, <1>3, <1>6, <1>7 DEF Typed, StartPipeline, FinalTypeOK, specialistVars, unitVars, sjobVars,
     SpecialistTypeOK, JobsHaveUnits

\* Deleting units and their jobs, and inserting others.
LEMMA CommitTyped ==
  ASSUME Typed, NEW t \in Tasks, CommitPipeline(t)
  PROVE  Typed'
<1> USE SpecialistAssumption, FinalizationAssumption
<1>0. FinalTypeOK /\ SpecialistTypeOK /\ RunsAreCounted /\ JobsHaveUnits
  BY DEF Typed, FinalTypeOK
<1>1. Piping' = Piping \ {t} /\ t \in Piping /\ task' \in [Tasks -> TaskStates]
  BY <1>0, ZenonT(40) DEF CommitPipeline, TGoto, FinalTypeOK, Piping, TaskStates, ScanPcs
<1>2. /\ Cardinality(Piping) \in Nat /\ Cardinality(Piping') \in Nat
      /\ IsFiniteSet(Piping') /\ Cardinality(Piping') = Cardinality(Piping) - 1
  BY <1>0, <1>1, FS_RemoveElement, FS_CardinalityType DEF RunsAreCounted
<1>3. runs' \in 0..MaxRuns /\ RunsAreCounted'
  BY <1>0, <1>2 DEF RunsAreCounted, CommitPipeline, FinalTypeOK
<1>4. PICK n \in 1 .. (MaxUnits - lastUnit) - (MaxRuns - runs') :
        \E R \in SUBSET (lastUnit + 1 .. lastUnit + n) :
          ReplaceUnits(task[t].units, lastUnit + 1 .. lastUnit + n, R)
  BY DEF CommitPipeline
<1> DEFINE new == lastUnit + 1 .. lastUnit + n
<1>5. PICK R \in SUBSET new : ReplaceUnits(task[t].units, new, R)
  BY <1>4
<1>6. lastUnit \in Nat /\ lastUnit <= MaxUnits /\ n \in Nat /\ n <= MaxUnits - lastUnit
  <2>1. lastUnit \in Nat /\ lastUnit <= MaxUnits
    BY <1>0 DEF SpecialistTypeOK
  <2>2. runs' \in Nat /\ MaxRuns \in Nat /\ runs' <= MaxRuns
    BY <1>3
  <2>3. \A a, b, c, d \in Nat : d <= c => \A i \in 1 .. (a - b) - (c - d) : i \in Nat /\ i <= a - b
    OBVIOUS
  <2> QED
    BY <2>1, <2>2, <2>3
<1>7. new \subseteq UnitIds
  BY <1>6 DEF UnitIds
<1>8. IsFiniteSet(new) /\ Cardinality(new) = n
  BY <1>6, FS_Interval
<1> HIDE DEF new
<1>9. lastUnit' \in 0..MaxUnits
  BY <1>5, <1>6, <1>8 DEF ReplaceUnits
<1>10. unitRun' \in [UnitIds -> Nat]
  <2>1. runs + 1 \in Nat
    BY <1>0 DEF FinalTypeOK
  <2>2. unitRun \in [UnitIds -> Nat]
    BY <1>0 DEF SpecialistTypeOK
  <2> QED
    BY <1>5, <2>1, <2>2 DEF ReplaceUnits
<1>11. routed' \subseteq UnitIds /\ results' \in [UnitIds -> Nat] /\ topics' \subseteq UnitIds
  BY <1>0, <1>5, <1>7 DEF ReplaceUnits, SpecialistTypeOK, FinalTypeOK
<1>12. sStatus' \in [SJobIds -> SStatuses] /\ JobsHaveUnits'
  BY <1>0, <1>5 DEF ReplaceUnits, SpecialistTypeOK, JobsHaveUnits, SStatuses, CommitPipeline, UnitIds, SJobIds
<1> QED
  BY <1>0, <1>1, <1>3, <1>9, <1>10, <1>11, <1>12 DEF Typed, CommitPipeline, FinalTypeOK, SpecialistTypeOK

\* The rest of process_scan_unit_task.
LEMMA ScanTyped ==
  ASSUME Typed, NEW t \in Tasks,
         \/ ScanFails(t) \/ RetryScan(t) \/ EnsureJobs(t) \/ CommitJobs(t)
         \/ (\E j \in SJobIds : DispatchJob(t, j))
         \/ FindFinalJob(t) \/ InsertFinalJob(t) \/ Notify(t)
  PROVE  Typed'
<1> USE SpecialistAssumption, FinalizationAssumption DEF specialistVars, unitVars, sjobVars
<1>0. FinalTypeOK /\ SpecialistTypeOK /\ JobsHaveUnits /\ task[t] \in TaskStates
  BY DEF Typed, FinalTypeOK
<1>1. ASSUME ScanFails(t) PROVE Typed'
  <2>1. task' \in [Tasks -> TaskStates] /\ RunsAreCounted'
    BY <1>1, TGotoTyped DEF ScanFails, ScanPcs
  <2>2. failures \in 0..MaxFailures /\ crashes \in 0..MaxCrashes
    BY <1>0 DEF FinalTypeOK, SpecialistTypeOK
  <2>3. failures' \in 0..MaxFailures /\ crashes' \in 0..MaxCrashes
    BY <1>1, <2>2 DEF ScanFails
  <2> QED
    BY <1>0, <1>1, <2>1, <2>3 DEF ScanFails, Typed, FinalTypeOK, SpecialistTypeOK, JobsHaveUnits
<1>2. ASSUME RetryScan(t) PROVE Typed'
  <2>1. task' \in [Tasks -> TaskStates] /\ RunsAreCounted'
    BY <1>2, TGotoTyped DEF RetryScan
  <2> DEFINE k == task[t].retries + 1
  <2>2. scanq' = scanq \/ scanq' = [scanq EXCEPT ![k] = scanq[k] + 1]
    BY <1>2 DEF RetryScan
  <2> HIDE DEF k
  <2>3. scanq \in [0..MaxKRetries -> Nat]
    BY <1>0 DEF FinalTypeOK
  <2>4. [scanq EXCEPT ![k] = scanq[k] + 1] \in [0..MaxKRetries -> Nat]
    BY <2>3, CountTyped
  <2>5. scanq' \in [0..MaxKRetries -> Nat]
    BY <2>2, <2>3, <2>4
  <2> QED
    BY <1>0, <1>2, <2>1, <2>5 DEF RetryScan, Typed, FinalTypeOK, SpecialistTypeOK, JobsHaveUnits
<1>3. ASSUME EnsureJobs(t) PROVE Typed'
  <2>1. PICK pc \in {"scanfail", "jobs"}, units \in SUBSET UnitIds :
          task' = [task EXCEPT ![t].pc = pc, ![t].units = units]
    <3>1. Missing \in SUBSET UnitIds
      BY DEF Missing, LiveUnits
    <3> QED
      BY <1>3, <3>1 DEF EnsureJobs
  <2> DEFINE s == [task[t] EXCEPT !.pc = pc, !.units = units]
  <2>2. s \in TaskStates /\ s.pc # "pipeline"
    BY <1>0 DEF TaskStates, ScanPcs
  <2>3. task' = [task EXCEPT ![t] = s]
    BY <2>1
  <2> HIDE DEF s
  <2>4. task' \in [Tasks -> TaskStates] /\ RunsAreCounted'
    BY <1>3, <2>2, <2>3, TaskTyped DEF EnsureJobs
  <2> QED
    BY <1>0, <1>3, <2>4 DEF EnsureJobs, Typed, FinalTypeOK, SpecialistTypeOK, JobsHaveUnits
<1>4. ASSUME CommitJobs(t) PROVE Typed'
  <2>1. CASE TGoto(t, "scanfail") /\ UNCHANGED sjobVars
    <3>1. task' \in [Tasks -> TaskStates] /\ RunsAreCounted'
      BY <1>4, <2>1, TGotoTyped DEF CommitJobs, ScanPcs
    <3> QED
      BY <1>0, <1>4, <2>1, <3>1 DEF CommitJobs, Typed, FinalTypeOK, SpecialistTypeOK, JobsHaveUnits
  <2>2. CASE /\ InsertJobs(task[t].units)
             /\ task' = [task EXCEPT ![t].pc = IF task[t].units = {} THEN "find" ELSE "dispatch",
                                     ![t].units = {}, ![t].send = NewJobs(task[t].units)]
    <3>1. task[t].units \in SUBSET UnitIds
      BY <1>0 DEF TaskStates
    <3>2. /\ sUnit' \in [SJobIds -> 0..MaxUnits] /\ sStatus' \in [SJobIds -> SStatuses]
          /\ lastSJob' \in 0..MaxSJobs /\ JobsHaveUnits'
          /\ NewJobs(task[t].units) \in SUBSET SJobIds
      BY <2>2, <3>1, InsertTyped
    <3>3. PICK pc \in {"find", "dispatch"}, send \in SUBSET SJobIds :
            task' = [task EXCEPT ![t].pc = pc, ![t].units = {}, ![t].send = send]
      BY <2>2, <3>2
    <3> DEFINE s == [task[t] EXCEPT !.pc = pc, !.units = {}, !.send = send]
    <3>4. s \in TaskStates /\ s.pc # "pipeline"
      BY <1>0 DEF TaskStates, ScanPcs
    <3>5. task' = [task EXCEPT ![t] = s]
      BY <3>3
    <3> HIDE DEF s
    <3>6. task' \in [Tasks -> TaskStates] /\ RunsAreCounted'
      BY <1>4, <3>4, <3>5, TaskTyped DEF CommitJobs
    <3> QED
      BY <1>0, <1>4, <3>2, <3>6 DEF CommitJobs, Typed, FinalTypeOK, SpecialistTypeOK
  <2> QED
    BY <1>4, <2>1, <2>2 DEF CommitJobs
<1>5. ASSUME NEW j \in SJobIds, DispatchJob(t, j) PROVE Typed'
  <2>1. PICK s \in TaskStates : s.pc # "pipeline" /\ task' = [task EXCEPT ![t] = s]
    <3>1. CASE task[t].send = {j}
      <4> DEFINE s == [task[t] EXCEPT !.send = {}, !.pc = "find"]
      <4>1. s \in TaskStates /\ s.pc # "pipeline"
        BY <1>0 DEF TaskStates, ScanPcs
      <4>2. task' = [task EXCEPT ![t] = s]
        BY <1>5, <3>1 DEF DispatchJob
      <4> QED
        BY <4>1, <4>2
    <3>2. CASE task[t].send # {j}
      <4> DEFINE s == [task[t] EXCEPT !.send = @ \ {j}]
      <4>1. s \in TaskStates /\ s.pc # "pipeline"
        BY <1>0, <1>5 DEF TaskStates, DispatchJob
      <4>2. task' = [task EXCEPT ![t] = s]
        BY <1>5, <3>2 DEF DispatchJob
      <4> QED
        BY <4>1, <4>2
    <3> QED
      BY <3>1, <3>2
  <2>2. task' \in [Tasks -> TaskStates] /\ RunsAreCounted'
    BY <1>5, <2>1, TaskTyped DEF DispatchJob
  <2>3. squeue' \in [SMessages -> Nat]
    BY <1>0, <1>5, QueueTyped DEF DispatchJob
  <2> QED
    BY <1>0, <1>5, <2>2, <2>3 DEF DispatchJob, Typed, FinalTypeOK, SpecialistTypeOK, JobsHaveUnits
<1>6. ASSUME FindFinalJob(t) PROVE Typed'
  <2>1. task' \in [Tasks -> TaskStates] /\ RunsAreCounted'
    BY <1>6, TGotoTyped DEF FindFinalJob, ScanPcs
  <2> QED
    BY <1>0, <1>6, <2>1 DEF FindFinalJob, Typed, FinalTypeOK, SpecialistTypeOK, JobsHaveUnits
<1>7. ASSUME InsertFinalJob(t) PROVE Typed'
  <2>1. task' \in [Tasks -> TaskStates] /\ RunsAreCounted'
    BY <1>7, TGotoTyped DEF InsertFinalJob, ScanPcs
  <2>2. fStatus' \in [FJobIds -> FStatuses] /\ lastFJob' \in 0..MaxFJobs
    <3>1. lastFJob' \in 0..MaxFJobs
      BY <1>0, <1>7 DEF InsertFinalJob, FinalTypeOK
    <3>2. "queued" \in FStatuses /\ fStatus \in [FJobIds -> FStatuses]
      BY <1>0 DEF FinalTypeOK, FStatuses
    <3> QED
      BY <1>7, <3>1, <3>2 DEF InsertFinalJob
  <2> QED
    BY <1>0, <1>7, <2>1, <2>2 DEF InsertFinalJob, Typed, FinalTypeOK, SpecialistTypeOK, JobsHaveUnits
<1>8. ASSUME Notify(t) PROVE Typed'
  <2>1. task' \in [Tasks -> TaskStates] /\ RunsAreCounted'
    BY <1>8, TGotoTyped DEF Notify
  <2>2. finalq' \in [0..MaxFRetries -> Nat]
    BY <1>0, <1>8 DEF Notify, FinalTypeOK
  <2> QED
    BY <1>0, <1>8, <2>1, <2>2 DEF Notify, Typed, FinalTypeOK, SpecialistTypeOK, JobsHaveUnits
<1> QED
  BY <1>1, <1>2, <1>3, <1>4, <1>5, <1>6, <1>7, <1>8

\* A job that is written keeps a status the table of knowledge jobs knows.
LEMMA FinalStatusTyped ==
  ASSUME FinalTypeOK, NEW s \in FStatuses, WriteNewestFinal(s)
  PROVE  fStatus' \in [FJobIds -> FStatuses]
BY DEF FinalTypeOK, WriteNewestFinal

\* finalize_scan_topics_task.
LEMMA FinalTyped ==
  ASSUME Typed, NEW t \in Tasks,
         \/ (\E r \in 0..MaxFRetries : FinalReceive(t, r)) \/ FinalTask(t) \/ TaskCrash(t)
  PROVE  Typed'
<1> USE SpecialistAssumption, FinalizationAssumption
    DEF specialistVars, unitVars, sjobVars, FinalUnchanged
<1>0. FinalTypeOK /\ SpecialistTypeOK /\ JobsHaveUnits /\ task[t] \in TaskStates
  BY DEF Typed, FinalTypeOK
<1>1. ASSUME NEW r \in 0..MaxFRetries, FinalReceive(t, r) PROVE Typed'
  <2> DEFINE s == [pc |-> "begin", retries |-> r, units |-> {}, send |-> {}, fjob |-> 0]
  <2>1. s \in TaskStates /\ s.pc # "pipeline"
    BY DEF TaskStates, FinalPcs
  <2>2. task' = [task EXCEPT ![t] = s] \/ UNCHANGED task
    BY <1>1 DEF FinalReceive
  <2> HIDE DEF s
  <2>3. task' \in [Tasks -> TaskStates] /\ RunsAreCounted'
    <3>1. CASE task' = [task EXCEPT ![t] = s]
      BY <1>1, <2>1, <3>1, TaskTyped DEF FinalReceive
    <3>2. CASE UNCHANGED task
      <4>1. Piping' = Piping
        BY <3>2 DEF Piping
      <4> QED
        BY <1>0, <1>1, <3>2, <4>1 DEF FinalReceive, Typed, FinalTypeOK, RunsAreCounted
    <3> QED
      BY <2>2, <3>1, <3>2
  <2>4. finalq' \in [0..MaxFRetries -> Nat]
    BY <1>0, <1>1 DEF FinalReceive, FinalTypeOK
  <2> QED
    BY <1>0, <1>1, <2>3, <2>4 DEF FinalReceive, Typed, FinalTypeOK, SpecialistTypeOK, JobsHaveUnits
<1>2. ASSUME Begin(t) PROVE Typed'
  <2>1. lastFJob \in 0..MaxFJobs /\ fStatus \in [FJobIds -> FStatuses]
    BY <1>0 DEF FinalTypeOK
  <2>2. "processing" \in FStatuses
    BY DEF FStatuses
  <2>3. CASE TGoto(t, "release") /\ UNCHANGED <<fStatus, lastFJob>>
    <3>1. task' \in [Tasks -> TaskStates] /\ RunsAreCounted'
      BY <1>2, <2>3, TGotoTyped DEF Begin, FinalPcs
    <3> QED
      BY <1>0, <1>2, <2>3, <3>1 DEF Begin, Typed, FinalTypeOK, SpecialistTypeOK, JobsHaveUnits
  <2>4. CASE \E f \in 0..MaxFJobs : task' = [task EXCEPT ![t].pc = "check", ![t].fjob = f]
    <3>1. PICK f \in 0..MaxFJobs : task' = [task EXCEPT ![t].pc = "check", ![t].fjob = f]
      BY <2>4
    <3> DEFINE s == [task[t] EXCEPT !.pc = "check", !.fjob = f]
    <3>2. s \in TaskStates /\ s.pc # "pipeline"
      BY <1>0 DEF TaskStates, FinalPcs
    <3>3. task' = [task EXCEPT ![t] = s]
      BY <3>1
    <3> HIDE DEF s
    <3>4. task' \in [Tasks -> TaskStates] /\ RunsAreCounted'
      BY <1>2, <3>2, <3>3, TaskTyped DEF Begin
    <3>5. lastFJob' \in 0..MaxFJobs
      BY <1>2, <2>1 DEF Begin
    <3>6. fStatus' \in [FJobIds -> FStatuses]
      BY <1>0, <1>2, <2>1, <2>2, FinalStatusTyped DEF Begin
    <3> QED
      BY <1>0, <1>2, <3>4, <3>5, <3>6 DEF Begin, Typed, FinalTypeOK, SpecialistTypeOK, JobsHaveUnits
  <2>5. lastFJob < MaxFJobs => lastFJob + 1 \in 0..MaxFJobs
    BY <2>1
  <2> QED
    BY <1>2, <2>1, <2>3, <2>4, <2>5 DEF Begin
<1>3. ASSUME Check(t) PROVE Typed'
  <2>1. CASE task' = [task EXCEPT ![t].pc = "assign", ![t].units = LiveUnits] /\ UNCHANGED failures
    <3> DEFINE s == [task[t] EXCEPT !.pc = "assign", !.units = LiveUnits]
    <3>1. LiveUnits \in SUBSET UnitIds
      BY DEF LiveUnits
    <3>2. s \in TaskStates /\ s.pc # "pipeline"
      BY <1>0, <3>1 DEF TaskStates, FinalPcs
    <3>3. task' = [task EXCEPT ![t] = s]
      BY <2>1
    <3> HIDE DEF s
    <3>4. task' \in [Tasks -> TaskStates] /\ RunsAreCounted'
      BY <1>3, <3>2, <3>3, TaskTyped DEF Check
    <3> QED
      BY <1>0, <1>3, <2>1, <3>4 DEF Check, Typed, FinalTypeOK, SpecialistTypeOK, JobsHaveUnits
  <2>2. CASE (TGoto(t, "fail") \/ TGoto(t, "defer")) /\ failures' \in 0..MaxFailures
    <3>1. task' \in [Tasks -> TaskStates] /\ RunsAreCounted'
      BY <1>3, <2>2, TGotoTyped DEF Check, FinalPcs
    <3> QED
      BY <1>0, <1>3, <2>2, <3>1 DEF Check, Typed, FinalTypeOK, SpecialistTypeOK, JobsHaveUnits
  <2>3. failures \in 0..MaxFailures
    BY <1>0 DEF FinalTypeOK
  <2> QED
    BY <1>3, <2>1, <2>2, <2>3 DEF Check
<1>4. ASSUME AssignTopics(t) PROVE Typed'
  <2>1. task' \in [Tasks -> TaskStates] /\ RunsAreCounted'
    BY <1>4, TGotoTyped DEF AssignTopics, FinalPcs
  <2>2. topics' \subseteq UnitIds /\ routed' \subseteq UnitIds
    BY <1>0, <1>4 DEF AssignTopics, FinalTypeOK, SpecialistTypeOK, TaskStates
  <2>3. fStatus' \in [FJobIds -> FStatuses]
    BY <1>0, <1>4 DEF AssignTopics, FinalTypeOK, FStatuses
  <2> QED
    BY <1>0, <1>4, <2>1, <2>2, <2>3 DEF AssignTopics, Typed, FinalTypeOK, SpecialistTypeOK, JobsHaveUnits
<1>5. ASSUME Refresh(t) PROVE Typed'
  <2>1. task' \in [Tasks -> TaskStates] /\ RunsAreCounted'
    BY <1>5, TGotoTyped DEF Refresh, FinalPcs
  <2>2. crashes' \in 0..MaxCrashes
    BY <1>0, <1>5 DEF Refresh, SpecialistTypeOK
  <2> QED
    BY <1>0, <1>5, <2>1, <2>2 DEF Refresh, Typed, FinalTypeOK, SpecialistTypeOK, JobsHaveUnits
<1>6. ASSUME Unlock(t) PROVE Typed'
  <2>1. task' \in [Tasks -> TaskStates] /\ RunsAreCounted'
    BY <1>6, TGotoTyped DEF Unlock
  <2> QED
    BY <1>0, <1>6, <2>1 DEF Unlock, Typed, FinalTypeOK, SpecialistTypeOK, JobsHaveUnits
<1>7. ASSUME Defer(t) PROVE Typed'
  <2>1. task' \in [Tasks -> TaskStates] /\ RunsAreCounted'
    BY <1>7, TGotoTyped DEF Defer, FinalPcs
  <2>2. fStatus' \in [FJobIds -> FStatuses]
    BY <1>0, <1>7, FinalStatusTyped DEF Defer, FStatuses
  <2> QED
    BY <1>0, <1>7, <2>1, <2>2 DEF Defer, Typed, FinalTypeOK, SpecialistTypeOK, JobsHaveUnits
<1>8. ASSUME Resend(t) PROVE Typed'
  <2>1. task' \in [Tasks -> TaskStates] /\ RunsAreCounted'
    BY <1>8, TGotoTyped DEF Resend
  <2>2. finalq' \in [0..MaxFRetries -> Nat]
    BY <1>0, <1>8 DEF Resend, FinalTypeOK
  <2> QED
    BY <1>0, <1>8, <2>1, <2>2 DEF Resend, Typed, FinalTypeOK, SpecialistTypeOK, JobsHaveUnits
<1>9. ASSUME FinalFails(t) PROVE Typed'
  <2>1. task' \in [Tasks -> TaskStates] /\ RunsAreCounted'
    BY <1>9, TGotoTyped DEF FinalFails, FinalPcs
  <2>2. fStatus' \in [FJobIds -> FStatuses]
    BY <1>0, <1>9, FinalStatusTyped DEF FinalFails, FStatuses
  <2> QED
    BY <1>0, <1>9, <2>1, <2>2 DEF FinalFails, Typed, FinalTypeOK, SpecialistTypeOK, JobsHaveUnits
<1>10. ASSUME RetryFinal(t) PROVE Typed'
  <2>1. task' \in [Tasks -> TaskStates] /\ RunsAreCounted'
    BY <1>10, TGotoTyped DEF RetryFinal
  <2> DEFINE k == task[t].retries + 1
  <2>2. finalq' = [finalq EXCEPT ![k] = finalq[k] + 1]
    BY <1>10 DEF RetryFinal
  <2> HIDE DEF k
  <2>3. finalq' \in [0..MaxFRetries -> Nat]
    BY <1>0, <2>2, CountTyped DEF FinalTypeOK
  <2> QED
    BY <1>0, <1>10, <2>1, <2>3 DEF RetryFinal, Typed, FinalTypeOK, SpecialistTypeOK, JobsHaveUnits
<1>11. ASSUME TaskCrash(t) PROVE Typed'
  <2>1. task' \in [Tasks -> TaskStates] /\ RunsAreCounted'
    BY <1>11, TGotoTyped DEF TaskCrash
  <2>2. crashes' \in 0..MaxCrashes
    BY <1>0, <1>11 DEF TaskCrash, SpecialistTypeOK
  <2> QED
    BY <1>0, <1>11, <2>1, <2>2 DEF TaskCrash, Typed, FinalTypeOK, SpecialistTypeOK, JobsHaveUnits
<1> QED
  BY <1>1, <1>2, <1>3, <1>4, <1>5, <1>6, <1>7, <1>8, <1>9, <1>10, <1>11 DEF FinalTask

\* A message for the scan from elsewhere.
LEMMA MessageTyped == Typed /\ ScanMessage => Typed'
<1> SUFFICES ASSUME Typed, ScanMessage PROVE Typed'
  OBVIOUS
<1> USE FinalizationAssumption DEF specialistVars, unitVars, sjobVars
<1>1. Piping' = Piping
  BY DEF Piping, ScanMessage
<1>2. sent' \in 0..MaxScanMsgs
  BY DEF Typed, FinalTypeOK, ScanMessage
<1>3. scanq' \in [0..MaxKRetries -> Nat]
  BY DEF Typed, FinalTypeOK, ScanMessage
<1> QED
  BY <1>1, <1>2, <1>3 DEF Typed, FinalTypeOK, SpecialistTypeOK, JobsHaveUnits, RunsAreCounted, ScanMessage

\* What is shown to be typed stays so when nothing changes.
LEMMA StutterTyped == Typed /\ UNCHANGED vars => Typed'
<1> SUFFICES ASSUME Typed, UNCHANGED vars PROVE Typed'
  OBVIOUS
<1>1. Piping' = Piping
  BY DEF Piping, vars, finalVars
<1> QED
  BY <1>1 DEF Typed, FinalTypeOK, SpecialistTypeOK, JobsHaveUnits, RunsAreCounted,
     vars, finalVars, specialistVars, unitVars, sjobVars

LEMMA TypedStep == Typed /\ [Next]_vars => Typed'
<1> SUFFICES ASSUME Typed, [Next]_vars PROVE Typed'
  OBVIOUS
<1>1. ASSUME NEW t \in Tasks, TReceive(t) PROVE Typed'
  BY <1>1, StartTyped, FinalTyped DEF TReceive
<1>2. ASSUME NEW t \in Tasks, ScanTask(t) \/ ScanFails(t) PROVE Typed'
  BY <1>2, CommitTyped, ScanTyped DEF ScanTask
<1>3. ASSUME NEW t \in Tasks, FinalTask(t) \/ TaskCrash(t) PROVE Typed'
  BY <1>3, FinalTyped
<1> QED
  BY <1>1, <1>2, <1>3, SpecialistStepTyped, MessageTyped, StutterTyped DEF Next

\* The rows, the broker and the processes always have their types: a job is only
\* ever inserted for a unit, with the identifier the order of the units gives it,
\* and no more pipeline runs commit than were counted when they started.
THEOREM FinalTypeCorrect == Spec => []FinalTypeOK
<1>1. Spec => []Typed
  BY TypedInit, TypedStep, PTL DEF Spec
<1>2. Typed => FinalTypeOK
  BY DEF Typed
<1> QED
  BY <1>1, <1>2, PTL

-----------------------------------------------------------------------------
(***************************************************************************)
(* Why a scan with units never waits for a finalization that nobody will   *)
(* bring, however messages are dropped at the lock and runs replace each   *)
(* other's units.                                                          *)
(***************************************************************************)

\* A finalization runs under the lock, alone; the lock is held by nobody else.
OneAtATime == \A t \in Tasks : task[t].pc \in FinalPcs <=> lock = t

\* Rows are inserted in order, and a finalization that has begun has one of them.
RowsInOrder == \A f \in FJobIds : f > lastFJob => fStatus[f] = "absent"
BegunHasRow == \A t \in Tasks : task[t].pc \in FinalPcs \ {"begin", "release"} => task[t].fjob \in 1..lastFJob

\* A finalization that is about to let the lock go without another message has ended
\* with a row that says so, and one that sends a retry has a retry left.
LeaverHasEnded == \A t \in Tasks : task[t].pc \in {"refresh", "release"} => FinalizationEnded
RetrierMay == \A t \in Tasks : task[t].pc = "retry" => task[t].retries < MaxFRetries

\* Who will bring a finalization about: a scan task beyond its pipeline that will not
\* raise, a finalization, or its message.
Brings(t) ==
  \/ task[t].pc \in {"ensure", "dispatch", "find", "insert", "notify"} \cup FinalPcs
  \/ task[t].pc = "jobs" /\ task[t].units \subseteq LiveUnits
Brought == \/ \E t \in Tasks : Brings(t)
           \/ \E r \in 0..MaxFRetries : finalq[r] > 0

UnitsAreAttended ==
  crashes = 0 /\ LiveUnits # {} => Brought \/ FinalizationEnded \/ ResultStoredTwice

Ordered == OneAtATime /\ RowsInOrder /\ BegunHasRow /\ LeaverHasEnded /\ RetrierMay

\* A step of one slot keeps the order when what it does with its own task, the lock
\* and the rows fits, and takes no ended finalization away unless it holds the lock.
LEMMA OrderAfter ==
  ASSUME FinalTypeOK, Ordered, NEW t \in Tasks,
         \A v \in Tasks : v # t => task'[v] = task[v] /\ (lock' = v <=> lock = v),
         task'[t].pc \in FinalPcs <=> lock' = t,
         lastFJob' \in Nat, lastFJob' >= lastFJob, RowsInOrder',
         task'[t].pc \in FinalPcs \ {"begin", "release"} => task'[t].fjob \in 1..lastFJob',
         task'[t].pc \in {"refresh", "release"} => FinalizationEnded',
         task'[t].pc = "retry" => task'[t].retries < MaxFRetries,
         task[t].pc \in FinalPcs \/ (FinalizationEnded => FinalizationEnded')
  PROVE  Ordered'
<1>1. OneAtATime'
  BY DEF Ordered, OneAtATime
<1>2. BegunHasRow'
  <2> SUFFICES ASSUME NEW v \in Tasks, v # t, task[v].pc \in FinalPcs \ {"begin", "release"}
               PROVE  task[v].fjob \in 1..lastFJob'
    BY DEF BegunHasRow
  <2>1. task[v].fjob \in 1..lastFJob /\ lastFJob \in Nat
    BY DEF Ordered, BegunHasRow, FinalTypeOK
  <2> QED
    BY <2>1
<1>3. LeaverHasEnded'
  <2> SUFFICES ASSUME NEW v \in Tasks, v # t, task[v].pc \in {"refresh", "release"}
               PROVE  FinalizationEnded'
    BY DEF LeaverHasEnded
  <2>1. lock = v /\ FinalizationEnded
    BY DEF Ordered, OneAtATime, LeaverHasEnded, FinalPcs
  <2>2. task[t].pc \notin FinalPcs
    BY <2>1 DEF Ordered, OneAtATime
  <2> QED
    BY <2>1, <2>2
<1>4. RetrierMay'
  BY DEF Ordered, RetrierMay
<1> QED
  BY <1>1, <1>2, <1>3, <1>4 DEF Ordered

\* What a move of a task, or its end, leaves.
LEMMA Moved ==
  ASSUME FinalTypeOK, NEW t \in Tasks
  PROVE  /\ \A pc : TGoto(t, pc) =>
              /\ task'[t].pc = pc /\ task'[t].retries = task[t].retries
              /\ task'[t].fjob = task[t].fjob /\ task'[t].units = task[t].units
              /\ \A v \in Tasks : v # t => task'[v] = task[v]
         /\ TEnd(t) => /\ task'[t].pc = "idle"
                       /\ \A v \in Tasks : v # t => task'[v] = task[v]
<1>1. task \in [Tasks -> TaskStates]
  BY DEF FinalTypeOK
<1> QED
  BY <1>1 DEF TGoto, TEnd, IdleTask, TaskStates

\* A job that is written ends nothing that had ended, when it is written so.
LEMMA NewestWritten ==
  ASSUME FinalTypeOK, Ordered, NEW s \in FStatuses, WriteNewestFinal(s), UNCHANGED lastFJob
  PROVE  RowsInOrder' /\ (lastFJob > 0 /\ s = "failed" => FinalizationEnded')
<1>1. lastFJob \in 0..MaxFJobs /\ fStatus \in [FJobIds -> FStatuses]
  BY DEF FinalTypeOK
<1>2. RowsInOrder'
  BY <1>1 DEF Ordered, RowsInOrder, WriteNewestFinal, FJobIds
<1>3. lastFJob > 0 /\ s = "failed" => FinalizationEnded'
  <2> SUFFICES ASSUME lastFJob > 0, s = "failed" PROVE FinalizationEnded'
    OBVIOUS
  <2>1. lastFJob \in FJobIds /\ lastFJob # 0
    BY <1>1, FinalizationAssumption DEF FJobIds
  <2>2. fStatus'[lastFJob] = "failed"
    BY <1>1, <2>1 DEF WriteNewestFinal
  <2> QED
    BY <2>1, <2>2 DEF FinalizationEnded
<1> QED
  BY <1>2, <1>3

\* Rows and ended finalizations, when the rows stay.
LEMMA RowsKept ==
  ASSUME UNCHANGED <<fStatus, lastFJob>>
  PROVE  (RowsInOrder => RowsInOrder') /\ (FinalizationEnded => FinalizationEnded')
BY DEF RowsInOrder, FinalizationEnded

\* The tasks of the pipeline never hold the lock and never let it go.
LEMMA ScanOrdered ==
  ASSUME FinalTypeOK, Ordered, NEW t \in Tasks,
         ScanTask(t) \/ ScanFails(t) \/ \E r \in 0..MaxKRetries : StartPipeline(t, r)
  PROVE  Ordered'
<1> DEFINE Others == \A v \in Tasks : v # t => task'[v] = task[v]
<1>0. /\ task \in [Tasks -> TaskStates] /\ lastFJob \in Nat /\ NoTask \notin Tasks
      /\ task[t].pc \notin FinalPcs => lock # t
      /\ RowsInOrder
  BY FinalizationAssumption DEF FinalTypeOK, Ordered, OneAtATime
<1>1. SUFFICES ASSUME Others, task[t].pc \notin FinalPcs, task'[t].pc \notin FinalPcs, UNCHANGED lock,
                      lastFJob' \in Nat, lastFJob' >= lastFJob, RowsInOrder',
                      FinalizationEnded => FinalizationEnded'
               PROVE  Ordered'
  <2>1. ASSUME \/ ScanFails(t) \/ (\E r \in 0..MaxKRetries : StartPipeline(t, r)) \/ CommitPipeline(t)
               \/ RetryScan(t) \/ EnsureJobs(t) \/ CommitJobs(t) \/ (\E j \in SJobIds : DispatchJob(t, j))
               \/ FindFinalJob(t) \/ Notify(t)
        PROVE  /\ Others /\ task[t].pc \notin FinalPcs /\ task'[t].pc \notin FinalPcs
               /\ UNCHANGED <<lock, fStatus, lastFJob>>
    <3>1. ASSUME ScanFails(t) \/ CommitPipeline(t) \/ FindFinalJob(t) \/ RetryScan(t) \/ Notify(t)
          PROVE  /\ Others /\ task[t].pc \notin FinalPcs /\ task'[t].pc \notin FinalPcs
                 /\ UNCHANGED <<lock, fStatus, lastFJob>>
      <4>1. \/ TEnd(t) 
            \/ \E pc \in {"scanfail", "ensure", "insert", "notify"} : TGoto(t, pc)
        BY <3>1 DEF ScanFails, CommitPipeline, FindFinalJob, RetryScan, Notify
      <4>2. Others /\ task'[t].pc \notin FinalPcs
        BY <4>1, Moved DEF FinalPcs
      <4> QED
        BY <3>1, <4>2 DEF ScanFails, CommitPipeline, FindFinalJob, RetryScan, Notify, FinalPcs
    <3>2. ASSUME NEW r \in 0..MaxKRetries, StartPipeline(t, r)
          PROVE  /\ Others /\ task[t].pc \notin FinalPcs /\ task'[t].pc \notin FinalPcs
                 /\ UNCHANGED <<lock, fStatus, lastFJob>>
      BY <1>0, <3>2 DEF StartPipeline, FinalPcs
    <3>3. ASSUME EnsureJobs(t)
          PROVE  /\ Others /\ task[t].pc \notin FinalPcs /\ task'[t].pc \notin FinalPcs
                 /\ UNCHANGED <<lock, fStatus, lastFJob>>
      BY <1>0, <3>3 DEF EnsureJobs, FinalPcs, TaskStates
    <3>4. ASSUME CommitJobs(t)
          PROVE  /\ Others /\ task[t].pc \notin FinalPcs /\ task'[t].pc \notin FinalPcs
                 /\ UNCHANGED <<lock, fStatus, lastFJob>>
      <4>1. task[t].pc \notin FinalPcs /\ UNCHANGED <<lock, fStatus, lastFJob>>
        BY <3>4 DEF CommitJobs, FinalPcs
      <4>2. CASE TGoto(t, "scanfail")
        BY <4>1, <4>2, Moved DEF FinalPcs
      <4>3. CASE \E pc \in {"find", "dispatch"}, S \in SUBSET SJobIds :
                   task' = [task EXCEPT ![t].pc = pc, ![t].units = {}, ![t].send = S]
        BY <1>0, <4>1, <4>3 DEF TaskStates, FinalPcs
      <4>4. CASE /\ ~TGoto(t, "scanfail") /\ InsertJobs(task[t].units)
                 /\ task' = [task EXCEPT ![t].pc = IF task[t].units = {} THEN "find" ELSE "dispatch",
                                         ![t].units = {}, ![t].send = NewJobs(task[t].units)]
        <5>1. NewJobs(task[t].units) \in SUBSET SJobIds
          <6>1. task[t].units \in SUBSET UnitIds
            BY <1>0 DEF TaskStates
          <6>2. Cardinality(task[t].units) \in Nat
            BY <6>1, UnitsOfNew
          <6>3. lastSJob \in Nat /\ MaxSJobs \in Nat /\ lastSJob + Cardinality(task[t].units) <= MaxSJobs
            <7>1. lastSJob + Cardinality(task[t].units) <= MaxSJobs
              BY <4>4 DEF InsertJobs
            <7>2. lastSJob \in 0..MaxSJobs /\ MaxSJobs \in Nat
              BY SpecialistAssumption DEF FinalTypeOK, SpecialistTypeOK
            <7> QED
              BY <7>1, <7>2
          <6>4. PICK n \in Nat : n = Cardinality(task[t].units)
            BY <6>2
          <6>5. (lastSJob + 1 .. lastSJob + n) \in SUBSET (1..MaxSJobs)
            BY <6>3, <6>4
          <6> QED
            BY <6>4, <6>5 DEF NewJobs, SJobIds
        <5>2. (IF task[t].units = {} THEN "find" ELSE "dispatch") \in {"find", "dispatch"}
          OBVIOUS
        <5> QED
          BY <4>3, <4>4, <5>1, <5>2
      <4> QED
        BY <3>4, <4>2, <4>4 DEF CommitJobs
    <3>5. ASSUME NEW j \in SJobIds, DispatchJob(t, j)
          PROVE  /\ Others /\ task[t].pc \notin FinalPcs /\ task'[t].pc \notin FinalPcs
                 /\ UNCHANGED <<lock, fStatus, lastFJob>>
      BY <1>0, <3>5 DEF DispatchJob, FinalPcs, TaskStates
    <3> QED
      BY <2>1, <3>1, <3>2, <3>3, <3>4, <3>5
  <2>2. ASSUME InsertFinalJob(t)
        PROVE  /\ Others /\ task[t].pc \notin FinalPcs /\ task'[t].pc \notin FinalPcs /\ UNCHANGED lock
               /\ lastFJob' \in Nat /\ lastFJob' >= lastFJob /\ RowsInOrder'
               /\ FinalizationEnded => FinalizationEnded'
    <3>1. fStatus \in [FJobIds -> FStatuses] /\ lastFJob + 1 \in FJobIds
      <4>1. fStatus \in [FJobIds -> FStatuses] /\ lastFJob < MaxFJobs
        BY <2>2 DEF FinalTypeOK, InsertFinalJob
      <4> QED
        BY <1>0, <4>1, FinalizationAssumption DEF FJobIds
    <3>2. RowsInOrder'
      BY <1>0, <2>2, <3>1 DEF InsertFinalJob, RowsInOrder, FJobIds
    <3>3. fStatus[lastFJob + 1] = "absent"
      BY <1>0, <3>1 DEF RowsInOrder
    <3>4. FinalizationEnded => FinalizationEnded'
      BY <2>2, <3>1, <3>3 DEF InsertFinalJob, FinalizationEnded
    <3> QED
      BY <1>0, <2>2, <3>2, <3>4, Moved DEF InsertFinalJob, FinalPcs
  <2>3. lastFJob' = lastFJob => lastFJob' \in Nat /\ lastFJob' >= lastFJob
    BY <1>0
  <2> QED
    BY <1>0, <2>1, <2>2, <2>3, RowsKept DEF ScanTask
<1>2. /\ task'[t].pc \notin {"begin", "check", "assign", "refresh", "release", "defer", "resend", "fail", "retry"}
      /\ lock' # t
  BY <1>0, <1>1 DEF FinalPcs
<1> QED
  BY <1>1, <1>2, OrderAfter DEF FinalPcs

\* The finalization: it takes the lock when it begins, lets it go at its end, and
\* writes rows only in between.
LEMMA FinalOrdered ==
  ASSUME FinalTypeOK, Ordered, NEW t \in Tasks,
         \/ (\E r \in 0..MaxFRetries : FinalReceive(t, r)) \/ FinalTask(t) \/ TaskCrash(t)
  PROVE  Ordered'
<1> DEFINE Others == \A v \in Tasks : v # t => task'[v] = task[v]
<1>0. /\ task \in [Tasks -> TaskStates] /\ lastFJob \in 0..MaxFJobs /\ lastFJob \in Nat
      /\ fStatus \in [FJobIds -> FStatuses] /\ MaxFJobs \in Nat /\ NoTask \notin Tasks
      /\ task[t].pc \in FinalPcs <=> lock = t
      /\ RowsInOrder
      /\ task[t].pc \in FinalPcs \ {"begin", "release"} => task[t].fjob \in 1..lastFJob
      /\ task[t].pc \in {"refresh", "release"} => FinalizationEnded
  BY FinalizationAssumption DEF FinalTypeOK, Ordered, OneAtATime, BegunHasRow, LeaverHasEnded
<1>1. ASSUME Others, task[t].pc \in FinalPcs, task'[t].pc \in FinalPcs, UNCHANGED lock,
             lastFJob' \in Nat, lastFJob' >= lastFJob, RowsInOrder',
             task'[t].pc \notin {"begin", "release"} => task'[t].fjob \in 1..lastFJob',
             task'[t].pc \in {"refresh", "release"} => FinalizationEnded',
             task'[t].pc = "retry" => task'[t].retries < MaxFRetries
      PROVE  Ordered'
  BY <1>0, <1>1, OrderAfter
<1>2. ASSUME Others, task'[t].pc \notin FinalPcs, UNCHANGED <<fStatus, lastFJob>>,
             lock' = IF lock = t THEN NoTask ELSE lock
      PROVE  Ordered'
  <2>1. RowsInOrder' /\ (FinalizationEnded => FinalizationEnded')
    BY <1>0, <1>2, RowsKept
  <2>2. task'[t].pc \notin {"begin", "check", "assign", "refresh", "release", "defer", "resend", "fail", "retry"}
    BY <1>2 DEF FinalPcs
  <2>3. lock' # t /\ \A v \in Tasks : v # t => (lock' = v <=> lock = v)
    BY <1>0, <1>2
  <2> QED
    BY <1>0, <1>2, <2>1, <2>2, <2>3, OrderAfter
<1>3. ASSUME NEW r \in 0..MaxFRetries, FinalReceive(t, r) PROVE Ordered'
  <2>1. CASE lock = NoTask
    <3>1. task'[t].pc = "begin" /\ Others /\ lock' = t /\ UNCHANGED <<fStatus, lastFJob>>
      BY <1>0, <1>3, <2>1 DEF FinalReceive
    <3>2. RowsInOrder' /\ (FinalizationEnded => FinalizationEnded')
      BY <1>0, <3>1, RowsKept
    <3>3. "begin" \in FinalPcs
      BY DEF FinalPcs
    <3>4. \A v \in Tasks : v # t => (lock' = v <=> lock = v)
      BY <1>0, <2>1, <3>1
    <3> QED
      BY <1>0, <3>1, <3>2, <3>3, <3>4, OrderAfter
  <2>2. CASE lock # NoTask
    <3>1. UNCHANGED <<lock, task, fStatus, lastFJob>>
      BY <1>3, <2>2 DEF FinalReceive
    <3> QED
      BY <3>1 DEF Ordered, OneAtATime, RowsInOrder, BegunHasRow, LeaverHasEnded, RetrierMay, FinalizationEnded
  <2> QED
    BY <2>1, <2>2
<1>4. ASSUME Begin(t) PROVE Ordered'
  <2>0. task[t].pc \in FinalPcs /\ UNCHANGED lock
    BY <1>4 DEF Begin, FinalPcs
  <2>1. CASE NewestFinal = "succeeded"
    <3>1. lastFJob \in FJobIds /\ fStatus[lastFJob] = "succeeded"
      BY <1>0, <2>1 DEF NewestFinal, FJobIds
    <3>2. TGoto(t, "release") /\ UNCHANGED <<fStatus, lastFJob>>
      BY <1>4, <2>1 DEF Begin
    <3>3. FinalizationEnded' /\ RowsInOrder'
      BY <1>0, <3>1, <3>2, RowsKept DEF FinalizationEnded
    <3>4. Others /\ task'[t].pc = "release" /\ "release" \in FinalPcs
      BY <3>2, Moved DEF FinalPcs
    <3> QED
      BY <1>0, <1>1, <2>0, <3>2, <3>3, <3>4
  <2>2. CASE NewestFinal = "absent" /\ lastFJob < MaxFJobs
    <3>1. /\ lastFJob' = lastFJob + 1 /\ fStatus' = [fStatus EXCEPT ![lastFJob + 1] = "processing"]
          /\ task' = [task EXCEPT ![t].pc = "check", ![t].fjob = lastFJob + 1]
      BY <1>4, <2>2 DEF Begin
    <3>2. lastFJob' \in Nat /\ lastFJob' >= lastFJob /\ lastFJob' \in 1..lastFJob'
      BY <1>0, <3>1
    <3>3. RowsInOrder'
      BY <1>0, <3>1 DEF RowsInOrder, FJobIds
    <3>4. Others /\ task'[t].pc = "check" /\ task'[t].fjob = lastFJob'
      BY <1>0, <3>1 DEF TaskStates
    <3> QED
      BY <1>1, <2>0, <3>2, <3>3, <3>4 DEF FinalPcs
  <2>3. CASE NewestFinal \notin {"absent", "succeeded"}
    <3>1. /\ WriteNewestFinal("processing") /\ UNCHANGED lastFJob
          /\ task' = [task EXCEPT ![t].pc = "check", ![t].fjob = lastFJob]
      BY <1>4, <2>3 DEF Begin
    <3>2. lastFJob \in 1..lastFJob
      BY <1>0, <2>3 DEF NewestFinal
    <3>3. RowsInOrder'
      BY <3>1, NewestWritten DEF FStatuses
    <3>4. Others /\ task'[t].pc = "check" /\ task'[t].fjob = lastFJob'
      BY <1>0, <3>1 DEF TaskStates
    <3> QED
      BY <1>0, <1>1, <2>0, <3>1, <3>2, <3>3, <3>4 DEF FinalPcs
  <2> QED
    BY <1>4, <2>1, <2>2, <2>3 DEF Begin
<1>5. ASSUME UNCHANGED <<lock, fStatus, lastFJob>>, task[t].pc \in FinalPcs \ {"begin", "release"},
             NEW pc \in {"assign", "fail", "defer"}, TGoto(t, pc)
      PROVE  Ordered'
  <2>1. Others /\ task'[t].pc = pc /\ task'[t].fjob = task[t].fjob
    BY <1>5, Moved
  <2>2. RowsInOrder'
    BY <1>0, <1>5, RowsKept
  <2> QED
    BY <1>0, <1>1, <1>5, <2>1, <2>2 DEF FinalPcs
<1>6. ASSUME Check(t) PROVE Ordered'
  <2>1. task[t].pc \in FinalPcs \ {"begin", "release"} /\ UNCHANGED <<lock, fStatus, lastFJob>>
    BY <1>6 DEF Check, FinalPcs
  <2>2. CASE TGoto(t, "fail") \/ TGoto(t, "defer")
    BY <1>5, <2>1, <2>2
  <2>3. CASE task' = [task EXCEPT ![t].pc = "assign", ![t].units = LiveUnits]
    <3>1. Others /\ task'[t].pc = "assign" /\ task'[t].fjob = task[t].fjob
      BY <1>0, <2>3 DEF TaskStates
    <3>2. RowsInOrder'
      BY <1>0, <2>1, RowsKept
    <3> QED
      BY <1>0, <1>1, <2>1, <3>1, <3>2 DEF FinalPcs
  <2> QED
    BY <1>6, <2>2, <2>3 DEF Check
<1>7. ASSUME AssignTopics(t) PROVE Ordered'
  <2>1. task[t].pc = "assign" /\ UNCHANGED <<lock, lastFJob>>
    BY <1>7 DEF AssignTopics
  <2>2. CASE TGoto(t, "fail") /\ UNCHANGED fStatus
    BY <1>5, <2>1, <2>2 DEF FinalPcs
  <2>3. CASE fStatus' = [fStatus EXCEPT ![task[t].fjob] = "succeeded"] /\ TGoto(t, "refresh")
    <3>1. PICK f \in 1..lastFJob : f = task[t].fjob
      BY <1>0, <2>1 DEF FinalPcs
    <3>2. f \in FJobIds /\ f <= lastFJob
      BY <1>0 DEF FJobIds
    <3>3. fStatus' = [fStatus EXCEPT ![f] = "succeeded"]
      BY <2>3, <3>1
    <3>4. RowsInOrder'
      BY <1>0, <2>1, <3>2, <3>3 DEF RowsInOrder, FJobIds
    <3>5. FinalizationEnded'
      BY <1>0, <3>2, <3>3 DEF FinalizationEnded
    <3>6. Others /\ task'[t].pc = "refresh" /\ task'[t].fjob = task[t].fjob
      BY <2>3, Moved
    <3> QED
      BY <1>0, <1>1, <2>1, <3>1, <3>4, <3>5, <3>6 DEF FinalPcs
  <2> QED
    BY <1>7, <2>2, <2>3 DEF AssignTopics
<1>8. ASSUME Refresh(t) PROVE Ordered'
  <2>1. task[t].pc = "refresh" /\ UNCHANGED <<lock, fStatus, lastFJob>>
    BY <1>8 DEF Refresh
  <2>2. CASE TGoto(t, "fail")
    BY <1>5, <2>1, <2>2 DEF FinalPcs
  <2>3. CASE TGoto(t, "release")
    <3>1. RowsInOrder' /\ FinalizationEnded'
      BY <1>0, <2>1, RowsKept
    <3>2. Others /\ task'[t].pc = "release"
      BY <2>3, Moved
    <3> QED
      BY <1>0, <1>1, <2>1, <3>1, <3>2 DEF FinalPcs
  <2> QED
    BY <1>8, <2>2, <2>3 DEF Refresh
<1>9. ASSUME Unlock(t) \/ Resend(t) \/ RetryFinal(t) \/ TaskCrash(t) PROVE Ordered'
  <2>1. TEnd(t) /\ UNCHANGED <<fStatus, lastFJob>>
    BY <1>9 DEF Unlock, Resend, RetryFinal, TaskCrash
  <2>2. Others /\ task'[t].pc \notin FinalPcs
    BY <2>1, Moved DEF FinalPcs
  <2>3. lock' = IF lock = t THEN NoTask ELSE lock
    BY <1>0, <1>9 DEF Unlock, Resend, RetryFinal, TaskCrash, FinalPcs
  <2> QED
    BY <1>2, <2>1, <2>2, <2>3
<1>10. ASSUME Defer(t) PROVE Ordered'
  <2>1. task[t].pc = "defer" /\ UNCHANGED <<lock, lastFJob>> /\ WriteNewestFinal("pending") /\ TGoto(t, "resend")
    BY <1>10 DEF Defer
  <2>2. RowsInOrder'
    BY <2>1, NewestWritten DEF FStatuses
  <2>3. Others /\ task'[t].pc = "resend" /\ task'[t].fjob = task[t].fjob
    BY <2>1, Moved
  <2> QED
    BY <1>0, <1>1, <2>1, <2>2, <2>3 DEF FinalPcs
<1>11. ASSUME FinalFails(t) PROVE Ordered'
  <2>1. /\ task[t].pc = "fail" /\ UNCHANGED <<lock, lastFJob>> /\ WriteNewestFinal("failed")
        /\ TGoto(t, IF task[t].retries < MaxFRetries THEN "retry" ELSE "release")
    BY <1>11 DEF FinalFails
  <2>2. lastFJob > 0 /\ task[t].fjob \in 1..lastFJob
    BY <1>0, <2>1 DEF FinalPcs
  <2>3. RowsInOrder' /\ FinalizationEnded'
    BY <2>1, <2>2, NewestWritten DEF FStatuses
  <2>4. /\ Others /\ task'[t].pc \in {"retry", "release"} /\ task'[t].fjob = task[t].fjob
        /\ task'[t].pc = "retry" => task'[t].retries < MaxFRetries
    BY <2>1, Moved
  <2> QED
    BY <1>0, <1>1, <2>1, <2>2, <2>3, <2>4 DEF FinalPcs
<1> QED
  BY <1>3, <1>4, <1>6, <1>7, <1>8, <1>9, <1>10, <1>11 DEF FinalTask

LEMMA OrderedStep == FinalTypeOK /\ Ordered /\ [Next]_vars => Ordered'
<1> SUFFICES ASSUME FinalTypeOK, Ordered, [Next]_vars PROVE Ordered'
  OBVIOUS
<1>1. CASE (SpecialistStep /\ UNCHANGED finalVars) \/ ScanMessage \/ UNCHANGED vars
  <2>1. UNCHANGED <<task, lock, fStatus, lastFJob>>
    BY <1>1 DEF finalVars, vars, ScanMessage
  <2> QED
    BY <2>1 DEF Ordered, OneAtATime, RowsInOrder, BegunHasRow, LeaverHasEnded, RetrierMay, FinalizationEnded
<1> QED
  BY <1>1, ScanOrdered, FinalOrdered DEF Next, TReceive

\* A step that leaves the units, the results, the messages and the finalizations that
\* have ended, and takes nobody who would bring one, leaves the scan attended.
LEMMA AttendedKept ==
  ASSUME UnitsAreAttended, crashes' = 0 => crashes = 0, UNCHANGED unitRun,
         FinalizationEnded => FinalizationEnded',
         \A u \in UnitIds : results[u] > 1 => results'[u] > 1,
         \A r \in 0..MaxFRetries : finalq[r] > 0 => finalq'[r] > 0,
         \A v \in Tasks : Brings(v) => task'[v] = task[v]
  PROVE  UnitsAreAttended'
<1>1. LiveUnits' = LiveUnits
  BY DEF LiveUnits
<1>2. \A v \in Tasks : Brings(v) => Brings(v)'
  BY <1>1 DEF Brings
<1>3. Brought => Brought'
  BY <1>2 DEF Brought
<1>4. ResultStoredTwice => ResultStoredTwice'
  BY DEF ResultStoredTwice
<1> QED
  BY <1>1, <1>3, <1>4 DEF UnitsAreAttended

\* One who brings a finalization, after the step, is enough.
LEMMA AttendedByTask ==
  ASSUME NEW t \in Tasks, Brings(t)' \/ ResultStoredTwice' \/ FinalizationEnded' \/ crashes' # 0
  PROVE  UnitsAreAttended'
BY DEF UnitsAreAttended, Brought

LEMMA AttendedByMessage ==
  ASSUME NEW r \in 0..MaxFRetries, finalq'[r] > 0
  PROVE  UnitsAreAttended'
BY DEF UnitsAreAttended, Brought

\* The steps of process_scan_unit_task.
LEMMA AttendedByScan ==
  ASSUME FinalTypeOK, Ordered, UnitsAreAttended, NEW t \in Tasks,
         ScanTask(t) \/ ScanFails(t) \/ \E r \in 0..MaxKRetries : StartPipeline(t, r)
  PROVE  UnitsAreAttended'
<1> USE DEF specialistVars, unitVars, sjobVars
<1> DEFINE Others == \A v \in Tasks : v # t => task'[v] = task[v]
<1>0. /\ task \in [Tasks -> TaskStates] /\ crashes \in Nat
      /\ finalq \in [0..MaxFRetries -> Nat] /\ 0 \in 0..MaxFRetries
  BY FinalizationAssumption, SpecialistAssumption DEF FinalTypeOK, SpecialistTypeOK
<1>1. ASSUME NEW r \in 0..MaxKRetries, StartPipeline(t, r) PROVE UnitsAreAttended'
  <2>1. ~Brings(t)
    BY <1>1 DEF StartPipeline, Brings, FinalPcs
  <2>2. Others /\ UNCHANGED <<unitRun, results, crashes, finalq, fStatus>>
    BY <1>0, <1>1 DEF StartPipeline
  <2>3. FinalizationEnded => FinalizationEnded'
    BY <2>2 DEF FinalizationEnded
  <2> QED
    BY <2>1, <2>2, <2>3, AttendedKept
<1>2. ASSUME CommitPipeline(t) PROVE UnitsAreAttended'
  <2>1. task'[t].pc = "ensure"
    BY <1>2, Moved DEF CommitPipeline
  <2> QED
    BY <2>1, AttendedByTask DEF Brings
<1>3. ASSUME RetryScan(t) PROVE UnitsAreAttended'
  <2>1. ~Brings(t)
    BY <1>3 DEF RetryScan, Brings, FinalPcs
  <2>2. Others /\ UNCHANGED <<unitRun, results, crashes, finalq, fStatus>>
    BY <1>3, Moved DEF RetryScan
  <2>3. FinalizationEnded => FinalizationEnded'
    BY <2>2 DEF FinalizationEnded
  <2> QED
    BY <2>1, <2>2, <2>3, AttendedKept
<1>4. ASSUME ScanFails(t) PROVE UnitsAreAttended'
  <2>1. CASE task[t].pc = "pipeline" /\ UNCHANGED crashes
    <3>1. ~Brings(t)
      BY <2>1 DEF Brings, FinalPcs
    <3>2. Others /\ UNCHANGED <<unitRun, results, crashes, finalq, fStatus>>
      BY <1>4, <2>1, Moved DEF ScanFails
    <3>3. FinalizationEnded => FinalizationEnded'
      BY <3>2 DEF FinalizationEnded
    <3> QED
      BY <3>1, <3>2, <3>3, AttendedKept
  <2>2. CASE crashes' = crashes + 1
    BY <1>0, <2>2, AttendedByTask
  <2> QED
    BY <1>4, <2>1, <2>2 DEF ScanFails
<1>5. ASSUME EnsureJobs(t) PROVE UnitsAreAttended'
  <2>1. UNCHANGED <<unitRun, results>>
    BY <1>5 DEF EnsureJobs
  <2>2. CASE EnsureRaises
    <3>1. ResultStoredTwice'
      BY <2>1, <2>2 DEF EnsureRaises, ResultStoredTwice, LiveUnits
    <3> QED
      BY <3>1, AttendedByTask
  <2>3. CASE ~EnsureRaises
    <3>1. task'[t].pc = "jobs" /\ task'[t].units = Missing
      BY <1>0, <1>5, <2>3 DEF EnsureJobs, TaskStates
    <3>2. Missing \subseteq LiveUnits /\ LiveUnits' = LiveUnits
      BY <2>1 DEF Missing, LiveUnits
    <3> QED
      BY <3>1, <3>2, AttendedByTask DEF Brings
  <2> QED
    BY <2>2, <2>3
<1>6. ASSUME CommitJobs(t) PROVE UnitsAreAttended'
  <2>1. CASE Committable(task[t].units)
    <3>1. task'[t].pc \in {"find", "dispatch"}
      <4>1. task' = [task EXCEPT ![t].pc = IF task[t].units = {} THEN "find" ELSE "dispatch",
                                 ![t].units = {}, ![t].send = NewJobs(task[t].units)]
        BY <1>6, <2>1 DEF CommitJobs
      <4>2. PICK pc \in {"find", "dispatch"} : pc = IF task[t].units = {} THEN "find" ELSE "dispatch"
        OBVIOUS
      <4>3. PICK S : S = NewJobs(task[t].units)
        OBVIOUS
      <4>4. task' = [task EXCEPT ![t].pc = pc, ![t].units = {}, ![t].send = S]
        BY <4>1, <4>2, <4>3
      <4> QED
        BY <1>0, <4>2, <4>4 DEF TaskStates
    <3> QED
      BY <3>1, AttendedByTask DEF Brings
  <2>2. CASE ~Committable(task[t].units)
    <3>1. ~Brings(t)
      BY <1>6, <2>2 DEF CommitJobs, Brings, Committable, FinalPcs
    <3>2. TGoto(t, "scanfail") /\ UNCHANGED <<unitRun, results, crashes, finalq, fStatus>>
      BY <1>6, <2>2 DEF CommitJobs
    <3>3. Others
      BY <3>2, Moved
    <3>4. FinalizationEnded => FinalizationEnded'
      BY <3>2 DEF FinalizationEnded
    <3> QED
      BY <3>1, <3>2, <3>3, <3>4, AttendedKept
  <2> QED
    BY <2>1, <2>2
<1>7. ASSUME NEW j \in SJobIds, DispatchJob(t, j) PROVE UnitsAreAttended'
  <2>1. task'[t].pc \in {"dispatch", "find"}
    BY <1>0, <1>7 DEF DispatchJob, TaskStates
  <2> QED
    BY <2>1, AttendedByTask DEF Brings
<1>8. ASSUME FindFinalJob(t) \/ InsertFinalJob(t) PROVE UnitsAreAttended'
  <2>1. task'[t].pc \in {"insert", "notify"}
    BY <1>8, Moved DEF FindFinalJob, InsertFinalJob
  <2> QED
    BY <2>1, AttendedByTask DEF Brings
<1>9. ASSUME Notify(t) PROVE UnitsAreAttended'
  <2>1. finalq'[0] > 0
    BY <1>0, <1>9 DEF Notify
  <2> QED
    BY <1>0, <2>1, AttendedByMessage
<1> QED
  BY <1>1, <1>2, <1>3, <1>4, <1>5, <1>6, <1>7, <1>8, <1>9 DEF ScanTask

\* The steps of finalize_scan_topics_task: a message that is dropped at the lock
\* leaves the one who holds it.
LEMMA AttendedByFinal ==
  ASSUME FinalTypeOK, Ordered, UnitsAreAttended, NEW t \in Tasks,
         \/ (\E r \in 0..MaxFRetries : FinalReceive(t, r)) \/ FinalTask(t) \/ TaskCrash(t)
  PROVE  UnitsAreAttended'
<1>0. /\ task \in [Tasks -> TaskStates] /\ crashes \in Nat /\ lock \in Tasks \cup {NoTask}
      /\ finalq \in [0..MaxFRetries -> Nat] /\ 0 \in 0..MaxFRetries
  BY FinalizationAssumption, SpecialistAssumption DEF FinalTypeOK, SpecialistTypeOK
<1>1. ASSUME NEW r \in 0..MaxFRetries, FinalReceive(t, r) PROVE UnitsAreAttended'
  <2>1. CASE lock = NoTask
    <3>1. task'[t].pc = "begin"
      BY <1>0, <1>1, <2>1 DEF FinalReceive
    <3> QED
      BY <3>1, AttendedByTask DEF Brings, FinalPcs
  <2>2. CASE lock # NoTask
    <3>1. PICK v \in Tasks : lock = v
      BY <1>0, <2>2
    <3>2. task[v].pc \in FinalPcs /\ task' = task
      BY <1>1, <2>2, <3>1 DEF FinalReceive, Ordered, OneAtATime
    <3> QED
      BY <3>2, AttendedByTask DEF Brings
  <2> QED
    BY <2>1, <2>2
<1>2. ASSUME NEW pc \in FinalPcs, TGoto(t, pc) PROVE UnitsAreAttended'
  <2>1. task'[t].pc \in FinalPcs
    BY <1>2, Moved
  <2> QED
    BY <2>1, AttendedByTask DEF Brings
<1>3. ASSUME Begin(t) \/ Check(t) PROVE UnitsAreAttended'
  <2>1. task'[t].pc \in {"release", "check", "fail", "defer", "assign"}
    BY <1>0, <1>3 DEF Begin, Check, TGoto, TaskStates
  <2> QED
    BY <2>1, AttendedByTask DEF Brings, FinalPcs
<1>4. ASSUME AssignTopics(t) \/ Refresh(t) \/ Defer(t) \/ FinalFails(t) PROVE UnitsAreAttended'
  <2>1. \E pc \in FinalPcs : TGoto(t, pc)
    BY <1>4 DEF AssignTopics, Refresh, Defer, FinalFails, FinalPcs
  <2> QED
    BY <1>2, <2>1
<1>5. ASSUME Unlock(t) PROVE UnitsAreAttended'
  <2>1. FinalizationEnded'
    BY <1>5 DEF Unlock, Ordered, LeaverHasEnded, FinalizationEnded
  <2> QED
    BY <2>1, AttendedByTask
<1>6. ASSUME Resend(t) PROVE UnitsAreAttended'
  <2>1. finalq'[0] > 0
    BY <1>0, <1>6 DEF Resend
  <2> QED
    BY <1>0, <2>1, AttendedByMessage
<1>7. ASSUME RetryFinal(t) PROVE UnitsAreAttended'
  <2>1. task[t].retries \in Nat /\ task[t].retries < MaxFRetries
    BY <1>0, <1>7 DEF RetryFinal, Ordered, RetrierMay, TaskStates
  <2>2. PICK r \in 0..MaxFRetries : r = task[t].retries + 1
    BY <2>1, FinalizationAssumption
  <2>3. finalq'[r] > 0
    BY <1>0, <1>7, <2>2 DEF RetryFinal
  <2> QED
    BY <2>3, AttendedByMessage
<1>8. ASSUME TaskCrash(t) PROVE UnitsAreAttended'
  BY <1>0, <1>8, AttendedByTask DEF TaskCrash
<1> QED
  BY <1>1, <1>3, <1>4, <1>5, <1>6, <1>7, <1>8 DEF FinalTask

\* The API and the specialists delete no unit and no result.
LEMMA AttendedBySpecialists ==
  ASSUME FinalTypeOK, UnitsAreAttended, SpecialistStep, UNCHANGED finalVars
  PROVE  UnitsAreAttended'
<1> USE DEF specialistVars, unitVars, sjobVars
<1>0. /\ UNCHANGED <<task, finalq, fStatus>> /\ results \in [UnitIds -> Nat] /\ crashes \in Nat
      /\ FinalizationEnded => FinalizationEnded'
  BY SpecialistAssumption DEF finalVars, FinalizationEnded, FinalTypeOK, SpecialistTypeOK
<1> DEFINE Frame == /\ UNCHANGED unitRun /\ (crashes' = 0 => crashes = 0)
                    /\ \A u \in UnitIds : results[u] > 1 => results'[u] > 1
<1>1. ASSUME NEW c \in Clients,
             \/ EnsureSpecialists(c) \/ ClientCommit(c)
             \/ (\E u \in UnitIds : ReviewUnit(c, u))
             \/ \E j \in SJobIds : ReplaySpecialist(c, j) \/ ClientSend(c, j)
      PROVE  Frame
  BY <1>1 DEF EnsureSpecialists, ClientCommit, ReviewUnit, ReplaySpecialist, ClientSend
<1>2. ASSUME (\E c \in Clients : ClientCrash(c)) \/ \E p \in Specialists : SpecialistCrash(p) PROVE Frame
  BY <1>0, <1>2 DEF ClientCrash, SpecialistCrash
<1>3. ASSUME NEW p \in Specialists, StoreResult(p) PROVE Frame
  <2>1. PICK u : u = sUnit[spec[p].job]
    OBVIOUS
  <2>2. results' = results \/ results' = [results EXCEPT ![u] = IF spec[p].found THEN @ ELSE @ + 1]
    BY <1>3, <2>1 DEF StoreResult
  <2>3. \A v \in UnitIds : results[v] \in Nat /\ results'[v] \in {results[v], results[v] + 1}
    BY <1>0, <2>2
  <2>4. \A v \in UnitIds : results[v] > 1 => results'[v] > 1
    BY <2>3
  <2> QED
    BY <1>3, <2>4 DEF StoreResult, SUnchanged
<1>4. ASSUME NEW p \in Specialists, (Extraction(p) /\ ~StoreResult(p)) \/ \E m \in SMessages : SReceive(p, m)
      PROVE  Frame
  BY <1>4 DEF Extraction, Extract, LookForResult, MarkSucceeded, MarkFailed, SRetry, SReceive, SUnchanged
<1>5. Frame
  BY <1>1, <1>2, <1>3, <1>4 DEF SpecialistStep
<1> QED
  BY <1>0, <1>5, AttendedKept

LEMMA AttendedStep == FinalTypeOK /\ Ordered /\ UnitsAreAttended /\ [Next]_vars => UnitsAreAttended'
<1> SUFFICES ASSUME FinalTypeOK, Ordered, UnitsAreAttended, [Next]_vars PROVE UnitsAreAttended'
  OBVIOUS
<1>1. CASE ScanMessage \/ UNCHANGED vars
  <2>1. UNCHANGED <<unitRun, results, crashes, finalq, fStatus, task>>
    BY <1>1 DEF ScanMessage, vars, finalVars, specialistVars, unitVars
  <2>2. FinalizationEnded => FinalizationEnded'
    BY <2>1 DEF FinalizationEnded
  <2> QED
    BY <2>1, <2>2, AttendedKept
<1> QED
  BY <1>1, AttendedByScan, AttendedByFinal, AttendedBySpecialists DEF Next, TReceive

\* Without crashes, a scan with units that have no topics has a message, a task or a
\* finalization under way that will give them some, until a finalization has ended or
\* a unit has two results: dropping messages at the lock, deferring, and two pipeline
\* runs that delete each other's units lose nothing.
THEOREM FinalizationsAreDriven == Spec => []FinalizationIsDriven
<1>1. Init => Ordered /\ UnitsAreAttended
  <2> SUFFICES ASSUME Init PROVE Ordered /\ UnitsAreAttended
    OBVIOUS
  <2>1. \A t \in Tasks : task[t].pc = "idle" /\ lock # t
    BY FinalizationAssumption DEF Init, IdleTask
  <2>2. Ordered
    BY <2>1 DEF Init, Ordered, OneAtATime, RowsInOrder, BegunHasRow, LeaverHasEnded, RetrierMay, FinalPcs
  <2>3. LiveUnits = {}
    BY DEF Init, SpecialistInit, LiveUnits
  <2> QED
    BY <2>2, <2>3 DEF UnitsAreAttended
<1>2. FinalTypeOK /\ Ordered /\ UnitsAreAttended /\ [Next]_vars => (Ordered /\ UnitsAreAttended)'
  BY OrderedStep, AttendedStep
<1>3. FinalTypeOK /\ UnitsAreAttended => FinalizationIsDriven
  <2> SUFFICES ASSUME UnitsAreAttended, crashes = 0, LiveUnits # {}
               PROVE  FinalizationIsUnderWay \/ FinalizationEnded \/ ResultStoredTwice
    BY DEF FinalizationIsDriven
  <2>1. \A t \in Tasks : Brings(t) => task[t].pc # "idle"
    BY DEF Brings, FinalPcs
  <2> QED
    BY <2>1 DEF UnitsAreAttended, Brought, FinalizationIsUnderWay
<1> QED
  BY <1>1, <1>2, <1>3, FinalTypeCorrect, PTL DEF Spec
=============================================================================
