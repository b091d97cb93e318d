------------------------ MODULE AccountingCorrections ------------------------
(* The accounting result of one document unit, the facts projected from it, and
   the manual corrections of a reviewer, which a later extraction of the same
   unit must not lose.  A request and the specialist worker each read the result
   and write it in a later step; nothing locks it in between.                 *)
EXTENDS Integers, FiniteSets, Sequences, SequencesExt

CONSTANTS Cells,           \* table cells a fact may give as its evidence
          FactKinds,           \* category and total flag of a fact
          Amounts,
          MaxCorrections,  \* bound: correction requests
          MaxJobRuns,  \* bound: runs of the specialist job
          MaxPayload       \* bound: facts of one extraction

VARIABLES result,          \* the stored payload and its version
          facts,           \* projected rows: a payload fact, its place, the version that wrote it
          request, worker, \* what a request and the worker have read
          acked,           \* anchors of the corrections acknowledged to the reviewer
          raced,           \* two writers have overlapped
          corrections, jobRuns
accVars == <<result, facts, request, worker, acked, raced, corrections, jobRuns>>

NoCell == "no cell"
Idle == [open |-> FALSE]

\* Generated facts carry no correction: what the reviewer may change is the kind,
\* the amount and the exclusion.
Generated == [cell: Cells \cup {NoCell}, kind: FactKinds, amount: Amounts, excluded: {FALSE}, reviewed: {FALSE}]
Payloads == UNION {[1..n -> Generated] : n \in 0..MaxPayload}
Changes == ({"kind"} \X FactKinds) \cup ({"amount"} \X Amounts) \cup {<<"excluded", TRUE>>}

AccInit ==
  /\ result = [payload |-> <<>>, log |-> <<>>, version |-> 0]
  /\ facts = {} /\ request = Idle /\ worker = Idle
  /\ acked = <<>> /\ raced = FALSE
  /\ corrections = 0 /\ jobRuns = 0

\* project_accounting_result: excluded facts are not projected.
ProjectAll(payload, version) ==           \* mutant: they are
  {[fact |-> payload[i], at |-> i, by |-> version] : i \in DOMAIN payload}
Projected(payload, version) ==
  {[fact |-> payload[i], at |-> i, by |-> version] : i \in {j \in DOMAIN payload : ~payload[j].excluded}}

\* _find_payload_fact_by_anchor: the first fact with the cell of the anchor, or,
\* for an anchor without a cell, with its kind and amount.
FindByValue(payload, anchor) ==           \* mutant: the cell is not looked at
  {i \in DOMAIN payload : payload[i].kind = anchor.kind /\ payload[i].amount = anchor.amount}
Found(payload, anchor) ==
  {i \in DOMAIN payload : IF anchor.cell # NoCell THEN payload[i].cell = anchor.cell
                          ELSE payload[i].kind = anchor.kind /\ payload[i].amount = anchor.amount}
First(S) == CHOOSE i \in S : \A j \in S : i <= j

Update(fact, change) ==
  [cell |-> fact.cell,
   kind |-> IF change[1] = "kind" THEN change[2] ELSE fact.kind,
   amount |-> IF change[1] = "amount" THEN change[2] ELSE fact.amount,
   excluded |-> fact.excluded \/ change[1] = "excluded",
   reviewed |-> TRUE]

Corrected(payload, c) ==
  IF Found(payload, c.anchor) = {} THEN payload
  ELSE [payload EXCEPT ![First(Found(payload, c.anchor))] = Update(@, c.change)]

\* reapply_manual_accounting_corrections: in order, each on what the former made;
\* those without a fact are kept for a later extraction.
KeepMatched(r, log) ==                    \* mutant: those are dropped
  [payload |-> FoldLeft(Corrected, r, log),
   log |-> SelectSeq(log, LAMBDA c : Found(r, c.anchor) # {})]
Reapplied(r, log) ==
  LET after[i \in 0 .. Len(log)] == IF i = 0 THEN r ELSE Corrected(after[i - 1], log[i])
      status(i) == IF Found(after[i - 1], log[i].anchor) = {} THEN "unmatched" ELSE "reapplied"
  IN  [payload |-> after[Len(log)],
       log |-> [i \in DOMAIN log |-> [log[i] EXCEPT !.status = status(i)]]]

\* The rows deleted are those the writer sees: all, or, while another writer is
\* open, perhaps only those committed when it began.
Write(new, seen) ==
  /\ result' = [payload |-> new.payload, log |-> new.log, version |-> result.version + 1]
  /\ facts' = {f \in facts : f.by > seen} \cup Projected(new.payload, result.version + 1)
-----------------------------------------------------------------------------
\* correct_accounting_fact, apply_manual_accounting_correction.
Ask == \E f \in facts, change \in Changes :
  LET anchor == [cell |-> f.fact.cell, kind |-> f.fact.kind, amount |-> f.fact.amount]
  IN  /\ ~request.open /\ corrections < MaxCorrections
      /\ Found(result.payload, anchor) # {}              \* else the request is refused
      /\ change # <<"kind", f.fact.kind>>                \* as that of its own amount
      /\ request' = [open |-> TRUE, read |-> result, change |->
                       [anchor |-> anchor, change |-> change, status |-> "applied"]]
      /\ corrections' = corrections + 1
      /\ UNCHANGED <<result, facts, worker, acked, raced, jobRuns>>

Answer == \E seen \in {request.read.version, result.version} :
  LET c == request.change
  IN  /\ Write([request.read EXCEPT !.payload = Corrected(@, c), !.log = Append(@, c)], seen)
      /\ acked' = Append(acked, c.anchor)
      /\ raced' = (raced \/ request.read.version # result.version)
      /\ request' = Idle
      /\ UNCHANGED <<worker, corrections, jobRuns>>

\* process_specialist_job: the result is read, corrected and stored.
Extract ==
  /\ ~worker.open /\ jobRuns < MaxJobRuns
  /\ \E p \in Payloads : worker' = [open |-> TRUE, read |-> result, payload |-> p]
  /\ jobRuns' = jobRuns + 1
  /\ UNCHANGED <<result, facts, request, acked, raced, corrections>>

Store == \E seen \in {worker.read.version, result.version} :
  /\ Write(Reapplied(worker.payload, worker.read.log), seen)
  /\ raced' = (raced \/ worker.read.version # result.version)
  /\ worker' = Idle
  /\ UNCHANGED <<request, acked, corrections, jobRuns>>

\* A failed extraction or refused request writes nothing.
GiveUp ==
  /\ \/ request.open /\ request' = Idle /\ UNCHANGED worker
     \/ worker.open /\ worker' = Idle /\ UNCHANGED request
  /\ UNCHANGED <<result, facts, acked, raced, corrections, jobRuns>>

\* rebuild_accounting_facts deletes every row and projects every result again.
RebuildFacts ==
  /\ facts' = Projected(result.payload, result.version)
  /\ UNCHANGED <<result, request, worker, acked, raced, corrections, jobRuns>>

AccNext == \/ Ask \/ (request.open /\ Answer) \/ Extract \/ (worker.open /\ Store)
           \/ GiveUp \/ RebuildFacts
AccSpec == AccInit /\ [][AccNext]_accVars
-----------------------------------------------------------------------------
(* Properties: what holds unless a request and the worker have overlapped *)

\* An acknowledged correction is never forgotten: it stays with the result, in
\* order, through every later extraction (accounting.py:187, registry.py:143).
\* An overlap loses the one that was written first.
CorrectionsAreKept ==
  ~raced => [i \in DOMAIN result.log |-> result.log[i].anchor] = acked

\* The facts the queries read are those of the stored payload, once each; an
\* overlap may leave the rows of both writers.
FactsMatchPayload ==
  ~raced => /\ Cardinality(facts) = Cardinality({f.at : f \in facts})
            /\ {f.at : f \in facts} = {i \in DOMAIN result.payload : ~result.payload[i].excluded}
            /\ \A f \in facts : f.fact = result.payload[f.at]

\* A correction of a fact that names its cell is applied to a fact of that cell,
\* whatever the later extractions make of its kind and amount.
CorrectionsStayInTheirCell ==
  ~raced => \A i \in DOMAIN result.payload : result.payload[i].reviewed =>
              \E j \in DOMAIN acked : acked[j].cell \in {NoCell, result.payload[i].cell}
=============================================================================
