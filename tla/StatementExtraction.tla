------------------------- MODULE StatementExtraction -------------------------
(* The extraction of an accounting statement: tables are parsed, an agent (a
   model that calls tools) accumulates the accounts of the units from them, a
   second model may propose corrections of their structure, and the outcome is
   scored and stored as accepted or to be reviewed.  Texts, identities and
   periods are data: one row of one unit stands for the rows of a table.      *)
EXTENDS Integers, FiniteSets, Sequences, SequencesExt

CONSTANTS MaxTables, MaxSteps   \* bounds: parsed tables, steps of the agent

VARIABLES stage,     \* "start", "agent", "reconcile", "score", "done"
          tables,    \* type, columns and category override of each
          accounts,  \* facts of the unit, in order
          provider,  \* a model is configured
          steps, outcome
stmtVars == <<stage, tables, accounts, provider, steps, outcome>>

Types == {"expense_allocation", "payment_schedule", "unknown"}
NoLabel == "none"
\* Headers of amounts: a named category, a total, and a total cut short by OCR.
Cell(h, n) == [header |-> h, amount |-> n]
Layouts == {<<Cell("total", 1)>>, <<Cell("tot", 2), Cell("quota", 1)>>, <<Cell("tot", 1), Cell("total", 2)>>}
Table == [type: Types, cells: Layouts, label: {NoLabel}]
Headers(t) == {t.cells[j].header : j \in DOMAIN t.cells}
Amount(t, h) == (CHOOSE c \in ToSet(t.cells) : c.header = h).amount
Labels == {"scala", "giardino"}

StmtInit == /\ stage = "start" /\ tables = <<>> /\ accounts = <<>>
            /\ provider = FALSE /\ steps = 0 /\ outcome = "pending"

\* _extract_structured_tables, or the tables of the markdown: data.
Parse == /\ stage = "start"
         /\ stage' = "agent"
         /\ \E n \in 0..MaxTables : tables' \in [1..n -> Table]
         /\ provider' \in BOOLEAN
         /\ UNCHANGED <<accounts, steps, outcome>>
-----------------------------------------------------------------------------
(* Facts *)

\* _classify_fact_column and _derive_table_category: a total is the total of the
\* management, another column its own category; a label of the table overrides.
Category(t, header) == IF t.type = "expense_allocation" /\ t.label # NoLabel THEN t.label
                       ELSE IF header = "total" THEN "Totale gestione" ELSE header
Total(header) == header = "total"

\* _extract_accounts over tables[i], i in indices: columns in the order of headers.
FactsOf(ts, i) ==
  IF ts[i].type \notin {"expense_allocation", "payment_schedule"} THEN <<>>
  ELSE [j \in DOMAIN ts[i].cells |->
          LET c == ts[i].cells[j]
          IN  [category |-> Category(ts[i], c.header), total |-> Total(c.header), table |-> i,
               column |-> c.header, amount |-> c.amount]]
ExtractAccounts(ts, indices) ==
  LET upTo[k \in 0 .. Len(indices)] ==
        IF k = 0 THEN <<>> ELSE upTo[k - 1] \o FactsOf(ts, indices[k])
  IN  upTo[Len(indices)]

\* _merge_accounts: the facts of a unit seen before are added unless one of their
\* category and type is there; those of a new unit are taken as they are.
MergeFact(fs, f) ==
  IF \E i \in DOMAIN fs : fs[i].category = f.category /\ fs[i].total = f.total THEN fs ELSE Append(fs, f)
Merge(acc, new) ==
  LET merged[k \in 0 .. Len(new)] == IF k = 0 THEN acc ELSE MergeFact(merged[k - 1], new[k])
  IN  IF acc = <<>> THEN new ELSE merged[Len(new)]
-----------------------------------------------------------------------------
(* agentic_account_extraction *)

Indices == {s \in UNION {[1..n -> DOMAIN tables] : n \in 1..MaxTables} :
              \A i, j \in DOMAIN s : i < j => s[i] < s[j]}
AgentTurn == stage = "agent" /\ provider /\ steps < MaxSteps
Stay == stage' = stage /\ steps' = steps + 1 /\ UNCHANGED <<provider, outcome>>

\* extract_accounts; a category name stays on the tables.
ToolExtract == \E s \in Indices, label \in Labels \cup {NoLabel} :
  LET labelled == IF label = NoLabel THEN tables
                  ELSE [i \in DOMAIN tables |-> IF i \in ToSet(s) THEN [tables[i] EXCEPT !.label = label]
                                                ELSE tables[i]]
  IN  /\ AgentTurn /\ Stay
      /\ tables' = labelled
      /\ accounts' = Merge(accounts, ExtractAccounts(labelled, s))

\* llm_extract_table: the model reads an amount itself and gives no evidence.
ToolLlmExtract == \E i \in DOMAIN tables, label \in Labels \cup {"unknown"} :
  /\ AgentTurn /\ Stay
  /\ accounts' = Merge(accounts, <<[category |-> label, total |-> FALSE, table |-> 0,
                                    column |-> NoLabel, amount |-> 1]>>)
  /\ UNCHANGED tables

\* label_categories: facts without a category of their own get that of their
\* table; facts without evidence that of the first table.
Relabel(fs, i, label) ==
  [j \in DOMAIN fs |-> IF fs[j].category \in {"Totale gestione", "unknown"} /\ fs[j].table \in {0, i}
                       THEN [fs[j] EXCEPT !.category = label] ELSE fs[j]]
RelabelAll(fs, s, label) ==
  LET upTo[k \in 0 .. Len(s)] == IF k = 0 THEN fs ELSE Relabel(upTo[k - 1], s[k], label[s[k]])
  IN  upTo[Len(s)]
ToolLabel == \E s \in Indices : \E label \in [ToSet(s) -> Labels] :
  /\ AgentTurn /\ Stay
  /\ accounts # <<>>
  /\ accounts' = RelabelAll(accounts, s, label)
  /\ UNCHANGED tables

\* The tools that only read, and the ones that fail.
ToolRead == AgentTurn /\ Stay /\ UNCHANGED <<tables, accounts>>

\* finalize, a decision the model fails to give, the last step, or no model.
AgentEnds == /\ stage = "agent"
             /\ stage' = "reconcile"
             /\ steps' = 0
             /\ UNCHANGED <<tables, accounts, provider, outcome>>
-----------------------------------------------------------------------------
(* Validation, reconciliation and outcome *)

\* _build_validation_checks: totals of allocations, and the instalments of a
\* schedule against its total.
Checks(ts) ==
  LET allocations == {i \in DOMAIN ts : ts[i].type = "expense_allocation" /\ "total" \in Headers(ts[i])}
      schedules == {i \in DOMAIN ts : ts[i].type = "payment_schedule" /\ {"tot", "total"} \subseteq Headers(ts[i])}
      found == (IF allocations = {} THEN {} ELSE {"pass"})
               \cup {IF Amount(ts[i], "tot") = Amount(ts[i], "total") THEN "pass" ELSE "fail" : i \in schedules}
  IN  IF found = {} THEN {"unknown"} ELSE found

\* _extraction_quality.
Quality(ts, fs) ==
  (IF "pass" \in Checks(ts) THEN 20 ELSE 0) - (IF "fail" \in Checks(ts) THEN 25 ELSE 0) + Len(fs)
    + 3 * Cardinality({j \in DOMAIN fs : fs[j].total}) + Cardinality({i \in DOMAIN ts : ts[i].type # "unknown"})

\* _apply_structural_proposal: a header may be completed unless the table has the
\* corrected one (the column moves to the end), a type replaced.
Rename(t) == IF "tot" \in Headers(t) /\ "total" \notin Headers(t)
             THEN LET i == CHOOSE j \in DOMAIN t.cells : t.cells[j].header = "tot"
                  IN  [t EXCEPT !.cells = Append(RemoveAt(@, i), Cell("total", @[i].amount))]
             ELSE t
Proposals(ts) == [DOMAIN ts -> [rename: BOOLEAN, type: Types \ {"unknown"}]]
Apply(ts, p) == [i \in DOMAIN ts |->
                   [IF p[i].rename THEN Rename(ts[i]) ELSE ts[i] EXCEPT !.type = p[i].type]]

KeepAccounts(ts, fs, p) ==                \* mutant: the accounts stay those of the agent
  IF Quality(Apply(ts, p), ExtractAccounts(Apply(ts, p), [i \in DOMAIN ts |-> i])) > Quality(ts, fs)
  THEN [tables |-> Apply(ts, p), accounts |-> fs] ELSE [tables |-> ts, accounts |-> fs]

\* _reconcile_with_llm: the candidate replaces tables and accounts together, and
\* only when it is better.
Reconcile(ts, fs, p) ==
  LET candidate == Apply(ts, p)
      extracted == ExtractAccounts(candidate, [i \in DOMAIN ts |-> i])
  IN  IF candidate # ts /\ Quality(candidate, extracted) > Quality(ts, fs)
      THEN [tables |-> candidate, accounts |-> extracted]
      ELSE [tables |-> ts, accounts |-> fs]

Correct ==
  /\ stage = "reconcile"
  /\ stage' = "score"
  /\ \/ UNCHANGED <<tables, accounts>>         \* no model, or no trigger for it
     \/ /\ provider
        /\ \E p \in Proposals(tables) :
             LET r == Reconcile(tables, accounts, p) IN tables' = r.tables /\ accounts' = r.accounts
  /\ UNCHANGED <<provider, steps, outcome>>

\* process_accounting_statement, in hundredths; known is what the text tells:
\* a period, a type of statement, a structured source.
UncappedConfidence(ts, fs, with, known) ==     \* mutant: no cap
  45 + (IF ts # <<>> THEN 20 ELSE 0) + (IF Checks(ts) # {"unknown"} THEN 10 ELSE 0)
     + 10 * Cardinality(known)
Confidence(ts, fs, with, known) ==
  LET sum == 45 + (IF ts # <<>> THEN 20 ELSE 0) + (IF Checks(ts) # {"unknown"} THEN 10 ELSE 0)
                + 10 * Cardinality(known \cap {"period", "type"}) + 5 * Cardinality(known \cap {"structured"})
  IN  IF ~with \/ fs = <<>> THEN IF sum < 69 THEN sum ELSE 69
      ELSE IF sum < 97 THEN sum ELSE 97

\* The handler's validation and the review status of the specialist task.
Conclude ==
  /\ stage = "score"
  /\ stage' = "done"
  /\ \E known \in SUBSET {"period", "type", "structured"} :
       outcome' = IF /\ tables # <<>> /\ "fail" \notin Checks(tables)
                     /\ Confidence(tables, accounts, provider, known) >= 70
                  THEN "auto_accepted" ELSE "needs_review"
  /\ UNCHANGED <<tables, accounts, provider, steps>>

StmtNext == Parse \/ ToolExtract \/ ToolLlmExtract \/ ToolLabel \/ ToolRead \/ AgentEnds \/ Correct \/ Conclude
StmtSpec == StmtInit /\ [][StmtNext]_stmtVars
-----------------------------------------------------------------------------
(* Properties *)

\* A statement is accepted without review only when a model is there, accounts were
\* found, by it or by the rules after its corrections, and no deterministic check
\* fails, whichever of agent, reconciliation and scoring fell short
\* (accounting_statement.py:283, registry.py:118).
AcceptedStatementIsRead ==
  outcome = "auto_accepted" => provider /\ accounts # <<>> /\ "fail" \notin Checks(tables)

\* The cell a fact gives as its evidence exists under that header in the tables
\* and holds the amount, also after headers have been corrected
\* (accounting_statement.py:536).
EvidenceLocatesAmount ==
  \A j \in DOMAIN accounts :
    LET f == accounts[j]
    IN  f.table # 0 => Cell(f.column, f.amount) \in ToSet(tables[f.table].cells)
=============================================================================
