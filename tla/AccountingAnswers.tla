-------------------------- MODULE AccountingAnswers --------------------------
(* One accounting question (routers/knowledge.py, ask_accounting): the newest
   table of each document unit, the periods asked for, planned or inferred, the
   rows of the subject in each period, and their comparison by category.       *)
EXTENDS Naturals, Integers, FiniteSets, FiniteSetsExt, Functions

CONSTANTS
  TableUnits,   \* document units with an accounting result
  Years,        \* the years of the periods
  Details,      \* the categories of the tables, but for
  Totals,       \* "totale" and those that start with "totale " (_is_total_category)
  MaxAmount,    \* bound: an amount of one cell, the least one of a total is its negative
  MaxCredit     \* bound: the least amount of a detail is its negative

VARIABLE question   \* the question, the tables and the answer
questionVars == <<question>>

ASSUME AnswerAssumption ==
  /\ IsFiniteSet(TableUnits) /\ IsFiniteSet(Details) /\ IsFiniteSet(Totals)
  /\ Details \cap Totals = {} /\ MaxAmount \in Nat /\ MaxCredit \in Nat
Categories == Details \cup Totals

(* A period is a pair of years; NoPeriod stands for a date that is missing. *)
NoPeriod == <<0, 0>>
Periods == {p \in Years \X Years : p[1] <= p[2]}
Earlier(p, q) == p[1] < q[1] \/ (p[1] = q[1] /\ p[2] < q[2])

(* The newest result of a unit: without a summary view the unit has no table, and
   an older result is not looked at.  One row a table, the subject's or not: the
   cells of another's row are not looked at.  A cell that is missing counts as
   nothing, and a total is what the document reports, whatever its details.     *)
TableCells == {c \in [Categories -> (-MaxAmount)..MaxAmount] : \A d \in Details : c[d] >= -MaxCredit}
NoCells == [c \in Categories |-> 0]
NoTable == [period |-> NoPeriod]
Tables == {[period |-> p, ofSubject |-> TRUE, cells |-> c] : p \in Periods, c \in TableCells}
            \cup {[period |-> p, ofSubject |-> FALSE, cells |-> NoCells] : p \in Periods}

(* _accounting_summary_dataframes, _matching_accounting_rows, _rows_for_period *)
Dataframes(q) == {u \in TableUnits : q.tables[u] # NoTable}
Matching(q) == {u \in Dataframes(q) : q.tables[u].ofSubject}
RowsForPeriod(q, p) ==
  {u \in Matching(q) : /\ p # NoPeriod
                       /\ q.tables[u].period[1] <= p[2] /\ q.tables[u].period[2] >= p[1]}

(* _infer_two_periods, _infer_latest_period: the last periods of all the tables *)
Known(q) == {q.tables[u].period : u \in Dataframes(q)}
LastOf(S) == IF S = {} THEN NoPeriod ELSE CHOOSE p \in S : \A x \in S : x = p \/ Earlier(x, p)
Inferred(q) ==
  IF Cardinality(Known(q)) < 2 THEN [a |-> NoPeriod, b |-> NoPeriod]
  ELSE [a |-> LastOf(Known(q) \ {LastOf(Known(q))}), b |-> LastOf(Known(q))]

OrElse(p, q) == IF p # NoPeriod THEN p ELSE q
(* The periods asked for, else planned, else the two last ones, else the last. *)
PeriodsOf(q) ==
  LET a == OrElse(q.asked.a, q.planned.a)
      b == OrElse(q.asked.b, q.planned.b)
      both == IF a # NoPeriod /\ b # NoPeriod THEN [a |-> a, b |-> b]
              ELSE [a |-> OrElse(a, Inferred(q).a), b |-> OrElse(b, Inferred(q).b)]
  IN  [both EXCEPT !.a = OrElse(@, LastOf(Known(q)))]

-----------------------------------------------------------------------------
(* _sum_category: the amount of a category over the rows of a period. *)
SumCategory(q, units, category) == SumFunction([u \in units |-> q.tables[u].cells[category]])

(* The categories a comparison shows: those with an amount in either period. *)
Shown(q, A, B) == {c \in Categories : SumCategory(q, A, c) # 0 \/ SumCategory(q, B, c) # 0}

TotalOfAll(q, shown, units) ==   \* mutant: the columns of totals are added to the details
  SumFunction([c \in shown |-> SumCategory(q, units, c)])
(* _comparison_total_amount, _summary_total_amount: what is reported in the columns
   of totals, all of them, when one is shown; else the sum of the others. *)
TotalAmount(q, shown, units) ==
  LET totals == shown \cap Totals
  IN  SumFunction([c \in (IF totals # {} THEN totals ELSE shown) |-> SumCategory(q, units, c)])

Compare(q, A, B) ==
  LET a == TotalAmount(q, Shown(q, A, B), A)
      b == TotalAmount(q, Shown(q, A, B), B)
  IN  [status |-> "answered", a |-> a, b |-> b,
       direction |-> IF b > a THEN "period_b_more" ELSE IF b < a THEN "period_b_less" ELSE "equal"]

Nothing(status) == [status |-> status, a |-> 0, b |-> 0, direction |-> "equal"]

(* ask_accounting: its early returns in their order. *)
AnswerTo(q) ==
  LET p == PeriodsOf(q)
      A == RowsForPeriod(q, p.a)
      B == RowsForPeriod(q, p.b)
  IN  IF Dataframes(q) = {} THEN Nothing("no_accounting_tables")
      ELSE IF ~q.subject THEN Nothing("needs_subject")
      ELSE IF Matching(q) = {} THEN Nothing("subject_not_found")
      ELSE IF A # {} /\ B = {} /\ q.asked.b = NoPeriod
      THEN [Nothing("answered_single_period") EXCEPT !.a = TotalAmount(q, Shown(q, A, {}), A)]
      ELSE IF A = {} \/ B = {} THEN Nothing("insufficient_periods")
      ELSE Compare(q, A, B)

-----------------------------------------------------------------------------
NoPlan == [a |-> NoPeriod, b |-> NoPeriod]
PeriodPairs == {[a |-> p, b |-> r] : p \in Periods, r \in Periods}
(* The plan is the model's, or the first two years of the question. *)
Plans == {NoPlan} \cup {[a |-> <<y, y>>, b |-> <<z, z>>] : y \in Years, z \in Years}

QuestionInit == question = [tables |-> [u \in TableUnits |-> NoTable], asked |-> NoPlan,
                            planned |-> NoPlan, subject |-> FALSE, answer |-> Nothing("none")]

(* A question comes in, and the tables it is about are loaded. *)
ReceiveQuestion ==
  /\ question.answer.status = "none"
  /\ \E tables \in [TableUnits -> Tables \cup {NoTable}],
        asked \in PeriodPairs \cup {NoPlan} \cup {[a |-> p, b |-> NoPeriod] : p \in Periods} :
       question' = [question EXCEPT !.tables = tables, !.asked = asked,
                                    !.answer = Nothing("asked")]

(* _plan_accounting_question finds a subject and periods, or neither. *)
AskAccounting ==
  /\ question.answer.status = "asked"
  /\ \/ question' = [question EXCEPT !.answer = AnswerTo(question)]
     \/ \E p \in Plans :     \* not looked at when the question gives both periods
          LET planned == [question EXCEPT !.subject = TRUE, !.planned = p]
          IN  /\ p = NoPlan \/ question.asked.a = NoPeriod \/ question.asked.b = NoPeriod
              /\ question' = [planned EXCEPT !.answer = AnswerTo(planned)]
QuestionNext == ReceiveQuestion \/ AskAccounting
QuestionSpec == QuestionInit /\ [][QuestionNext]_questionVars

-----------------------------------------------------------------------------
(* The two totals of an answer are of one kind, and so is the direction read off
   them: both are added up from what the rows of the subject report as totals in
   the two periods, or, when no column of totals comes to anything in either
   period, both from the details of those rows.  Neither adds a total to details. *)
TotalsAddUp ==
  question.answer.status \in {"answered", "answered_single_period"} =>
    LET p == PeriodsOf(question)
        A == RowsForPeriod(question, p.a)
        B == RowsForPeriod(question, p.b)
        reported == \E c \in Totals : SumCategory(question, A, c) # 0 \/ SumCategory(question, B, c) # 0
        ofRow(u) == SumFunctionOnSet(question.tables[u].cells, IF reported THEN Totals ELSE Details)
        sum(units) == SumFunction([u \in units |-> ofRow(u)])
    IN  /\ question.answer.a = sum(A)
        /\ question.answer.b = sum(B)
        /\ question.answer.direction = "period_b_more" => sum(B) > sum(A)
        /\ question.answer.direction = "period_b_less" => sum(B) < sum(A)
=============================================================================
