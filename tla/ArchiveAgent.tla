---------------------------- MODULE ArchiveAgent ----------------------------
(* One question put to the archive agent (routers/knowledge.py,
   chat_with_knowledge_agent and its streaming twin): pages are read
   automatically, then a language model proposes one action at a time.  What
   the model proposes and what a tool finds are choices; the budget, the
   repeated calls, the two blocked attempts, the validation of the final answer
   and the forced finalization are the code's.                               *)
EXTENDS Naturals, Sequences, FiniteSets, SequencesExt, FiniteSetsExt, Functions

CONSTANTS
  AgentPages,     \* the pages of the archive, page 0 is the output of no page
  Queries,        \* the questions a tool can be asked
  MaxAgentSteps,  \* max_steps of the request
  AutoPages,      \* page_limit of the automatic evidence
  MaxToolCalls,   \* max_total of the budget
  SearchLimit, ReadLimit, SpecialistLimit, VisionLimit   \* its limits

ASSUME AgentAssumption == AgentPages \subseteq Nat \ {0}
\* The budget pays for the automatic evidence: one search and AutoPages readings.
ASSUME BudgetAssumption ==
  /\ {AutoPages, MaxToolCalls, SearchLimit, ReadLimit, SpecialistLimit, VisionLimit} \subseteq Nat
  /\ SearchLimit >= 1 /\ ReadLimit >= AutoPages /\ MaxToolCalls >= AutoPages + 1

VARIABLE chat    \* the request under way: what the handler holds, what it has stored
agentVars == <<chat>>

-----------------------------------------------------------------------------
(* The tools, by the category their calls are counted in. *)
ToolCategory ==
  [retrieve_evidence |-> "search", list_topics |-> "search",
   get_page_text |-> "read", get_document |-> "read",
   search_calendar_events |-> "specialist", query_accounting_tables |-> "specialist",
   analyze_page_image |-> "vision", request_page_vision |-> "vision"]
ToolNames == DOMAIN ToolCategory
Limit == [search |-> SearchLimit, read |-> ReadLimit,
          specialist |-> SpecialistLimit, vision |-> VisionLimit]
PageTools == {"get_page_text", "analyze_page_image", "request_page_vision"}
Reading == {"get_page_text", "analyze_page_image"}
Searching == {"retrieve_evidence", "list_topics", "search_calendar_events"}
CountedAtStart == {"retrieve_evidence", "get_page_text"}

Calls == {[tool |-> t, arg |-> a] : t \in PageTools, a \in AgentPages}
         \cup {[tool |-> t, arg |-> q] : t \in ToolNames \ PageTools, q \in Queries}

(* A trace step: the call, whether the tool really ran, and its output; a step
   that failed has an error and no output. *)
TraceStep(call, out) ==
  [tool |-> call.tool, arg |-> call.arg, ran |-> out.ran, error |-> out.error,
   page |-> out.page, text |-> out.text, status |-> out.status]
Blank == [ran |-> TRUE, error |-> FALSE, page |-> 0, text |-> FALSE, status |-> "ok"]
Raised == [Blank EXCEPT !.error = TRUE]
SkippedOutput(status) == [Blank EXCEPT !.ran = FALSE, !.status = status]

(* _run_knowledge_agent_tool: what the tool may put into the trace. *)
Outputs(call, allowVision) ==
  IF ToolCategory[call.tool] = "vision" /\ ~allowVision
  THEN {[SkippedOutput("vision_not_allowed_by_user") EXCEPT !.ran = TRUE]}
  ELSE {Raised}
       \cup (IF call.tool \in Reading
             THEN {[Blank EXCEPT !.page = call.arg, !.text = t] : t \in BOOLEAN}
             ELSE {Blank})

(* AgentToolBudget.consume: refused when the total or the category is used up. *)
OverBudget(b, tool) == \/ b.total >= MaxToolCalls
                       \/ b.used[ToolCategory[tool]] >= Limit[ToolCategory[tool]]
Consume(b, tool) == IF OverBudget(b, tool) THEN b
                    ELSE [total |-> b.total + 1, used |-> [b.used EXCEPT ![ToolCategory[tool]] = @ + 1]]
NoCalls == [total |-> 0, used |-> [c \in DOMAIN Limit |-> 0]]

EmptyBudget(trace) == NoCalls   \* mutant: the automatic evidence is free
(* _agent_budget_from_trace: the automatic steps that did not fail are paid for. *)
PayFor(b, s) == IF ~s.error /\ s.tool \in CountedAtStart THEN Consume(b, s.tool) ELSE b
BudgetFromTrace(trace) ==
  LET paid[k \in 0 .. Len(trace)] == IF k = 0 THEN NoCalls ELSE PayFor(paid[k - 1], trace[k])
  IN  paid[Len(trace)]

-----------------------------------------------------------------------------
(* The final answer: page ranges cited, a text that says nothing was found. *)
GroundedByCall(trace, c) ==   \* mutant: a step that asked for the page is enough
  \E i \in DOMAIN trace : trace[i].tool \in Reading /\ trace[i].arg \in c.from .. c.to
(* _trace_has_page_evidence_for_citation: the first successful reading of a page
   of the range decides, by whether it found any text. *)
Grounded(trace, c) ==
  LET reads == {i \in DOMAIN trace : /\ trace[i].tool \in Reading /\ ~trace[i].error
                                     /\ trace[i].page \in c.from .. c.to}
  IN  reads # {} /\ trace[Min(reads)].text

(* _is_supported_no_evidence_answer: two search steps without error. *)
SupportedNegative(final, trace) ==
  /\ final.negative
  /\ Cardinality({i \in DOMAIN trace : trace[i].tool \in Searching /\ ~trace[i].error}) >= 2

(* _normalize_knowledge_agent_final and _validate_knowledge_agent_final. *)
Normalize(final) ==
  [final EXCEPT !.answer = @ \/ final.reasoning,
                !.cites = IF @ = {} /\ final.page # 0
                          THEN {[from |-> final.page, to |-> final.page]} ELSE @]
ValidFinal(final, trace) ==
  /\ final.answer
  /\ IF final.cites = {} THEN SupportedNegative(final, trace)
     ELSE \A c \in final.cites : Grounded(trace, c)

Ranges == {[from |-> p, to |-> q] : p \in AgentPages, q \in AgentPages}
Citations == {{}} \cup {{r} : r \in {x \in Ranges : x.from <= x.to}}
             \cup {{[from |-> p, to |-> p] : p \in AgentPages}}
Finals == {[answer |-> a, reasoning |-> ~a, negative |-> n, cites |-> c, page |-> 0] :
             a \in BOOLEAN, n \in BOOLEAN, c \in Citations}
          \cup {[answer |-> TRUE, reasoning |-> FALSE, negative |-> FALSE,
                 cites |-> {}, page |-> p] : p \in AgentPages}

-----------------------------------------------------------------------------
NoFinal == [answer |-> FALSE, reasoning |-> FALSE, negative |-> FALSE, cites |-> {}, page |-> 0]

AgentInit == \E v \in BOOLEAN :
  chat = [stage |-> "retrieve", allowVision |-> v, left |-> <<>>, pages |-> {}, blocks |-> 0,
          trace |-> <<>>, seen |-> {}, budget |-> NoCalls, step |-> 0, blocked |-> 0,
          visions |-> {}, final |-> NoFinal, stored |-> "none"]

(* _prepare_automatic_agent_evidence: retrieve, then read the best pages.  A
   search that fails leaves no signature and ends the preparation. *)
AutoRetrieve ==
  /\ chat.stage = "retrieve"
  /\ \/ chat' = [chat EXCEPT !.stage = "loop",
                   !.trace = <<TraceStep([tool |-> "automatic_retrieve_evidence", arg |-> 0], Raised)>>]
     \/ \E found \in SeqOf(AgentPages, 2), q \in Queries :
          chat' = [chat EXCEPT !.stage = "read", !.left = found,
                     !.seen = {[tool |-> "retrieve_evidence", arg |-> q]},
                     !.trace = <<TraceStep([tool |-> "retrieve_evidence", arg |-> q], Blank)>>]

AutoRead ==
  /\ chat.stage = "read" /\ chat.left # <<>> /\ chat.blocks < AutoPages
  /\ LET call == [tool |-> "get_page_text", arg |-> Head(chat.left)]
         rest == [chat EXCEPT !.left = Tail(@), !.pages = @ \cup {call.arg}]
     IN  IF call.arg \in chat.pages THEN chat' = rest
         ELSE \E out \in Outputs(call, FALSE) :
                chat' = [rest EXCEPT !.trace = Append(@, TraceStep(call, out)),
                           !.seen = IF out.error THEN @ ELSE @ \cup {call},
                           !.blocks = IF out.error THEN @ ELSE @ + 1]

OpenLoop ==
  /\ chat.stage = "read" /\ (chat.left = <<>> \/ chat.blocks = AutoPages)
  /\ chat' = [chat EXCEPT !.stage = "loop", !.left = <<>>, !.budget = BudgetFromTrace(chat.trace)]

InLoop == chat.stage = "loop" /\ chat.step < MaxAgentSteps

(* One turn of the loop in which the model asks for a tool: an identical call is
   skipped, one over the budget is refused, any other runs, and two blocked
   attempts in a row end the loop. *)
UseTool(call) ==
  LET over == OverBudget(chat.budget, call.tool)
      outs == IF call \in chat.seen THEN {SkippedOutput("repeated_tool_skipped")}
              ELSE IF over THEN {SkippedOutput("tool_budget_exhausted")}
              ELSE Outputs(call, chat.allowVision)
      skip == call \in chat.seen \/ over
  IN  /\ InLoop
      /\ \E out \in outs :
           chat' = [chat EXCEPT !.step = @ + 1, !.seen = @ \cup {call},
                      !.budget = IF call \in chat.seen THEN @ ELSE Consume(@, call.tool),
                      !.trace = Append(@, TraceStep(call, out)),
                      !.visions = IF call.tool = "request_page_vision" /\ out = Blank
                                  THEN @ \cup {call.arg} ELSE @,
                      !.blocked = IF skip THEN @ + 1 ELSE 0,
                      !.stage = IF skip /\ chat.blocked = 1 THEN "forced" ELSE @]

(* A final answer that does not hold is sent back to the model. *)
ProposeFinal(proposed) ==
  LET final == Normalize(proposed) IN
  /\ InLoop
  /\ IF ValidFinal(final, chat.trace)
     THEN chat' = [chat EXCEPT !.step = @ + 1, !.final = final, !.stage = "answered"]
     ELSE chat' = [chat EXCEPT !.step = @ + 1]

ModelFails == InLoop /\ chat' = [chat EXCEPT !.step = @ + 1, !.stage = "forced"]

OutOfSteps == /\ chat.stage = "loop" /\ chat.step = MaxAgentSteps
              /\ chat' = [chat EXCEPT !.stage = "forced"]

(* _force_knowledge_agent_final_answer: one last call, a final answer or nothing. *)
ForceFinal ==
  /\ chat.stage = "forced"
  /\ \/ chat' = [chat EXCEPT !.stage = "incomplete"]   \* the model fails or asks for a tool
     \/ \E proposed \in Finals :
          LET final == Normalize(proposed)
          IN  chat' = IF ValidFinal(final, chat.trace)
                      THEN [chat EXCEPT !.final = final, !.stage = "answered"]
                      ELSE [chat EXCEPT !.stage = "incomplete"]

(* _persist_knowledge_agent_run *)
Persist == /\ chat.stage \in {"answered", "incomplete"} /\ chat.stored = "none"
           /\ chat' = [chat EXCEPT !.stored = chat.stage]

(* A streamed chat whose reader goes away is closed where it yields: nothing is stored. *)
Disconnect == /\ chat.stage \in {"loop", "forced", "answered", "incomplete"}
              /\ chat.stored = "none"
              /\ chat' = [chat EXCEPT !.stage = "closed"]

AgentNext == \/ AutoRetrieve \/ AutoRead \/ OpenLoop
             \/ \E call \in Calls : UseTool(call)
             \/ \E final \in Finals : ProposeFinal(final)
             \/ ModelFails \/ OutOfSteps \/ ForceFinal \/ Persist \/ Disconnect
AgentSpec == AgentInit /\ [][AgentNext]_agentVars

-----------------------------------------------------------------------------
Ran(i) == chat.trace[i].ran /\ ~(chat.trace[i].error)

(* Every citation of a stored answer has a page that a tool really read and found
   text on, whatever was skipped, refused or failed before it; an answer
   without citations says that nothing was found. *)
CitedPagesWereRead ==
  chat.stored = "answered" =>
    IF chat.final.cites = {} THEN chat.final.negative
    ELSE \A c \in chat.final.cites : \E i \in DOMAIN chat.trace :
           Ran(i) /\ chat.trace[i].text /\ chat.trace[i].arg \in c.from .. c.to

(* The tools a run really used, those of the automatic evidence included, stay
   within the total and the limits, and no call succeeds twice. *)
EffortIsBounded ==
  LET ran(S) == Cardinality({i \in DOMAIN chat.trace : chat.trace[i].tool \in S /\ Ran(i)})
  IN  /\ ran(ToolNames) <= MaxToolCalls
      /\ \A c \in DOMAIN Limit : ran({t \in ToolNames : ToolCategory[t] = c}) <= Limit[c]
      /\ \A i, j \in DOMAIN chat.trace :
           i # j /\ Ran(i) /\ Ran(j) => \/ chat.trace[i].tool # chat.trace[j].tool
                                        \/ chat.trace[i].arg # chat.trace[j].arg
=============================================================================
