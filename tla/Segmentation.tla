---------------------------- MODULE Segmentation ----------------------------
(* From an OCR result to the document units of a scan (page_artifacts.py,
   segmentation.py, pipeline.py): the pages, the draft made window by window,
   the decision on every pair of adjacent pages, the segments, and the review
   the confidences call for.  What the model answers is a choice.            *)
EXTENDS Naturals, Sequences, FiniteSets, SequencesExt, FiniteSetsExt, Functions

CONSTANTS
  MaxPages, MaxLines,    \* bounds: pages of a scan, lines of a page
  Window, WindowOverlap, \* SEGMENTATION_WINDOW_PAGES, SEGMENTATION_WINDOW_OVERLAP
  MaxAttempts,           \* attempts at a window, and at its review
  Confidences, Threshold \* answers; confidence_threshold_segmentation, _classification

ASSUME SegmentationAssumption ==
  MaxPages \in Nat \ {0} /\ MaxLines \in Nat /\ Confidences \subseteq 1 .. 100 /\ Threshold \in Nat
ASSUME WindowAssumption == Window \in Nat /\ WindowOverlap \in 0 .. Window - 1

VARIABLE split    \* the scan unit being processed
segVars == <<split>>

-----------------------------------------------------------------------------
(* The OCR result.  An engine that works page by page gives sizes, the lines of
   each page; the markdown joins the pages that have text with a blank line.
   Docling gives one markdown of so many lines and the number of pages.       *)
Add(n, size) == IF size = 0 THEN n ELSE n + size + 1
LinesBefore(sizes, p) ==
  LET upTo[q \in 0 .. Len(sizes)] == IF q = 0 THEN 0 ELSE Add(upTo[q - 1], sizes[q])
  IN  upTo[p - 1]
Joined(sizes) == [count |-> Len(sizes), sizes |-> sizes,
                  lines |-> LinesBefore(sizes, Len(sizes) + 1) - 1]
PagedResults == {Joined(s) : s \in {z \in UNION {[1 .. n -> 0 .. MaxLines] : n \in 1 .. MaxPages} :
                                      \E p \in DOMAIN z : z[p] > 0}}
TextResults == {[count |-> n, sizes |-> << >>, lines |-> l] :
                  n \in 1 .. MaxPages, l \in 1 .. MaxPages * MaxLines}

PerPage(ocr) == Max({1, ocr.lines \div ocr.count})
SplitExactly(ocr) ==   \* mutant: the last page does not take the rest
  [p \in 1 .. ocr.count |-> (p - 1) * PerPage(ocr) + 1 .. Min({p * PerPage(ocr), ocr.lines})]
(* _split_by_page_markers, of a text without page markers. *)
SplitEvenly(ocr) ==
  [p \in 1 .. ocr.count |->
     (p - 1) * PerPage(ocr) + 1 ..
       (IF p = ocr.count THEN ocr.lines ELSE Min({p * PerPage(ocr), ocr.lines}))]
(* build_page_artifacts: the lines of the markdown each page has. *)
PageLines(ocr) ==
  IF ocr.sizes = << >> THEN SplitEvenly(ocr)
  ELSE [p \in 1 .. ocr.count |->
          LinesBefore(ocr.sizes, p) + 1 .. LinesBefore(ocr.sizes, p) + ocr.sizes[p]]
JoinLines(ocr) == IF ocr.sizes = << >> THEN {}   \* the lines that join two pages
              ELSE {LinesBefore(ocr.sizes, p) : p \in {q \in 2 .. ocr.count : LinesBefore(ocr.sizes, q) > 0}}

(* _extract_segment_text: the lines a unit is routed and classified by. *)
UnitLines(ocr, first, last) ==
  (first - 1) * PerPage(ocr) + 1 .. Min({last * PerPage(ocr), ocr.lines})

-----------------------------------------------------------------------------
(* Windows, segments and the checks on them. *)
Windows(n) ==
  IF n <= Window THEN <<1 .. n>>
  ELSE LET step == Window - WindowOverlap
       IN  [w \in 1 .. (n + step - 1) \div step |->
              (w - 1) * step + 1 .. Min({(w - 1) * step + Window, n})]

(* The runs of pages between two cuts; a cut is the page before it. *)
PageRuns(n, cuts) == {[first |-> f, last |-> Min({p \in cuts \cup {n} : p >= f})] :
                    f \in {1} \cup {p + 1 : p \in cuts}}
(* _validate_coverage *)
Covers(runs, n) == \A p \in 1 .. n : Cardinality({r \in runs : p \in r.first .. r.last}) = 1

(* What a model may answer for a window whose segments are valid: boundaries of
   its own, inside the window or not, one perhaps between pages not adjacent. *)
Boundary(p, c, adjacent) == [page |-> p, confidence |-> c, adjacent |-> adjacent]
Answers(w) ==
  [cuts : {{}, {Boundary(Min(w), Max(Confidences), FALSE)}}
            \cup {{Boundary(p, c, TRUE)} : p \in {Min(w) - 1} \cup w, c \in Confidences},
   overall : Confidences]

(* _segment_with_llm: per pair the most confident boundary, those outside the
   scan skipped. *)
MergedCuts(results, n) ==
  LET all == UNION {r.cuts : r \in Range(results)}
  IN  {b \in all : /\ b.page \in 1 .. n - 1
                   /\ \A o \in all : o.page = b.page => o.confidence <= b.confidence}
Weakest(results) == Min({r.overall : r \in Range(results)})

KeepDraftCuts(n, draft, decisions) ==   \* mutant: a drafted boundary is never taken back
  {p \in 1 .. n - 1 : decisions[p].cut} \cup (draft.pages \cap 1 .. n - 1)
DecidedCuts(n, draft, decisions) == {p \in 1 .. n - 1 : decisions[p].cut}
(* _adjudicate_adjacent_boundaries: a segment is as sure as the least sure of the
   decisions inside it and of the one that closes it. *)
Segments(n, draft, decisions) ==
  LET runs == PageRuns(n, DecidedCuts(n, draft, decisions))
      sure(r) == {decisions[p].confidence : p \in r.first .. Min({r.last, n - 1})}
  IN  {[first |-> r.first, last |-> r.last,
        confidence |-> IF sure(r) = {} THEN draft.overall ELSE Min(sure(r))] : r \in runs}

-----------------------------------------------------------------------------
(* The run of the pipeline. *)
NoDraft == [pages |-> {}, overall |-> Max(Confidences)]
SegInit ==
  split = [ocr |-> Joined(<<1>>), at |-> "new",
            attempt |-> 0, reviews |-> 0, results |-> << >>, draft |-> NoDraft,
            decisions |-> << >>, units |-> << >>, regulation |-> FALSE, status |-> "new"]

(* process_scan_unit loads the OCR result of the scan unit. *)
StartScan ==
  /\ split.at = "new"
  /\ \E ocr \in PagedResults \cup TextResults :
       split' = [split EXCEPT !.ocr = ocr, !.status = "processing",
                              !.at = IF ocr.count > 1 THEN "draft" ELSE "single"]

Pages == split.ocr.count
Fail == split' = [split EXCEPT !.at = "end", !.status = "failed"]
WindowNow == Windows(Pages)[Len(split.results) + 1]
NextAttempt(attempts) == split' = [split EXCEPT !.at = IF attempts = MaxAttempts THEN "end" ELSE "draft",
                                              !.status = IF attempts = MaxAttempts THEN "failed" ELSE @,
                                              !.attempt = attempts, !.reviews = 0]

DraftWindow == /\ split.at = "draft"
               /\ \/ split' = [split EXCEPT !.at = "review", !.reviews = 0]
                  \/ NextAttempt(split.attempt + 1)    \* unreadable or incomplete

(* The draft is reviewed; only the review counts.  One that is incomplete is
   asked for again, one that cannot be read costs the window an attempt.      *)
ReviewWindow ==
  /\ split.at = "review"
  /\ \/ \E a \in Answers(WindowNow) :
          LET results == Append(split.results, a)
          IN  split' = [split EXCEPT !.results = results, !.attempt = 0,
                         !.at = IF Len(results) = Len(Windows(Pages)) THEN "merge" ELSE "draft"]
     \/ IF split.reviews + 1 = MaxAttempts THEN NextAttempt(split.attempt + 1)
        ELSE split' = [split EXCEPT !.reviews = @ + 1]
     \/ NextAttempt(split.attempt + 1)

(* One window is its own draft; several are merged and checked. *)
MergeWindows ==
  /\ split.at = "merge"
  /\ LET several == Len(split.results) > 1
         cuts == IF several THEN MergedCuts(split.results, Pages) ELSE split.results[1].cuts
         pages == {b.page : b \in cuts}
     IN  IF several /\ (\/ \E r \in Range(split.results) : \E b \in r.cuts : ~b.adjacent
                        \/ ~Covers(PageRuns(Pages, pages), Pages))
         THEN Fail
         ELSE split' = [split EXCEPT !.at = "adjudicate", !.results = << >>,
                         !.draft = [pages |-> pages, overall |-> Weakest(split.results)]]

Adjudicate ==
  /\ split.at = "adjudicate" /\ Len(split.decisions) < Pages - 1
  /\ \E cut \in BOOLEAN, c \in Confidences :
       split' = [split EXCEPT !.decisions = Append(@, [cut |-> cut, confidence |-> c])]

(* _create_document_units *)
NewUnits(segments) ==   \* a unit is known by its first page: the order of the ordinals
  [f \in {s.first : s \in segments} |->
     LET s == CHOOSE s \in segments : s.first = f
     IN  [first |-> s.first, last |-> s.last, confidence |-> s.confidence,
          review |-> s.confidence < Threshold, type |-> 0]]
Segmented(segments) ==
  IF Covers(segments, Pages)
  THEN split' = [split EXCEPT !.at = "route", !.units = NewUnits(segments), !.status = "segmented"]
  ELSE Fail
Segment ==
  /\ \/ split.at = "adjudicate" /\ Len(split.decisions) = Pages - 1
        /\ Segmented(Segments(Pages, split.draft, split.decisions))
     \/ split.at = "single"
        /\ Segmented({[first |-> 1, last |-> Pages, confidence |-> Max(Confidences)]})

(* _route_document_units: which pipeline a unit is for, decided by its text. *)
RouteUnits == split.at = "route" /\ split' = [split EXCEPT !.at = "classify"]

ReviewByType(unit, c) ==   \* mutant: a sure type takes the review back
  [unit EXCEPT !.type = c, !.review = c < Threshold]
Classified(unit, c) == [unit EXCEPT !.type = c, !.review = @ \/ c < Threshold]
Unclassified == {i \in DOMAIN split.units : split.units[i].type = 0}
(* _classify_document_units, one unit after the other. *)
ClassifyUnit ==
  /\ split.at = "classify" /\ Unclassified # {}
  /\ \E c \in Confidences :
       split' = [split EXCEPT !.units[Min(Unclassified)] = Classified(@, c)]

(* _normalize_regulation_scan: the unit with the strongest anchor, any of them,
   takes the pages of all, a type of 0.95 at least and a call for review; the
   other units are deleted.                                                   *)
WholeRegulation(canonical) ==
  LET units == Range(split.units)
      first == Min({u.first : u \in units})
  IN  [f \in {first} |->
         [split.units[canonical] EXCEPT
            !.first = first, !.last = Max({u.last : u \in units}),
            !.confidence = Max({u.confidence : u \in units}),
            !.review = TRUE, !.type = Max(Confidences)]]
(* _extract_entities, then _consolidate_scan_semantics: two units or more whose
   text and types look like one condominium regulation become one unit.       *)
ExtractEntities ==
  /\ split.at = "classify" /\ Unclassified = {}
  /\ \/ split' = [split EXCEPT !.at = "finish"]
     \/ /\ Cardinality(DOMAIN split.units) >= 2
        /\ \E i \in DOMAIN split.units :
             split' = [split EXCEPT !.at = "finish", !.units = WholeRegulation(i), !.regulation = TRUE]

FinishScan ==
  /\ split.at = "finish"
  /\ split' = [split EXCEPT !.at = "end", !.status =
                IF \E i \in DOMAIN split.units : split.units[i].review
                THEN "needs_review" ELSE "classified"]

(* A call of the model that raises what is not a ValueError ends the run. *)
ModelError == split.at \in {"draft", "review", "adjudicate", "route", "classify"} /\ Fail

SegNext == \/ StartScan \/ DraftWindow \/ ReviewWindow \/ MergeWindows \/ Adjudicate
           \/ Segment \/ RouteUnits \/ ClassifyUnit \/ ExtractEntities
           \/ FinishScan \/ ModelError
SegSpec == SegInit /\ [][SegNext]_segVars

-----------------------------------------------------------------------------
(* Every page of a segmented scan is in one unit, and two adjacent pages are in
   one unit exactly when the decision on that pair says so, whatever the windows
   had drafted.  A scan put together again as a condominium regulation goes
   against its decisions: it is one unit of all pages, never without a review. *)
UnitsFollowDecisions ==
  split.units # << >> =>
    LET unitOf(p) == {i \in DOMAIN split.units : p \in split.units[i].first .. split.units[i].last}
    IN  /\ \A p \in 1 .. Pages : Cardinality(unitOf(p)) = 1
        /\ \A p \in 1 .. Pages - 1 :
             (unitOf(p) = unitOf(p + 1)) <=> (~split.decisions[p].cut \/ split.regulation)
        /\ split.regulation => split.status # "classified" /\ \E i \in unitOf(1) : split.units[i].review

(* A scan that ends without a call for review rests on nothing uncertain: every
   decision between two pages and every classification was sure.             *)
UncertainScansAreReviewed ==
  split.status = "classified" =>
    /\ \A p \in DOMAIN split.decisions : split.decisions[p].confidence >= Threshold
    /\ \A i \in DOMAIN split.units : split.units[i].type >= Threshold

(* Page artifacts: every line of the text is on one page, also when the lines do
   not divide evenly and when there are fewer lines than pages.              *)
LinesKeepTheirPage ==
  \A l \in (1 .. split.ocr.lines) \ JoinLines(split.ocr) :
    Cardinality({p \in 1 .. Pages : l \in PageLines(split.ocr)[p]}) = 1

(* "Extract text for a page segment from markdown." (pipeline.py): the text a unit
   is routed, classified and searched for entities by is the text of its pages.
   It is not: the lines are counted as if all pages had as many.              *)
UnitTextIsItsPages ==
  \A i \in DOMAIN split.units :
    UNION {PageLines(split.ocr)[p] : p \in split.units[i].first .. split.units[i].last}
      = UnitLines(split.ocr, split.units[i].first, split.units[i].last) \ JoinLines(split.ocr)
=============================================================================
