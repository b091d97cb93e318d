----------------------------- MODULE TopicReview -----------------------------
(* Topics, proposals and the review of one scan unit: what the topic
   finalization of the pipeline writes, what the review endpoints make of it,
   and what consolidation, merges and the cleanup of topics do to it meanwhile.
   Similarity of titles, entities and anchors is data: any two topics or
   proposals may be similar.  A topic is its row; its slug is what lookups by
   slug find.  One request or task is one transaction; the cleanup reads and
   deletes in two.                                                          *)
EXTENDS Integers, FiniteSets, Sequences, SequencesExt

CONSTANTS ReviewUnits,   \* document units of the scan
          Topics,        \* rows of the table of topics
          ArchiveTopics, \* those of the archive so far, where units of other scans are filed
          MaxDecisions,  \* bound: requests and tasks of one behaviour
          MaxMerges      \* bound: merges of one consolidation

ASSUME ReviewAssumption == IsFiniteSet(ReviewUnits) /\ MaxMerges \in Nat

VARIABLES kb,            \* topics, assignments, proposals and review of units
          scan,          \* status of the scan unit
          cleaning,      \* topics the cleanup is about to delete
          decisions,     \* requests and tasks so far
          chained        \* history: topics the last request took in after they had
                         \* taken in another; read by no action
reviewVars == <<kb, scan, cleaning, decisions, chained>>

\* An assignment belongs to the topic of a unit or is secondary; the finer roles
\* are data.
Roles == {"subject", "secondary"}
NoProposal == [status |-> "none", topic |-> "none"]

(* exists, active, canonical: the topics and their flags;
   filed: assignments of units to topics in a role;
   proposals: the proposal of each unit; review: status of each unit that exists;
   doubts: units with a specialist result that needs review.                 *)
ReviewInit ==
  /\ kb = [exists |-> ArchiveTopics, active |-> ArchiveTopics, canonical |-> ArchiveTopics,
           filed |-> {"archive"} \X ArchiveTopics \X Roles,
           proposals |-> [u \in ReviewUnits |-> NoProposal],
           review |-> [u \in ReviewUnits |-> "accepted"], doubts |-> {}]
  /\ scan = "processing"
  /\ cleaning = {} /\ chained = {}
  /\ decisions = 0

Live(k) == DOMAIN k.review
Assigned(k, t) == {a \in k.filed : a[2] = t}
Proposed(k, t) == {u \in ReviewUnits : k.proposals[u].topic = t}
Pending(k, u) == k.proposals[u].status = "proposed"
Curate(k, t) == [k EXCEPT !.exists = @ \cup {t}, !.active = @ \cup {t}, !.canonical = @ \cup {t}]
WithoutTopics(k, ts) == [k EXCEPT !.exists = @ \ ts, !.active = @ \ ts, !.canonical = @ \ ts,
                           !.filed = {a \in @ : a[2] \notin ts}]

\* _review_issues_for_scan_unit: the issues that keep a scan open.
OpenIssues(k) == {u \in Live(k) : k.review[u] = "needs_review" \/ Pending(k, u) \/ u \in k.doubts}
\* _refresh_scan_unit_review_status.  It spares a failed scan unit, and the
\* pipeline rolls that status back before anything reads it (tasks.py:148).
RefreshedByUnits(k) ==                    \* mutant: proposals do not count
  IF \A u \in Live(k) : k.review[u] # "needs_review" THEN "assigned" ELSE "needs_review"
Refreshed(k) == IF OpenIssues(k) = {} THEN "assigned" ELSE "needs_review"
-----------------------------------------------------------------------------
(* The pipeline: finalize_scan_topics *)

\* What the model decides for a unit: an existing topic, a tentative one (also
\* the topic of a similar proposal of this scan), or a proposal, whose slug may
\* be the slug of any topic, curated ones included.
Decision == [kind: {"assign", "tentative", "propose"}, topic: Topics]

Decided(k, u, d) ==
  LET filed == [k EXCEPT !.filed = @ \cup {<<u, d.topic, "subject">>}]
      doubtful == [k EXCEPT !.review[u] = "needs_review"]
  IN  CASE d.kind = "propose" ->
             [filed EXCEPT !.exists = @ \cup {d.topic}, !.review[u] = "needs_review",
                           !.proposals[u] = [status |-> "proposed", topic |-> d.topic]]
        [] d.topic \notin k.exists -> doubtful       \* unresolved reference
        [] d.kind = "tentative" -> [filed EXCEPT !.review[u] = "needs_review"]
        [] OTHER -> filed

\* _reset_topic_outputs; the review status of the units stays.
ResetOutputs(k) == [k EXCEPT !.filed = {a \in @ : a[1] \notin Live(k)},
                             !.proposals = [u \in ReviewUnits |-> NoProposal]]

\* _consolidate_scan_topics and _consolidate_financial_topics: the proposal of a
\* unit similar to an earlier one is deleted, its assignments move to the topic
\* of that one, and a topic nothing refers to any more is deleted.
Grouped(k, u, c) ==
  IF c = u \/ k.proposals[u] = NoProposal \/ k.proposals[c] = NoProposal THEN k
  ELSE LET old == k.proposals[u].topic
           new == k.proposals[c].topic
           moved == [k EXCEPT !.proposals[u] = NoProposal,
                       !.filed = {IF a[1] = u /\ a[2] = old THEN <<u, new, a[3]>> ELSE a : a \in @}]
       IN  IF Assigned(moved, old) = {} /\ Proposed(moved, old) = {}
           THEN WithoutTopics(moved, {old}) ELSE moved

\* _normalize_regulation_scan: one unit c stands for all, the others are deleted.
Regulation(k, c) ==
  [k EXCEPT !.review = [u \in {c} |-> "needs_review"], !.doubts = @ \cap {c},
            !.filed = {a \in @ : a[1] = c},
            !.proposals = [u \in ReviewUnits |-> IF u = c THEN @[u] ELSE NoProposal]]

\* What is decided for the units is decided one after the other, then their
\* proposals are consolidated one after the other.
DecidedAll(k, order, plan) ==
  LET after[i \in 0 .. Len(order)] ==
        IF i = 0 THEN k ELSE Decided(after[i - 1], order[i], plan[order[i]])
  IN  after[Len(order)]
GroupedAll(k, order, like) ==
  LET after[i \in 0 .. Len(order)] ==
        IF i = 0 THEN k ELSE Grouped(after[i - 1], order[i], like[order[i]])
  IN  after[Len(order)]

\* What the model, the similarity of titles and the kind of scan make of it.
AfterFinalization(k) ==
  LET order == SetToSeq(Live(k))
      decided == {DecidedAll(ResetOutputs(k), order, plan) : plan \in [Live(k) -> Decision]}
      earlier == {like \in [Live(k) -> Live(k)] : \A u \in Live(k) : like[like[u]] = like[u]}
      grouped == {GroupedAll(j, order, like) : j \in decided, like \in earlier}
  IN  grouped \cup {Regulation(j, c) : j \in grouped, c \in Live(k)}

Finalize ==
  /\ Live(kb) # {}
  /\ \E k \in AfterFinalization(kb) :
       /\ kb' = k
       /\ scan' = IF \E u \in Live(k) : k.review[u] = "needs_review"
                  THEN "needs_review" ELSE "assigned"

\* The store of a specialist result, before or after the finalization.
SpecialistStores(u) ==
  /\ u \in Live(kb)
  /\ \E doubt \in BOOLEAN :
       kb' = [kb EXCEPT !.doubts = IF doubt THEN @ \cup {u} ELSE @ \ {u}]
  /\ UNCHANGED scan
-----------------------------------------------------------------------------
(* Review endpoints *)

\* approve_topic_proposal.  The scan is refreshed before the proposal changes.
\* merge_into_existing moves the provisional assignments of the unit to the
\* topic, the others add one.  A second assignment of one role is refused by
\* the unique key.
Approve(u) == \E t \in Topics, r \in Roles, merge \in BOOLEAN :
  LET p == kb.proposals[u]
      curated == Curate(kb, t)
      provisional == {a \in kb.filed : a[1] = u /\ a[2] = p.topic}
      filed == [curated EXCEPT
                  !.filed = (IF merge THEN @ \ provisional ELSE @) \cup {<<u, t, r>>},
                  !.review[u] = "human_reviewed"]
  IN  /\ u \in Live(kb) /\ Pending(kb, u)
      /\ merge => t \in kb.exists
      /\ ~(merge /\ provisional # {} /\ <<u, t, r>> \in kb.filed \ provisional)
      /\ scan' = Refreshed(filed)
      /\ kb' = [filed EXCEPT !.proposals[u] = [status |-> "approved", topic |-> t]]

\* reject_topic_proposal: the provisional topic goes when nothing needs it.
Reject(u) ==
  LET t == kb.proposals[u].topic
      unfiled == [kb EXCEPT !.filed = {a \in @ : a[1] # u \/ a[2] # t},
                            !.review[u] = "human_reviewed"]
      rejected == [unfiled EXCEPT !.proposals[u].status = "rejected"]
      needed == \/ t \in kb.active \cup kb.canonical
                \/ Assigned(rejected, t) # {}
                \/ \E v \in Proposed(rejected, t) : Pending(rejected, v)
  IN  /\ u \in Live(kb) /\ Pending(kb, u)
      /\ scan' = Refreshed(unfiled)
      /\ kb' = IF needed THEN rejected
               ELSE [WithoutTopics(rejected, {t}) EXCEPT !.proposals =
                       [v \in ReviewUnits |-> IF @[v].topic = t THEN NoProposal ELSE @[v]]]

\* review_document_unit sets any status; mark_document_unit_reviewed and
\* mark_scan_unit_reviewed refuse while a proposal is pending.
ReviewUnit(u) == \E s \in {"accepted", "needs_review", "human_reviewed"} :
  /\ u \in Live(kb)
  /\ kb' = [kb EXCEPT !.review[u] = s]
  /\ scan' = Refreshed(kb')

MarkScanReviewed ==
  /\ \A u \in Live(kb) : ~Pending(kb, u)
  /\ kb' = [kb EXCEPT !.review = [u \in Live(kb) |->
              IF @[u] = "needs_review" THEN "human_reviewed" ELSE @[u]]]
  /\ scan' = Refreshed(kb')

MarkUnitReviewed(u) ==
  /\ u \in Live(kb) /\ ~Pending(kb, u)
  /\ kb' = [kb EXCEPT !.review[u] = "human_reviewed"]
  /\ scan' = Refreshed(kb')

\* These three do not refresh the scan.
AddAssignment(u) == \E t \in Topics, r \in Roles, create \in BOOLEAN :
  /\ u \in Live(kb)
  /\ create \/ t \in kb.exists
  /\ kb' = [(IF create THEN Curate(kb, t) ELSE kb) EXCEPT
              !.filed = @ \cup {<<u, t, r>>}, !.review[u] = "human_reviewed"]
  /\ UNCHANGED scan

DeleteAssignment(u) == \E a \in kb.filed :
  /\ u \in Live(kb) /\ a[1] = u
  /\ kb' = [kb EXCEPT !.filed = @ \ {a}, !.review[u] = "human_reviewed"]
  /\ UNCHANGED scan

DeleteUnit(u) ==
  /\ u \in Live(kb)
  /\ kb' = [kb EXCEPT !.review = [v \in Live(kb) \ {u} |-> @[v]],
                      !.filed = {a \in @ : a[1] # u}, !.doubts = @ \ {u},
                      !.proposals[u] = NoProposal]
  /\ UNCHANGED scan

CreateTopic == \E t \in Topics : kb' = Curate(kb, t) /\ UNCHANGED scan
-----------------------------------------------------------------------------
(* Consolidation, merges and cleanup *)

(* One request merges in memory, over the topics as they were loaded: nothing is
   flushed before the end, so a row a merge deletes stays in the list of its topic,
   where later merges find it, and the proposals of a topic stay the loaded ones.
   kb: what the end will store; gone: the rows deleted that are still listed;
   moved: those of them a later merge listed under another topic;
   joined: the pairs merged, the topic kept first; chained: see above.        *)
Unmerged(k) == [kb |-> k, gone |-> {}, moved |-> {}, joined |-> {}, chained |-> {}]
ListedUnder(m, t) == Assigned(m.kb, t) \cup {a \in m.gone : a[2] = t}
Under(a, t) == <<a[1], t, a[3]>>

\* _topic_weight: assignments, then proposals, then confidence, which is data.
Outweighs(m, loaded, d, c) ==
  LET n(t) == Cardinality(ListedUnder(m, t))
      p(t) == Cardinality(Proposed(loaded, t))
  IN  n(d) > n(c) \/ (n(d) = n(c) /\ p(d) > p(c))

ForgetProposals(k, loaded, c, d) == k.proposals    \* mutant: proposals stay behind
MovedProposals(k, loaded, c, d) ==
  [u \in ReviewUnits |-> IF loaded.proposals[u].topic = d
                         THEN [k.proposals[u] EXCEPT !.topic = c] ELSE k.proposals[u]]

\* The rows of d for which c lists one of the unit and the role, deleted or not.
Doubled(m, c, d) == {a \in ListedUnder(m, d) : Under(a, c) \in ListedUnder(m, c)}
Retargeted(rows, c, d) == {IF a[2] = d THEN Under(a, c) ELSE a : a \in rows}
DropAssignments(m, c, d) == {a \in m.kb.filed : a[2] # d}    \* mutant: none moves
MovedAssignments(m, c, d) == Retargeted(m.kb.filed \ Doubled(m, c, d), c, d)

\* _merge_topic_into, of the topic kept and the other.
MergeInto(m, loaded, c, d) ==
  [kb |-> [m.kb EXCEPT !.active = (@ \cup {c}) \ {d}, !.canonical = (@ \cup {c}) \ {d},
                       !.filed = MovedAssignments(m, c, d),
                       !.proposals = MovedProposals(m.kb, loaded, c, d)],
   gone |-> Retargeted(m.gone \ Doubled(m, c, d), c, d) \cup Doubled(m, c, d),
   moved |-> Retargeted((m.moved \cup {a \in m.gone : a[2] = d}) \ Doubled(m, c, d), c, d)
               \cup (m.moved \cap Doubled(m, c, d)),
   joined |-> m.joined \cup {<<c, d>>},
   chained |-> m.chained \cup ({d} \cap {p[1] : p \in m.joined})]

\* The heavier topic is kept, whichever it was asked to be.
Pairs(ts) == {p \in ts \X ts : p[1] # p[2]}
Mergeable(m, loaded, ts) == {p \in Pairs(ts) : ~Outweighs(m, loaded, p[2], p[1])}

\* The merges of one consolidation: a topic that is similar to one kept before, or
\* to the heaviest of its group, is merged with that one.  Two topics out of use
\* are not merged; one that was merged may be the one kept before.
OneMore(m, loaded, pool) ==
  {MergeInto(m, loaded, p[1], p[2]) :
     p \in {q \in Mergeable(m, loaded, pool) : {q[1], q[2]} \cap m.kb.active # {}}}
Merges(start, loaded, pool) ==
  LET after[n \in 0 .. MaxMerges] ==
        IF n = 0 THEN {start}
        ELSE after[n - 1] \cup UNION {OneMore(m, loaded, pool) : m \in after[n - 1]}
  IN  after[MaxMerges]

\* What no merge takes in becomes active and canonical; a merge sets the flags of
\* its two topics again.
Kept(k, pool) == [k EXCEPT !.active = @ \cup pool, !.canonical = @ \cup pool]

\* Units of accounting documents get the family topic of their condominium, found
\* or made, and leave the families of meetings, a class no other is merged with.
\* A row is not made when one is listed, deleted or not.
AccountingFamily(m, us, t, meetings) == [Curate(m.kb, t) EXCEPT
  !.filed = {a \in @ : ~(a[1] \in us /\ a[2] \in meetings)}
              \cup ({<<u, t, "subject">> : u \in us} \ m.gone)]

\* The minutes among the units of a meeting topic are filed under its family.
MeetingFamily(m, t, us) ==
  [m.kb EXCEPT !.filed = @ \cup ({<<u, t, "subject">> : u \in us} \ m.gone)]

\* _finalize_matched_proposals: every proposal has a topic, so every pending one.
Settled(k) == [k EXCEPT !.proposals = [u \in ReviewUnits |->
  IF Pending(k, u) THEN [@[u] EXCEPT !.status = "merged"] ELSE @[u]]]

\* After the merges: no family, one of meetings, or one of accounts.
Filings(m) ==
  {m.kb}
  \cup {MeetingFamily(m, t, us) : t \in m.kb.active, us \in SUBSET {a[1] : a \in m.kb.filed}}
  \cup UNION {{AccountingFamily(m, us, t, meetings) : us \in SUBSET Live(m.kb) \ {{}}, t \in Topics \ meetings} :
                meetings \in {ts \in SUBSET Topics : \A p \in m.joined : p[1] \in ts <=> p[2] \in ts}}

\* The end of the request: a deleted row listed anew elsewhere is stored or not, as
\* the mapper's flush decides.
Stored(k, back) == Settled([k EXCEPT !.filed = @ \cup back])
Outcomes(m) == {[kb |-> Stored(k, back), chained |-> m.chained] :
                  k \in Filings(m), back \in SUBSET m.moved}

\* consolidate_topics, of the active topics, or of all when none is active.
Consolidate ==
  LET pool == IF kb.active # {} THEN kb.active ELSE kb.exists
  IN  \E o \in UNION {Outcomes(m) : m \in Merges(Unmerged(Kept(kb, pool)), kb, pool)} :
        /\ kb' = o.kb /\ chained' = o.chained
        /\ UNCHANGED scan

\* merge_topic takes an active source; review_graph_suggestion merges any two
\* topics, or makes the assignments of the source secondary.
MergeTopic == \E p \in Mergeable(Unmerged(kb), kb, kb.exists) :
  /\ kb' = MergeInto(Unmerged(kb), kb, p[1], p[2]).kb
  /\ UNCHANGED scan

\* suggest_graph_merges: any two active topics; the scores are data.
Suggested(k) == Pairs(k.active)
MakeSecondary == \E p \in Suggested(kb) :
  /\ Assigned(kb, p[1]) # {} /\ Assigned(kb, p[2]) # {}
  /\ \A u \in ReviewUnits : Cardinality({a \in Assigned(kb, p[2]) : a[1] = u}) <= 1
  /\ kb' = [kb EXCEPT !.filed = {IF a[2] = p[2] THEN <<a[1], a[2], "secondary">> ELSE a : a \in @}]
  /\ UNCHANGED scan

\* _inactive_topic_cleanup_items.
Deletable(k) == {t \in k.exists : /\ t \notin k.active \cup k.canonical
                                  /\ Assigned(k, t) = {}
                                  /\ \A u \in Proposed(k, t) : ~Pending(k, u)}

\* delete_deletable_inactive_topics: what it counted is deleted by identifier,
\* assignments made meanwhile included; one topic a proposal still refers to
\* fails the whole statement.
CleanupReads ==
  /\ cleaning = {}
  /\ cleaning' = Deletable(kb)
  /\ UNCHANGED <<kb, scan>>

CleanupDeletes ==
  /\ cleaning # {}
  /\ kb' = IF \E t \in cleaning : Proposed(kb, t) # {} THEN kb ELSE WithoutTopics(kb, cleaning)
  /\ cleaning' = {}
  /\ UNCHANGED scan

Decide ==
  \/ Finalize \/ MarkScanReviewed \/ CreateTopic \/ MergeTopic \/ MakeSecondary
  \/ \E u \in ReviewUnits :
       \/ SpecialistStores(u) \/ Approve(u) \/ Reject(u) \/ ReviewUnit(u) \/ MarkUnitReviewed(u)
       \/ AddAssignment(u) \/ DeleteAssignment(u) \/ DeleteUnit(u)

ReviewNext ==
  /\ decisions < MaxDecisions
  /\ decisions' = decisions + 1
  /\ \/ Decide /\ UNCHANGED cleaning /\ chained' = {}
     \/ Consolidate /\ UNCHANGED cleaning
     \/ CleanupReads /\ chained' = {}
     \/ CleanupDeletes /\ chained' = {}

ReviewSpec == ReviewInit /\ [][ReviewNext]_reviewVars
-----------------------------------------------------------------------------
(* Properties *)

\* A scan shown as assigned has no pending proposal and no unit to be reviewed,
\* although some handlers refresh its status and others do not
\* (knowledge.py:518).  Results specialists store later are not covered: nothing
\* refreshes the scan then.
AssignedScanIsReviewed ==
  scan = "assigned" => \A u \in Live(kb) : kb.review[u] # "needs_review" /\ ~Pending(kb, u)

\* The topic a reviewer approved is in use from then on, or the proposal follows it
\* to the topic it was merged into (consolidation.py:795, knowledge.py:5502).  It
\* is left behind in one case: a consolidation that moves it to a topic and then
\* merges that topic into a third (a list of proposals is loaded once).
Approved(k, u) == u \in Live(k) /\ k.proposals[u].status = "approved"
ApprovedTopicIsActive ==
  [][\A u \in ReviewUnits :
       Approved(kb', u) /\ (Approved(kb, u) => kb.proposals[u].topic \in kb.active)
         => kb'.proposals[u].topic \in kb'.active \cup chained']_reviewVars

\* A topic that a merge takes out of use hands its units over: every unit filed
\* under it is filed under an active topic afterwards (consolidation.py:771),
\* unless the request merged a topic that had taken in another before: a unit may
\* then be deleted as the double of an assignment that is deleted itself.
MergedTopicHandsOver ==
  [][chained' = {} =>
       \A t \in kb.active : t \in kb'.exists \ kb'.active =>
         \A a \in Assigned(kb, t) : \E b \in kb'.filed : b[1] = a[1] /\ b[2] \in kb'.active]_reviewVars
=============================================================================
