---------------------------- MODULE ReviewProofs ----------------------------
(***************************************************************************)
(* The review of topics, the projections of entities, and what the search  *)
(* cuts and ranks.                                                         *)
(*                                                                         *)
(* For every finite set of units and every number of topics: a scan shown  *)
(* as assigned has nothing left to review (ReviewInv), the topic a         *)
(* reviewer approved stays in use, and a merge hands its units over.  Two  *)
(* steps are hard.  The finalization decides and groups the units one      *)
(* after the other, so what it leaves behind is shown for every prefix of  *)
(* the order.  A consolidation merges over lists loaded once, and MergeInv *)
(* says what holds after any number of merges.                             *)
(*                                                                         *)
(* For all finite sets of spellings: the contexts and the graph follow the *)
(* entities, by ProjInv.  Here too the groups and the graph are built one  *)
(* entity and one unit after the other.                                    *)
(*                                                                         *)
(* For every length of a text and of a chunk: the chunks of a page cover   *)
(* it and overlap, by ChunksOf, which every round of the cut keeps.        *)
(*                                                                         *)
(* For every two rankings, limit and cap per document: no better candidate *)
(* is left out of the fused results, by ChosenFrom, which says of the      *)
(* first k candidates in order what the loop says of all.  That the scores *)
(* put them in an order is a fact of its own (FoundIsOrdered).             *)
(***************************************************************************)
EXTENDS TopicReview, SemanticProjection, Retrieval, DataLemmas

\* The rows are records of the fields the handlers read, and the units that live
\* are the units with a review status.
ProposalShape(p) == p \in [status : {p.status}, topic : {p.topic}]
KbShape(k) ==
  /\ k \in [exists : {k.exists}, active : {k.active}, canonical : {k.canonical}, filed : {k.filed},
            proposals : {k.proposals}, review : {k.review}, doubts : {k.doubts}]
  /\ Live(k) \subseteq ReviewUnits
  /\ k.review \in [Live(k) -> {k.review[u] : u \in Live(k)}]
  /\ k.proposals \in [ReviewUnits -> {k.proposals[u] : u \in ReviewUnits}]
  /\ \A u \in ReviewUnits : ProposalShape(k.proposals[u])

\* What the refresh of the scan promises of the units.
NothingOpen(k) == \A u \in Live(k) : k.review[u] # "needs_review" /\ ~Pending(k, u)
\* What every request promises of approved proposals, from k to j: the topic is in
\* use afterwards, or among the ones left behind.
StayInUse(k, j, left) ==
  \A u \in ReviewUnits :
    Approved(j, u) /\ (Approved(k, u) => k.proposals[u].topic \in k.active)
      => j.proposals[u].topic \in j.active \cup left
\* From k to j, a topic that only lost its flag has handed over what it had.
HandsOver(k, j) ==
  \A t \in k.active : t \in j.exists \ j.active =>
    \A a \in Assigned(k, t) : \E b \in j.filed : b[1] = a[1] /\ b[2] \in j.active

\* The inductive invariant.
ReviewInv ==
  /\ KbShape(kb)
  /\ scan = "assigned" => NothingOpen(kb)

\* What the finalization does before anyone reviews it.
Undecided(k) ==
  \A u \in ReviewUnits : /\ k.proposals[u].status # "approved"
                         /\ u \in Live(k) /\ Pending(k, u) => k.review[u] = "needs_review"

-----------------------------------------------------------------------------
\* One unit decided: the rows keep their shape, nothing is approved, and a unit
\* with a proposal is to be reviewed.
LEMMA DecidedStep ==
  ASSUME NEW k, KbShape(k), Undecided(k), NEW u \in Live(k), NEW d \in Decision
  PROVE  LET r == Decided(k, u, d)
         IN  KbShape(r) /\ Undecided(r) /\ Live(r) = Live(k) /\ r.active = k.active
  <1> DEFINE filed == [k EXCEPT !.filed = @ \cup {<<u, d.topic, "subject">>}]
             doubtful == [k EXCEPT !.review[u] = "needs_review"]
             tentative == [filed EXCEPT !.review[u] = "needs_review"]
             proposal == [status |-> "proposed", topic |-> d.topic]
             proposed == [filed EXCEPT !.exists = @ \cup {d.topic}, !.review[u] = "needs_review",
                                       !.proposals[u] = proposal]
             r == Decided(k, u, d)
  <1>1. r = proposed \/ r = doubtful \/ r = tentative \/ r = filed
    BY DEF Decided
  <1>2. /\ u \in ReviewUnits /\ u \in DOMAIN k.review
        /\ k.review \in [Live(k) -> {k.review[v] : v \in Live(k)}]
        /\ k.proposals \in [ReviewUnits -> {k.proposals[v] : v \in ReviewUnits}]
        /\ \A v \in ReviewUnits : ProposalShape(k.proposals[v])
        /\ k \in [exists : {k.exists}, active : {k.active}, canonical : {k.canonical}, filed : {k.filed},
            proposals : {k.proposals}, review : {k.review}, doubts : {k.doubts}]
    BY DEF KbShape, Live
  <1> DEFINE FieldShape(j) ==
        j \in [exists : {j.exists}, active : {j.active}, canonical : {j.canonical}, filed : {j.filed},
               proposals : {j.proposals}, review : {j.review}, doubts : {j.doubts}]
  <1>3. /\ FieldShape(filed) /\ filed.active = k.active
        /\ filed.review = k.review /\ filed.proposals = k.proposals /\ filed.exists = k.exists
    BY <1>2
  <1>4. /\ FieldShape(doubtful) /\ doubtful.active = k.active
        /\ doubtful.review = [k.review EXCEPT ![u] = "needs_review"] /\ doubtful.proposals = k.proposals
    BY <1>2
  <1> HIDE DEF filed, doubtful
  <1>5. /\ FieldShape(tentative) /\ tentative.active = k.active
        /\ tentative.review = [k.review EXCEPT ![u] = "needs_review"] /\ tentative.proposals = k.proposals
    BY <1>3
  <1>6. /\ FieldShape(proposed) /\ proposed.active = k.active
        /\ proposed.review = [k.review EXCEPT ![u] = "needs_review"]
        /\ proposed.proposals = [k.proposals EXCEPT ![u] = proposal]
    BY <1>3
  <1> HIDE DEF tentative, proposed
  <1>7. ProposalShape(proposal) /\ proposal.status = "proposed"
    BY DEF ProposalShape
  <1> HIDE DEF proposal
  <1>8. /\ FieldShape(r) /\ r.active = k.active
        /\ \/ r.review = k.review /\ r.proposals = k.proposals
           \/ r.review = [k.review EXCEPT ![u] = "needs_review"]
              /\ (r.proposals = k.proposals \/ r.proposals = [k.proposals EXCEPT ![u] = proposal])
    BY <1>1, <1>3, <1>4, <1>5, <1>6
  <1> HIDE DEF r
  <1>9. /\ Live(r) = Live(k)
        /\ r.review \in [Live(r) -> {r.review[v] : v \in Live(r)}]
        /\ \A v \in Live(k) : r.review[v] = k.review[v] \/ r.review[v] = "needs_review"
    BY <1>2, <1>8 DEF Live
  <1>10. /\ r.proposals \in [ReviewUnits -> {r.proposals[v] : v \in ReviewUnits}]
         /\ \A v \in ReviewUnits : \/ r.proposals[v] = k.proposals[v]
                                   \/ v = u /\ r.proposals[v] = proposal /\ r.review[v] = "needs_review"
    BY <1>2, <1>8
  <1>11. KbShape(r)
    BY <1>2, <1>7, <1>8, <1>9, <1>10 DEF KbShape
  <1>12. Undecided(r)
    <2> SUFFICES ASSUME NEW v \in ReviewUnits
                 PROVE  /\ r.proposals[v].status # "approved"
                        /\ v \in Live(k) /\ Pending(r, v) => r.review[v] = "needs_review"
      BY <1>9 DEF Undecided
    <2>1. CASE r.proposals[v] = k.proposals[v]
      BY <2>1, <1>9 DEF Undecided, Pending
    <2>2. CASE v = u /\ r.proposals[v] = proposal /\ r.review[v] = "needs_review"
      BY <2>2, <1>7
    <2> QED BY <2>1, <2>2, <1>10
  <1> QED BY <1>8, <1>9, <1>11, <1>12 DEF r

\* What deleting topics leaves alone.
LEMMA WithoutTopicsFields ==
  ASSUME NEW k, KbShape(k), NEW ts
  PROVE  LET r == WithoutTopics(k, ts)
         IN  /\ KbShape(r) /\ r.exists = k.exists \ ts /\ r.active = k.active \ ts
             /\ r.review = k.review /\ r.proposals = k.proposals /\ Live(r) = Live(k)
             /\ r.filed = {a \in k.filed : a[2] \notin ts}
  BY DEF WithoutTopics, KbShape, Live

\* One proposal consolidated: the same.
LEMMA GroupedStep ==
  ASSUME NEW k, KbShape(k), Undecided(k), NEW u \in Live(k), NEW c \in Live(k), NEW A,
         A \cap k.exists \subseteq k.active
  PROVE  LET r == Grouped(k, u, c)
         IN  KbShape(r) /\ Undecided(r) /\ Live(r) = Live(k) /\ A \cap r.exists \subseteq r.active
  <1> DEFINE old == k.proposals[u].topic
             new == k.proposals[c].topic
             moved == [k EXCEPT !.proposals[u] = NoProposal,
                       !.filed = {IF a[1] = u /\ a[2] = old THEN <<u, new, a[3]>> ELSE a : a \in @}]
             r == Grouped(k, u, c)
  <1>1. r = k \/ r = moved \/ r = WithoutTopics(moved, {old})
    BY DEF Grouped
  <1>2. /\ KbShape(moved) /\ Live(moved) = Live(k) /\ moved.active = k.active /\ moved.exists = k.exists
        /\ moved.review = k.review /\ moved.proposals = [k.proposals EXCEPT ![u] = NoProposal]
    <2>1. u \in ReviewUnits
      BY DEF KbShape
    <2>2. ProposalShape(NoProposal)
      BY DEF ProposalShape, NoProposal
    <2>3. /\ moved.active = k.active /\ moved.exists = k.exists
          /\ moved.review = k.review /\ moved.proposals = [k.proposals EXCEPT ![u] = NoProposal]
          /\ moved \in [exists : {moved.exists}, active : {moved.active}, canonical : {moved.canonical},
               filed : {moved.filed}, proposals : {moved.proposals}, review : {moved.review},
               doubts : {moved.doubts}]
      BY DEF KbShape
    <2> HIDE DEF moved
    <2> QED BY <2>1, <2>2, <2>3 DEF KbShape, Live
  <1> HIDE DEF moved, old
  <1>3. Undecided(moved)
    BY <1>2 DEF Undecided, Pending, NoProposal, KbShape
  <1> DEFINE gone == WithoutTopics(moved, {old})
  <1>4. /\ KbShape(gone) /\ Live(gone) = Live(k)
        /\ gone.exists = k.exists \ {old} /\ gone.active = k.active \ {old}
        /\ gone.review = moved.review /\ gone.proposals = moved.proposals
    BY <1>2, WithoutTopicsFields
  <1> HIDE DEF gone
  <1>5. Undecided(gone)
    BY <1>2, <1>3, <1>4 DEF Undecided, Pending
  <1> HIDE DEF r
  <1>6. r = k \/ r = moved \/ r = gone
    BY <1>1 DEF gone
  <1>7. KbShape(r) /\ Undecided(r) /\ Live(r) = Live(k) /\ A \cap r.exists \subseteq r.active
    BY <1>2, <1>3, <1>4, <1>5, <1>6
  <1> QED BY <1>7 DEF r

\* The recursions over the units have a value at every unit.
LEMMA DecidedOneByOne ==
  ASSUME NEW k, NEW order, NEW plan, Len(order) \in Nat
  PROVE  \E after : /\ after[0] = k
                    /\ \A i \in 1 .. Len(order) : after[i] = Decided(after[i - 1], order[i], plan[order[i]])
                    /\ DecidedAll(k, order, plan) = after[Len(order)]
  <1> DEFINE n == Len(order)
             next(j, i) == Decided(j, order[i], plan[order[i]])
             Rec(f, m) == f = [i \in 0 .. m |-> IF i = 0 THEN k ELSE next(f[i - 1], i)]
             Bad == {m \in 0 .. n : ~ \E f : Rec(f, m)}
             after == CHOOSE f : Rec(f, n)
  <1>1. DecidedAll(k, order, plan) = after[n]
    BY DEF DecidedAll
  <1> HIDE DEF next
  <1>2. Bad = {}
    <2> SUFFICES ASSUME Bad # {} PROVE FALSE
      OBVIOUS
    <2>1. Bad \in SUBSET Nat
      OBVIOUS
    <2> PICK m \in Bad : \A x \in Bad : m <= x
      <3> HIDE DEF Bad
      <3> QED BY <2>1, LeastExists
    <2>2. m \in 0 .. n /\ ~ \E f : Rec(f, m)
      OBVIOUS
    <2>3. CASE m = 0
      <3> DEFINE f == [i \in 0 .. 0 |-> k]
      <3>1. Rec(f, 0)
        OBVIOUS
      <3> HIDE DEF f, Rec
      <3>2. \E h : Rec(h, m)
        BY <3>1, <2>3
      <3> QED BY <3>2, <2>2
    <2>4. CASE m # 0
      <3>a. m - 1 \in 0 .. n /\ ~(m <= m - 1)
        BY <2>2, <2>4
      <3>1. m - 1 \in 0 .. n /\ m - 1 \notin Bad
        <4> HIDE DEF Bad
        <4> QED BY <3>a
      <3> PICK f : Rec(f, m - 1)
        BY <3>1
      <3> DEFINE g == [i \in 0 .. m |-> IF i = m THEN next(f[m - 1], m) ELSE f[i]]
      <3>2. ASSUME NEW i \in 0 .. m PROVE g[i] = IF i = 0 THEN k ELSE next(g[i - 1], i)
        <4>1. CASE i = m
          BY <4>1, <2>2, <2>4
        <4>2. CASE i = 0
          BY <4>2, <2>2, <2>4
        <4>3. CASE i # 0 /\ i # m
          <5>1. i \in 0 .. m - 1 /\ i - 1 \in 0 .. m /\ i - 1 # m
            BY <4>3, <2>2
          <5>2. f[i] = next(f[i - 1], i)
            BY <5>1, <4>3
          <5> QED BY <5>1, <5>2, <4>3
        <4> QED BY <4>1, <4>2, <4>3
      <3>3. Rec(g, m)
        BY <3>2
      <3> QED BY <3>3, <2>2
    <2> QED BY <2>3, <2>4
  <1>3. Rec(after, n)
    <2>1. n \in 0 .. n
      OBVIOUS
    <2>2. \E f : Rec(f, n)
      BY <1>2, <2>1
    <2> HIDE DEF Rec
    <2> QED BY <2>2
  <1>4. after[0] = k /\ \A i \in 1 .. n : after[i] = next(after[i - 1], i)
    <2> HIDE DEF after
    <2> QED BY <1>3
  <1> HIDE DEF after
  <1>5. after[0] = k /\ \A i \in 1 .. n : after[i] = Decided(after[i - 1], order[i], plan[order[i]])
    BY <1>4 DEF next
  <1> QED BY <1>1, <1>5

LEMMA GroupedOneByOne ==
  ASSUME NEW k, NEW order, NEW like, Len(order) \in Nat
  PROVE  \E after : /\ after[0] = k
                    /\ \A i \in 1 .. Len(order) : after[i] = Grouped(after[i - 1], order[i], like[order[i]])
                    /\ GroupedAll(k, order, like) = after[Len(order)]
  <1> DEFINE n == Len(order)
             next(j, i) == Grouped(j, order[i], like[order[i]])
             Rec(f, m) == f = [i \in 0 .. m |-> IF i = 0 THEN k ELSE next(f[i - 1], i)]
             Bad == {m \in 0 .. n : ~ \E f : Rec(f, m)}
             after == CHOOSE f : Rec(f, n)
  <1>1. GroupedAll(k, order, like) = after[n]
    BY DEF GroupedAll
  <1> HIDE DEF next
  <1>2. Bad = {}
    <2> SUFFICES ASSUME Bad # {} PROVE FALSE
      OBVIOUS
    <2>1. Bad \in SUBSET Nat
      OBVIOUS
    <2> PICK m \in Bad : \A x \in Bad : m <= x
      <3> HIDE DEF Bad
      <3> QED BY <2>1, LeastExists
    <2>2. m \in 0 .. n /\ ~ \E f : Rec(f, m)
      OBVIOUS
    <2>3. CASE m = 0
      <3> DEFINE f == [i \in 0 .. 0 |-> k]
      <3>1. Rec(f, 0)
        OBVIOUS
      <3> HIDE DEF f, Rec
      <3>2. \E h : Rec(h, m)
        BY <3>1, <2>3
      <3> QED BY <3>2, <2>2
    <2>4. CASE m # 0
      <3>a. m - 1 \in 0 .. n /\ ~(m <= m - 1)
        BY <2>2, <2>4
      <3>1. m - 1 \in 0 .. n /\ m - 1 \notin Bad
        <4> HIDE DEF Bad
        <4> QED BY <3>a
      <3> PICK f : Rec(f, m - 1)
        BY <3>1
      <3> DEFINE g == [i \in 0 .. m |-> IF i = m THEN next(f[m - 1], m) ELSE f[i]]
      <3>2. ASSUME NEW i \in 0 .. m PROVE g[i] = IF i = 0 THEN k ELSE next(g[i - 1], i)
        <4>1. CASE i = m
          BY <4>1, <2>2, <2>4
        <4>2. CASE i = 0
          BY <4>2, <2>2, <2>4
        <4>3. CASE i # 0 /\ i # m
          <5>1. i \in 0 .. m - 1 /\ i - 1 \in 0 .. m /\ i - 1 # m
            BY <4>3, <2>2
          <5>2. f[i] = next(f[i - 1], i)
            BY <5>1, <4>3
          <5> QED BY <5>1, <5>2, <4>3
        <4> QED BY <4>1, <4>2, <4>3
      <3>3. Rec(g, m)
        BY <3>2
      <3> QED BY <3>3, <2>2
    <2> QED BY <2>3, <2>4
  <1>3. Rec(after, n)
    <2>1. n \in 0 .. n
      OBVIOUS
    <2>2. \E f : Rec(f, n)
      BY <1>2, <2>1
    <2> HIDE DEF Rec
    <2> QED BY <2>2
  <1>4. after[0] = k /\ \A i \in 1 .. n : after[i] = next(after[i - 1], i)
    <2> HIDE DEF after
    <2> QED BY <1>3
  <1> HIDE DEF after
  <1>5. after[0] = k /\ \A i \in 1 .. n : after[i] = Grouped(after[i - 1], order[i], like[order[i]])
    BY <1>4 DEF next
  <1> QED BY <1>1, <1>5

\* So what one unit keeps, all of them keep: the first prefix that fails has none.
LEMMA DecidedKeeps ==
  ASSUME NEW k, KbShape(k), Undecided(k), NEW order, Len(order) \in Nat,
         NEW plan, \A i \in 1 .. Len(order) : order[i] \in Live(k) /\ plan[order[i]] \in Decision
  PROVE  LET r == DecidedAll(k, order, plan)
         IN  KbShape(r) /\ Undecided(r) /\ Live(r) = Live(k) /\ r.active = k.active
  <1> PICK after : /\ after[0] = k
                   /\ \A i \in 1 .. Len(order) : after[i] = Decided(after[i - 1], order[i], plan[order[i]])
                   /\ DecidedAll(k, order, plan) = after[Len(order)]
    BY DecidedOneByOne
  <1> DEFINE Good(r) == KbShape(r) /\ Undecided(r) /\ Live(r) = Live(k) /\ r.active = k.active
             Bad == {i \in 0 .. Len(order) : ~Good(after[i])}
  <1>1. Bad = {}
    <2> SUFFICES ASSUME Bad # {} PROVE FALSE
      OBVIOUS
    <2>1. Bad \in SUBSET Nat
      OBVIOUS
    <2> PICK m \in Bad : \A x \in Bad : m <= x
      <3> HIDE DEF Bad
      <3> QED BY <2>1, LeastExists
    <2> HIDE DEF Good
    <2>2. m # 0
      BY DEF Good
    <2>3. m \in 1 .. Len(order) /\ m - 1 \in 0 .. Len(order) /\ m - 1 \notin Bad
      BY <2>2
    <2>4. Good(after[m - 1])
      BY <2>3
    <2>5. after[m] = Decided(after[m - 1], order[m], plan[order[m]])
      BY <2>3
    <2>6. order[m] \in Live(after[m - 1]) /\ plan[order[m]] \in Decision
      BY <2>3, <2>4 DEF Good
    <2>7. Good(after[m])
      BY <2>4, <2>5, <2>6, DecidedStep DEF Good
    <2> QED BY <2>7
  <1>2. Len(order) \in 0 .. Len(order)
    OBVIOUS
  <1>3. Good(after[Len(order)])
    <2> HIDE DEF Good
    <2> QED BY <1>1, <1>2
  <1> QED BY <1>3

LEMMA GroupedKeeps ==
  ASSUME NEW k, KbShape(k), Undecided(k), NEW order, Len(order) \in Nat,
         NEW like, \A i \in 1 .. Len(order) : order[i] \in Live(k) /\ like[order[i]] \in Live(k)
  PROVE  LET r == GroupedAll(k, order, like)
         IN  KbShape(r) /\ Undecided(r) /\ Live(r) = Live(k) /\ k.active \cap r.exists \subseteq r.active
  <1> PICK after : /\ after[0] = k
                   /\ \A i \in 1 .. Len(order) : after[i] = Grouped(after[i - 1], order[i], like[order[i]])
                   /\ GroupedAll(k, order, like) = after[Len(order)]
    BY GroupedOneByOne, SMTT(30)
  <1> DEFINE Good(r) == KbShape(r) /\ Undecided(r) /\ Live(r) = Live(k) /\ k.active \cap r.exists \subseteq r.active
             Bad == {i \in 0 .. Len(order) : ~Good(after[i])}
  <1>1. Bad = {}
    <2> SUFFICES ASSUME Bad # {} PROVE FALSE
      OBVIOUS
    <2>1. Bad \in SUBSET Nat
      OBVIOUS
    <2> PICK m \in Bad : \A x \in Bad : m <= x
      <3> HIDE DEF Bad
      <3> QED BY <2>1, LeastExists
    <2> HIDE DEF Good
    <2>2. m # 0
      BY DEF Good
    <2>3. m \in 1 .. Len(order) /\ m - 1 \in 0 .. Len(order) /\ m - 1 \notin Bad
      BY <2>2
    <2>4. Good(after[m - 1])
      BY <2>3
    <2>5. after[m] = Grouped(after[m - 1], order[m], like[order[m]])
      BY <2>3
    <2>6. order[m] \in Live(after[m - 1]) /\ like[order[m]] \in Live(after[m - 1])
      BY <2>3, <2>4 DEF Good
    <2>7. Good(after[m])
      <3>1. /\ KbShape(after[m - 1]) /\ Undecided(after[m - 1]) /\ Live(after[m - 1]) = Live(k)
            /\ k.active \cap after[m - 1].exists \subseteq after[m - 1].active
        BY <2>4 DEF Good
      <3>2. /\ KbShape(after[m]) /\ Undecided(after[m]) /\ Live(after[m]) = Live(after[m - 1])
            /\ k.active \cap after[m].exists \subseteq after[m].active
        BY <2>5, <2>6, <3>1, GroupedStep, SMTT(30)
      <3> QED BY <3>1, <3>2 DEF Good
    <2> QED BY <2>7
  <1>2. Len(order) \in 0 .. Len(order)
    OBVIOUS
  <1>3. Good(after[Len(order)])
    <2> HIDE DEF Good
    <2> QED BY <1>1, <1>2
  <1> QED BY <1>3

\* finalize_scan_topics as a whole, with and without the one unit of a regulation.
LEMMA FinalizeKeeps ==
  ASSUME ReviewInv, Finalize
  PROVE  ReviewInv' /\ HandsOver(kb, kb') /\ StayInUse(kb, kb', {})
  <1> DEFINE order == SetToSeq(Live(kb))
             reset == ResetOutputs(kb)
             earlier == {f \in [Live(kb) -> Live(kb)] : \A u \in Live(kb) : f[f[u]] = f[u]}
             all == {DecidedAll(reset, order, p) : p \in [Live(kb) -> Decision]}
             results == {GroupedAll(j, order, f) : j \in all, f \in earlier}
  <1>a. PICK result \in AfterFinalization(kb) :
          /\ kb' = result
          /\ scan' = IF \E u \in Live(result) : result.review[u] = "needs_review"
                     THEN "needs_review" ELSE "assigned"
    BY DEF Finalize
  <1>b. result \in results \cup {Regulation(j, c) : j \in results, c \in Live(kb)}
    BY <1>a DEF AfterFinalization
  <1> HIDE DEF results
  <1>c. PICK grouped \in results : result = grouped \/ \E c \in Live(kb) : result = Regulation(grouped, c)
    BY <1>b
  <1>d. PICK plan \in [Live(kb) -> Decision], like \in [Live(kb) -> Live(kb)] :
          grouped = GroupedAll(DecidedAll(reset, order, plan), order, like)
    <2> HIDE DEF order, reset
    <2> QED BY DEF results
  <1> DEFINE decided == DecidedAll(reset, order, plan)
  <1> HIDE DEF all, earlier
  <1>1. kb' = result /\ scan' = IF \E u \in Live(result) : result.review[u] = "needs_review"
                                THEN "needs_review" ELSE "assigned"
    BY <1>a
  <1>2. Len(order) \in Nat /\ \A i \in 1 .. Len(order) : order[i] \in Live(kb)
    <2>1. IsFiniteSet(Live(kb))
      BY ReviewAssumption, FS_Subset DEF ReviewInv, KbShape
    <2> QED BY <2>1, Listed
  <1> HIDE DEF order
  <1>3. KbShape(reset) /\ Live(reset) = Live(kb) /\ reset.active = kb.active /\ Undecided(reset)
    <2>1. /\ reset.active = kb.active /\ reset.review = kb.review
          /\ reset.proposals = [u \in ReviewUnits |-> NoProposal]
          /\ reset \in [exists : {reset.exists}, active : {reset.active}, canonical : {reset.canonical},
               filed : {reset.filed}, proposals : {reset.proposals}, review : {reset.review},
               doubts : {reset.doubts}]
      BY DEF ResetOutputs, ReviewInv, KbShape
    <2> HIDE DEF reset
    <2>2. ProposalShape(NoProposal) /\ NoProposal.status = "none"
      BY DEF ProposalShape, NoProposal
    <2>3. KbShape(reset) /\ Live(reset) = Live(kb)
      BY <2>1, <2>2 DEF ReviewInv, KbShape, Live
    <2> QED BY <2>1, <2>2, <2>3 DEF Undecided, Pending
  <1> HIDE DEF reset
  <1>4. KbShape(decided) /\ Undecided(decided) /\ Live(decided) = Live(kb) /\ decided.active = kb.active
    <2>1. \A i \in 1 .. Len(order) : order[i] \in Live(reset) /\ plan[order[i]] \in Decision
      BY <1>2, <1>3
    <2> QED BY <1>2, <1>3, <2>1, DecidedKeeps
  <1> HIDE DEF decided
  <1>5. /\ KbShape(grouped) /\ Undecided(grouped) /\ Live(grouped) = Live(kb)
        /\ kb.active \cap grouped.exists \subseteq grouped.active
    <2>1. \A i \in 1 .. Len(order) : order[i] \in Live(decided) /\ like[order[i]] \in Live(decided)
      BY <1>2, <1>4
    <2>2. /\ KbShape(grouped) /\ Undecided(grouped) /\ Live(grouped) = Live(decided)
          /\ decided.active \cap grouped.exists \subseteq grouped.active
      <3>1. grouped = GroupedAll(decided, order, like)
        BY <1>d DEF decided
      <3> QED BY <1>2, <1>4, <2>1, <3>1, GroupedKeeps
    <2> QED BY <1>4, <2>2
  <1>6. KbShape(result) /\ Undecided(result) /\ kb.active \cap result.exists \subseteq result.active
    <2>1. CASE result = grouped
      BY <1>5, <2>1
    <2>2. ASSUME NEW c \in Live(kb), result = Regulation(grouped, c)
          PROVE  KbShape(result) /\ Undecided(result) /\ kb.active \cap result.exists \subseteq result.active
      <3> DEFINE single == Regulation(grouped, c)
      <3>1. c \in Live(kb) /\ c \in ReviewUnits
        BY <2>2 DEF ReviewInv, KbShape
      <3>2. /\ single.review = [u \in {c} |-> "needs_review"]
            /\ single.proposals = [u \in ReviewUnits |-> IF u = c THEN grouped.proposals[u] ELSE NoProposal]
            /\ single.active = grouped.active /\ single.exists = grouped.exists
            /\ single \in [exists : {single.exists}, active : {single.active}, canonical : {single.canonical},
                 filed : {single.filed}, proposals : {single.proposals}, review : {single.review},
                 doubts : {single.doubts}]
        BY <1>5 DEF Regulation, KbShape
      <3>a. result = single
        BY <2>2
      <3> HIDE DEF single
      <3>3. ProposalShape(NoProposal) /\ NoProposal.status = "none"
        BY DEF ProposalShape, NoProposal
      <3>4. Live(single) = {c} /\ \A u \in ReviewUnits : ProposalShape(single.proposals[u])
        BY <1>5, <3>2, <3>3 DEF Live, KbShape
      <3>5. KbShape(single)
        BY <3>1, <3>2, <3>4 DEF KbShape
      <3>6. Undecided(single)
        BY <1>5, <3>2, <3>3, <3>4 DEF Undecided, Pending
      <3> QED BY <1>5, <3>2, <3>5, <3>6, <3>a
    <2> QED BY <1>c, <2>1, <2>2
  <1>7. scan' = "assigned" => NothingOpen(kb')
    BY <1>1, <1>6 DEF NothingOpen, Undecided, KbShape
  <1>8. StayInUse(kb, kb', {})
    BY <1>1, <1>6 DEF StayInUse, Approved, Undecided
  <1>9. HandsOver(kb, kb')
    BY <1>1, <1>6 DEF HandsOver
  <1>10. KbShape(kb')
    BY <1>1, <1>6
  <1> QED BY <1>7, <1>8, <1>9, <1>10 DEF ReviewInv, KbShape, NothingOpen, Live, Pending, ProposalShape

\* A step that takes no topic out of use and changes the review and the proposals as said.
LEMMA KeptInUse ==
  ASSUME ReviewInv, KbShape(kb'), kb.active \subseteq kb'.active,
         scan' = "assigned" => NothingOpen(kb'),
         \A u \in Live(kb') : kb'.proposals[u].status = "approved" =>
           \/ u \in Live(kb) /\ kb'.proposals[u] = kb.proposals[u]
           \/ kb'.proposals[u].topic \in kb'.active
  PROVE  ReviewInv' /\ HandsOver(kb, kb') /\ StayInUse(kb, kb', {})
  <1>1. StayInUse(kb, kb', {})
    BY DEF StayInUse, Approved
  <1>2. HandsOver(kb, kb')
    BY DEF HandsOver
  <1> QED BY <1>1, <1>2 DEF ReviewInv, KbShape, NothingOpen, Live, Pending, ProposalShape

\* A scan the refresh calls assigned has nothing open.
LEMMA RefreshedMeansClosed ==
  ASSUME NEW k
  PROVE  Refreshed(k) = "assigned" => NothingOpen(k)
  BY DEF Refreshed, OpenIssues, NothingOpen

LEMMA CurateFields ==
  ASSUME NEW k, KbShape(k), NEW t
  PROVE  LET r == Curate(k, t)
         IN  /\ KbShape(r) /\ r.exists = k.exists \cup {t} /\ r.active = k.active \cup {t}
             /\ r.review = k.review /\ r.proposals = k.proposals /\ Live(r) = Live(k) /\ r.filed = k.filed
  BY DEF Curate, KbShape, Live

Reviewed(k, u, s, filed) == [k EXCEPT !.filed = filed, !.review[u] = s]
WithProposal(k, u, p) == [k EXCEPT !.proposals[u] = p]

\* A new status of one unit, whatever else of the assignments changes.
LEMMA ReviewedFields ==
  ASSUME NEW k, KbShape(k), NEW u \in Live(k), NEW s, NEW filed,
         NEW r, r = Reviewed(k, u, s, filed)
  PROVE  /\ KbShape(r) /\ r.exists = k.exists /\ r.active = k.active /\ r.filed = filed
         /\ r.review = [k.review EXCEPT ![u] = s] /\ r.proposals = k.proposals /\ Live(r) = Live(k)
  <1>1. /\ r.exists = k.exists /\ r.active = k.active /\ r.filed = filed
        /\ r.review = [k.review EXCEPT ![u] = s] /\ r.proposals = k.proposals
        /\ r \in [exists : {r.exists}, active : {r.active}, canonical : {r.canonical},
             filed : {r.filed}, proposals : {r.proposals}, review : {r.review}, doubts : {r.doubts}]
    BY DEF KbShape, Reviewed
  <1>2. Live(r) = Live(k) /\ r.review \in [Live(r) -> {r.review[v] : v \in Live(r)}]
    BY <1>1 DEF Live, KbShape
  <1>3. KbShape(r)
    BY <1>1, <1>2 DEF KbShape
  <1> QED BY <1>1, <1>2, <1>3

LEMMA ProposalFields ==
  ASSUME NEW k, KbShape(k), NEW u \in ReviewUnits, NEW p, ProposalShape(p),
         NEW r, r = WithProposal(k, u, p)
  PROVE  /\ KbShape(r) /\ r.exists = k.exists /\ r.active = k.active /\ r.filed = k.filed
         /\ r.review = k.review /\ r.proposals = [k.proposals EXCEPT ![u] = p] /\ Live(r) = Live(k)
  <1>1. /\ r.exists = k.exists /\ r.active = k.active /\ r.filed = k.filed
        /\ r.review = k.review /\ r.proposals = [k.proposals EXCEPT ![u] = p]
        /\ r \in [exists : {r.exists}, active : {r.active}, canonical : {r.canonical},
             filed : {r.filed}, proposals : {r.proposals}, review : {r.review}, doubts : {r.doubts}]
    BY DEF KbShape, WithProposal
  <1>2. Live(r) = Live(k)
    BY <1>1 DEF Live
  <1>3. KbShape(r)
    BY <1>1, <1>2 DEF KbShape
  <1> QED BY <1>1, <1>2, <1>3

\* The review endpoints, one by one.
LEMMA ApproveKeeps ==
  ASSUME ReviewInv, NEW u \in ReviewUnits, Approve(u)
  PROVE  ReviewInv' /\ HandsOver(kb, kb') /\ StayInUse(kb, kb', {})
  <1>0. PICK t \in Topics, r \in Roles, merge \in BOOLEAN :
        LET p == kb.proposals[u]
            curated == Curate(kb, t)
            provisional == {a \in kb.filed : a[1] = u /\ a[2] = p.topic}
            filed == [curated EXCEPT
                        !.filed = (IF merge THEN @ \ provisional ELSE @) \cup {<<u, t, r>>},
                        !.review[u] = "human_reviewed"]
        IN  /\ u \in Live(kb) /\ Pending(kb, u)
            /\ merge => t \in kb.exists
            /\ ~(merge /\ provisional # {} /\ <<u, t, r>> \in kb.filed \ provisional)
            /\ scan' = Refreshed(filed)
            /\ kb' = [filed EXCEPT !.proposals[u] = [status |-> "approved", topic |-> t]]
    BY DEF Approve
  <1> DEFINE curated == Curate(kb, t)
             provisional == {a \in kb.filed : a[1] = u /\ a[2] = kb.proposals[u].topic}
             now == (IF merge THEN curated.filed \ provisional ELSE curated.filed) \cup {<<u, t, r>>}
             filed == [curated EXCEPT !.filed = now, !.review[u] = "human_reviewed"]
             p == [status |-> "approved", topic |-> t]
  <1>1. /\ u \in Live(kb) /\ Pending(kb, u) /\ scan' = Refreshed(filed)
        /\ kb' = WithProposal(filed, u, p)
    BY <1>0 DEF WithProposal
  <1>2. KbShape(curated) /\ curated.active = kb.active \cup {t} /\ curated.proposals = kb.proposals
        /\ Live(curated) = Live(kb)
    BY CurateFields DEF ReviewInv
  <1> HIDE DEF curated, now
  <1>a. PICK s, f : filed = Reviewed(curated, u, s, f)
    BY DEF Reviewed
  <1> HIDE DEF filed
  <1>3. KbShape(filed) /\ filed.active = kb.active \cup {t} /\ filed.proposals = kb.proposals
        /\ Live(filed) = Live(kb)
    <2>1. u \in Live(curated)
      BY <1>1, <1>2
    <2>2. KbShape(curated)
      BY <1>2
    <2> PICK c : c = curated
      OBVIOUS
    <2> PICK j : j = filed
      OBVIOUS
    <2>3. KbShape(c) /\ u \in Live(c) /\ j = Reviewed(c, u, s, f)
      BY <2>1, <2>2, <1>a
    <2>4. /\ KbShape(j) /\ j.active = c.active /\ j.review = [c.review EXCEPT ![u] = s]
          /\ j.proposals = c.proposals /\ Live(j) = Live(c)
      BY <2>3, ReviewedFields
    <2> QED BY <2>4, <1>2
  <1>4. ProposalShape(p) /\ p.status = "approved" /\ p.topic = t
    BY DEF ProposalShape
  <1> HIDE DEF p
  <1>5. /\ KbShape(kb') /\ kb'.active = kb.active \cup {t}
        /\ kb'.proposals = [kb.proposals EXCEPT ![u] = p] /\ Live(kb') = Live(kb)
    BY <1>1, <1>3, <1>4, ProposalFields
  <1>6. scan' # "assigned"
    <2>1. ~NothingOpen(filed)
      BY <1>1, <1>3 DEF NothingOpen, Pending
    <2> QED BY <2>1, <1>1, RefreshedMeansClosed
  <1>7. \A v \in Live(kb') : kb'.proposals[v] = kb.proposals[v] \/ kb'.proposals[v].topic \in kb'.active
    <2> SUFFICES ASSUME NEW v \in Live(kb')
                 PROVE  kb'.proposals[v] = kb.proposals[v] \/ kb'.proposals[v].topic \in kb'.active
      OBVIOUS
    <2>1. v \in ReviewUnits /\ kb.proposals \in [ReviewUnits -> {kb.proposals[w] : w \in ReviewUnits}]
      BY <1>5 DEF ReviewInv, KbShape
    <2>2. CASE v = u
      BY <2>1, <2>2, <1>4, <1>5
    <2>3. CASE v # u
      BY <2>1, <2>3, <1>5
    <2> QED BY <2>2, <2>3
  <1> QED BY <1>5, <1>6, <1>7, KeptInUse

LEMMA RejectKeeps ==
  ASSUME ReviewInv, NEW u \in ReviewUnits, Reject(u)
  PROVE  ReviewInv' /\ HandsOver(kb, kb') /\ StayInUse(kb, kb', {})
  <1> DEFINE t == kb.proposals[u].topic
             left == {a \in kb.filed : a[1] # u \/ a[2] # t}
             unfiled == [kb EXCEPT !.filed = left, !.review[u] = "human_reviewed"]
             p == [unfiled.proposals[u] EXCEPT !.status = "rejected"]
             rejected == [unfiled EXCEPT !.proposals[u] = p]
             gone == WithoutTopics(rejected, {t})
             forgotten == [v \in ReviewUnits |-> IF gone.proposals[v].topic = t THEN NoProposal ELSE gone.proposals[v]]
             final == [gone EXCEPT !.proposals = forgotten]
  <1>1. /\ u \in Live(kb) /\ Pending(kb, u) /\ scan' = Refreshed(unfiled)
        /\ \/ kb' = rejected
           \/ t \notin kb.active /\ kb' = final
    BY DEF Reject
  <1>a. PICK s, f : unfiled = Reviewed(kb, u, s, f)
    BY DEF Reviewed
  <1>b. rejected = WithProposal(unfiled, u, p)
    BY DEF WithProposal
  <1> HIDE DEF t, left, unfiled, p, rejected, gone, forgotten, final
  <1>2. KbShape(unfiled) /\ unfiled.active = kb.active /\ unfiled.proposals = kb.proposals /\ Live(unfiled) = Live(kb)
    <2>1. u \in Live(kb) /\ KbShape(kb)
      BY <1>1 DEF ReviewInv
    <2> PICK j : j = unfiled
      OBVIOUS
    <2>2. j = Reviewed(kb, u, s, f)
      BY <1>a
    <2>3. /\ KbShape(j) /\ j.active = kb.active /\ j.review = [kb.review EXCEPT ![u] = s]
          /\ j.proposals = kb.proposals /\ Live(j) = Live(kb)
      BY <2>1, <2>2, ReviewedFields
    <2> QED BY <2>3
  <1>3. ProposalShape(p) /\ p.status = "rejected"
    BY <1>2 DEF ProposalShape, KbShape, p
  <1>4. /\ KbShape(rejected) /\ rejected.active = kb.active
        /\ rejected.proposals = [kb.proposals EXCEPT ![u] = p] /\ Live(rejected) = Live(kb)
    BY <1>2, <1>3, <1>b, ProposalFields
  <1>5. scan' # "assigned"
    <2>1. ~NothingOpen(unfiled)
      BY <1>1, <1>2 DEF NothingOpen, Pending
    <2> QED BY <2>1, <1>1, RefreshedMeansClosed
  <1>6. \A v \in ReviewUnits : rejected.proposals[v] = kb.proposals[v] \/ rejected.proposals[v].status = "rejected"
    BY <1>3, <1>4 DEF ReviewInv, KbShape
  <1>7. CASE kb' = rejected
    <2>1. \A v \in Live(kb') : kb'.proposals[v].status = "approved" => kb'.proposals[v] = kb.proposals[v]
      BY <1>4, <1>6, <1>7 DEF KbShape
    <2> QED BY <1>4, <1>5, <1>7, <2>1, KeptInUse
  <1>8. CASE t \notin kb.active /\ kb' = final
    <2>1. /\ KbShape(gone) /\ gone.active = kb.active \ {t} /\ gone.proposals = rejected.proposals
          /\ Live(gone) = Live(kb)
      BY <1>4, WithoutTopicsFields DEF gone
    <2>2. /\ final.active = gone.active /\ final.review = gone.review /\ final.proposals = forgotten
          /\ final \in [exists : {final.exists}, active : {final.active}, canonical : {final.canonical},
               filed : {final.filed}, proposals : {final.proposals}, review : {final.review}, doubts : {final.doubts}]
      BY <2>1 DEF KbShape, final
    <2>3. ProposalShape(NoProposal) /\ NoProposal.status = "none"
      BY DEF ProposalShape, NoProposal
    <2>4. KbShape(final) /\ Live(final) = Live(kb)
      BY <2>1, <2>2, <2>3 DEF KbShape, Live, forgotten
    <2>5. \A v \in Live(final) : final.proposals[v].status = "approved" => final.proposals[v] = kb.proposals[v]
      BY <1>6, <2>1, <2>2, <2>3, <2>4, ZenonT(40) DEF KbShape, forgotten
    <2> QED BY <1>5, <1>8, <2>1, <2>2, <2>4, <2>5, KeptInUse
  <1> QED BY <1>1, <1>7, <1>8

LEMMA UnitReviewsKeep ==
  ASSUME ReviewInv, NEW u \in ReviewUnits,
         SpecialistStores(u) \/ ReviewUnit(u) \/ MarkUnitReviewed(u) \/ AddAssignment(u) \/ DeleteAssignment(u)
  PROVE  ReviewInv' /\ HandsOver(kb, kb') /\ StayInUse(kb, kb', {})
  <1>1. CASE SpecialistStores(u)
    <2> PICK doubts : kb' = [kb EXCEPT !.doubts = doubts]
      BY <1>1 DEF SpecialistStores
    <2>1. /\ kb'.active = kb.active /\ kb'.review = kb.review /\ kb'.proposals = kb.proposals
          /\ KbShape(kb') /\ Live(kb') = Live(kb) /\ scan' = scan
      BY <1>1 DEF ReviewInv, KbShape, Live, SpecialistStores
    <2>2. scan' = "assigned" => NothingOpen(kb')
      BY <2>1 DEF ReviewInv, NothingOpen, Pending
    <2> QED BY <2>1, <2>2, KeptInUse
  <1>2. ASSUME u \in Live(kb), NEW k, KbShape(k), k.proposals = kb.proposals, Live(k) = Live(kb),
               k.review = kb.review, kb.active \subseteq k.active,
               NEW s, NEW filed, kb' = Reviewed(k, u, s, filed),
               scan' = Refreshed(kb') \/ (scan' = scan /\ s # "needs_review")
        PROVE  ReviewInv' /\ HandsOver(kb, kb') /\ StayInUse(kb, kb', {})
    <2>1. /\ KbShape(kb') /\ kb'.active = k.active /\ kb'.proposals = kb.proposals /\ Live(kb') = Live(kb)
          /\ kb'.review = [kb.review EXCEPT ![u] = s]
      BY <1>2, ReviewedFields
    <2>2. scan' = "assigned" => NothingOpen(kb')
      <3>1. CASE scan' = Refreshed(kb')
        BY <3>1, RefreshedMeansClosed
      <3>2. CASE scan' = scan /\ s # "needs_review"
        <4>1. \A v \in Live(kb) : kb'.review[v] = kb.review[v] \/ kb'.review[v] = s
          BY <2>1 DEF ReviewInv, KbShape
        <4> QED BY <2>1, <3>2, <4>1 DEF ReviewInv, NothingOpen, Pending
      <3> QED BY <1>2, <3>1, <3>2
    <2> QED BY <1>2, <2>1, <2>2, KeptInUse
  <1>3. ASSUME NEW k, KbShape(k), NEW v \in Live(k), NEW s
        PROVE  [k EXCEPT !.review[v] = s] = Reviewed(k, v, s, k.filed)
    BY <1>3 DEF KbShape, Reviewed
  <1>4. CASE ReviewUnit(u)
    <2> PICK s : kb' = [kb EXCEPT !.review[u] = s]
      BY <1>4 DEF ReviewUnit
    <2>1. u \in Live(kb) /\ scan' = Refreshed(kb') /\ KbShape(kb)
      BY <1>4 DEF ReviewUnit, ReviewInv
    <2>2. kb' = Reviewed(kb, u, s, kb.filed)
      BY <2>1, <1>3
    <2> QED BY <2>1, <2>2, <1>2
  <1>5. CASE MarkUnitReviewed(u)
    <2>1. u \in Live(kb) /\ scan' = Refreshed(kb') /\ KbShape(kb) /\ kb' = [kb EXCEPT !.review[u] = "human_reviewed"]
      BY <1>5 DEF MarkUnitReviewed, ReviewInv
    <2>2. kb' = Reviewed(kb, u, "human_reviewed", kb.filed)
      BY <2>1, <1>3
    <2> QED BY <2>1, <2>2, <1>2
  <1>6. CASE AddAssignment(u)
    <2> PICK t \in Topics, r \in Roles, create \in BOOLEAN :
          kb' = [(IF create THEN Curate(kb, t) ELSE kb) EXCEPT
                   !.filed = @ \cup {<<u, t, r>>}, !.review[u] = "human_reviewed"]
      BY <1>6 DEF AddAssignment
    <2> DEFINE k == IF create THEN Curate(kb, t) ELSE kb
               filed == k.filed \cup {<<u, t, r>>}
    <2>1. u \in Live(kb) /\ scan' = scan
      BY <1>6 DEF AddAssignment
    <2>2. KbShape(k) /\ k.proposals = kb.proposals /\ Live(k) = Live(kb)
               /\ k.review = kb.review /\ kb.active \subseteq k.active
      BY CurateFields DEF ReviewInv
    <2>3. kb' = Reviewed(k, u, "human_reviewed", filed)
      BY DEF Reviewed
    <2> HIDE DEF k, filed
    <2> QED BY <2>1, <2>2, <2>3, <1>2
  <1>7. CASE DeleteAssignment(u)
    <2> PICK a \in kb.filed : kb' = [kb EXCEPT !.filed = @ \ {a}, !.review[u] = "human_reviewed"]
      BY <1>7 DEF DeleteAssignment
    <2> DEFINE filed == kb.filed \ {a}
    <2>2. kb' = Reviewed(kb, u, "human_reviewed", filed)
      BY DEF Reviewed
    <2> HIDE DEF filed
    <2>1. u \in Live(kb) /\ scan' = scan /\ KbShape(kb)
      BY <1>7 DEF DeleteAssignment, ReviewInv
    <2> QED BY <2>1, <2>2, <1>2
  <1> QED BY <1>1, <1>4, <1>5, <1>6, <1>7

LEMMA ScanReviewsKeep ==
  ASSUME ReviewInv, MarkScanReviewed \/ CreateTopic \/ MakeSecondary \/ \E u \in ReviewUnits : DeleteUnit(u)
  PROVE  ReviewInv' /\ HandsOver(kb, kb') /\ StayInUse(kb, kb', {})
  <1>1. CASE MarkScanReviewed
    <2>1. scan' = Refreshed(kb')
      BY <1>1 DEF MarkScanReviewed
    <2> DEFINE review == [u \in Live(kb) |-> IF kb.review[u] = "needs_review" THEN "human_reviewed" ELSE kb.review[u]]
    <2>2. kb' = [kb EXCEPT !.review = review]
      BY <1>1 DEF MarkScanReviewed
    <2>3. review \in [Live(kb) -> {review[u] : u \in Live(kb)}]
      OBVIOUS
    <2> HIDE DEF review
    <2>4. /\ kb'.active = kb.active /\ kb'.proposals = kb.proposals /\ Live(kb') = Live(kb) /\ KbShape(kb')
      BY <2>2, <2>3 DEF ReviewInv, KbShape, Live
    <2> QED BY <2>1, <2>4, RefreshedMeansClosed, KeptInUse
  <1>2. CASE CreateTopic
    <2> PICK t \in Topics : kb' = Curate(kb, t)
      BY <1>2 DEF CreateTopic
    <2>1. /\ KbShape(kb') /\ kb'.active = kb.active \cup {t} /\ kb'.review = kb.review
          /\ kb'.proposals = kb.proposals /\ Live(kb') = Live(kb) /\ scan' = scan
      BY <1>2, CurateFields DEF ReviewInv, CreateTopic
    <2>2. scan' = "assigned" => NothingOpen(kb')
      BY <2>1 DEF ReviewInv, NothingOpen, Pending
    <2> QED BY <2>1, <2>2, KeptInUse
  <1>3. CASE MakeSecondary
    <2>1. \E filed : kb' = [kb EXCEPT !.filed = filed]
      BY <1>3 DEF MakeSecondary
    <2>2. scan' = scan
      BY <1>3 DEF MakeSecondary
    <2>3. /\ KbShape(kb') /\ kb'.active = kb.active /\ kb'.review = kb.review
          /\ kb'.proposals = kb.proposals /\ Live(kb') = Live(kb)
      BY <2>1 DEF ReviewInv, KbShape, Live
    <2>4. scan' = "assigned" => NothingOpen(kb')
      BY <2>2, <2>3 DEF ReviewInv, NothingOpen, Pending
    <2> QED BY <2>3, <2>4, KeptInUse
  <1>4. ASSUME NEW u \in ReviewUnits, DeleteUnit(u) PROVE ReviewInv' /\ HandsOver(kb, kb') /\ StayInUse(kb, kb', {})
    <2> DEFINE left == Live(kb) \ {u}
               review == [v \in left |-> kb.review[v]]
               filed == {a \in kb.filed : a[1] # u}
               doubts == kb.doubts \ {u}
    <2>1. /\ scan' = scan
          /\ kb' = [kb EXCEPT !.review = review, !.filed = filed, !.doubts = doubts, !.proposals[u] = NoProposal]
      BY <1>4 DEF DeleteUnit
    <2>2. DOMAIN review = left /\ review \in [left -> {review[v] : v \in left}]
          /\ \A v \in left : review[v] = kb.review[v]
      OBVIOUS
    <2> HIDE DEF review, filed, doubts
    <2>3. /\ kb'.active = kb.active /\ kb'.review = review
          /\ kb'.proposals = [kb.proposals EXCEPT ![u] = NoProposal]
          /\ kb' \in [exists : {kb'.exists}, active : {kb'.active}, canonical : {kb'.canonical},
               filed : {kb'.filed}, proposals : {kb'.proposals}, review : {kb'.review}, doubts : {kb'.doubts}]
      BY <2>1 DEF ReviewInv, KbShape
    <2>4. ProposalShape(NoProposal) /\ NoProposal.status = "none"
      BY DEF ProposalShape, NoProposal
    <2>5. Live(kb') = left /\ left \subseteq ReviewUnits
      BY <2>2, <2>3 DEF Live, ReviewInv, KbShape
    <2>6. /\ kb'.proposals \in [ReviewUnits -> {kb'.proposals[v] : v \in ReviewUnits}]
          /\ \A v \in ReviewUnits : kb'.proposals[v] = IF v = u THEN NoProposal ELSE kb.proposals[v]
      BY <2>3 DEF ReviewInv, KbShape
    <2>7. KbShape(kb')
      BY <2>2, <2>3, <2>4, <2>5, <2>6 DEF ReviewInv, KbShape
    <2>8. \A v \in left : kb'.proposals[v] = kb.proposals[v] /\ v \in Live(kb) /\ kb'.review[v] = kb.review[v]
      BY <2>2, <2>3, <2>5, <2>6
    <2>9. scan' = "assigned" => NothingOpen(kb')
      BY <2>1, <2>5, <2>8 DEF ReviewInv, NothingOpen, Pending
    <2> QED BY <2>3, <2>5, <2>7, <2>8, <2>9, KeptInUse
  <1> QED BY <1>1, <1>2, <1>3, <1>4

\* The cleanup deletes what it read before, if no proposal refers to it by now.
LEMMA CleanupKeeps ==
  ASSUME ReviewInv, CleanupReads \/ CleanupDeletes
  PROVE  ReviewInv' /\ HandsOver(kb, kb') /\ StayInUse(kb, kb', {})
  <1>1. CASE kb' = kb /\ scan' = scan
    BY <1>1 DEF ReviewInv, HandsOver, StayInUse
  <1>2. CASE /\ \A t \in cleaning : Proposed(kb, t) = {}
             /\ kb' = WithoutTopics(kb, cleaning) /\ scan' = scan
    <2>1. /\ KbShape(kb') /\ kb'.exists = kb.exists \ cleaning /\ kb'.active = kb.active \ cleaning
          /\ kb'.review = kb.review /\ kb'.proposals = kb.proposals /\ Live(kb') = Live(kb)
      BY <1>2, WithoutTopicsFields DEF ReviewInv
    <2>2. HandsOver(kb, kb')
      BY <2>1 DEF HandsOver
    <2>3. StayInUse(kb, kb', {})
      BY <1>2, <2>1 DEF StayInUse, Approved, Proposed
    <2>4. scan' = "assigned" => NothingOpen(kb')
      BY <1>2, <2>1 DEF ReviewInv, NothingOpen, Pending
    <2> QED BY <2>1, <2>2, <2>3, <2>4 DEF ReviewInv, KbShape, NothingOpen, Live, Pending, ProposalShape
  <1> QED BY <1>1, <1>2 DEF CleanupReads, CleanupDeletes

-----------------------------------------------------------------------------
(* Merges: what holds of the state of a request after any number of them.        *)

\* The topics that took another one in, and the sets of topics that hold both or
\* none of every pair merged.
Winners(joined) == {p[1] : p \in joined}
Closed(joined) == {ts \in SUBSET Topics : \A p \in joined : p[1] \in ts <=> p[2] \in ts}
Alike(joined, t, w) == \A ts \in Closed(joined) : t \in ts <=> w \in ts

\* From k to r: the units as they are, and of a proposal only the topic.
SameUnits(k, r) ==
  /\ KbShape(r) /\ Live(r) = Live(k) /\ r.review = k.review
  /\ \A u \in ReviewUnits : r.proposals[u].status = k.proposals[u].status

\* A proposal is at its topic or at one that took another in; if its topic was in
\* use it is at one in use, or at one of a chain.
ProposalsFollow(k, m) ==
  \A u \in ReviewUnits :
    /\ m.kb.proposals[u].topic \in {k.proposals[u].topic} \cup Winners(m.joined)
    /\ k.proposals[u].topic \in k.active => m.kb.proposals[u].topic \in m.kb.active \cup m.chained

\* Without a chain: who took a topic in stays in use, a unit filed under a topic in
\* use stays filed under one, and a deleted row has a row of its unit under a topic
\* that took another in and is like its own.
Replaced(m, g) ==
  \E b \in m.kb.filed : b[1] = g[1] /\ b[2] \in Winners(m.joined) /\ Alike(m.joined, g[2], b[2])
UnitsFollow(k, r) == \A a \in k.filed : a[2] \in k.active => \E b \in r.filed : b[1] = a[1] /\ b[2] \in r.active
Unchained(k, m) ==
  /\ Winners(m.joined) \subseteq m.kb.active
  /\ UnitsFollow(k, m.kb)
  /\ \A g \in m.gone : Replaced(m, g)

MergeInv(k, m) ==
  /\ SameUnits(k, m.kb) /\ ProposalsFollow(k, m)
  /\ m.chained = {} => Unchained(k, m)

LEMMA WinnersGrow ==
  ASSUME NEW joined, NEW c, NEW d
  PROVE  Winners(joined \cup {<<c, d>>}) = Winners(joined) \cup {c}
  <1>1. <<c, d>>[1] = c
    OBVIOUS
  <1> QED BY <1>1, Zenon DEF Winners

\* The two topics of a pair are alike.
LEMMA PairAlike ==
  ASSUME NEW joined, NEW c, NEW d, NEW w, <<c, d>> \in joined
  PROVE  Alike(joined, c, w) <=> Alike(joined, d, w)
  <1>1. \A ts \in Closed(joined) : c \in ts <=> d \in ts
    <2>1. <<c, d>>[1] = c /\ <<c, d>>[2] = d
      OBVIOUS
    <2> QED BY <2>1, Zenon DEF Closed
  <1> QED BY <1>1, Zenon DEF Alike

\* The rows after a merge of d into c.
LEMMA MergedRows ==
  ASSUME NEW k, NEW m, Unchained(k, m), NEW c, NEW d, c # d, d \notin Winners(m.joined),
         NEW r, r.kb.filed = MovedAssignments(m, c, d), r.kb.active = (m.kb.active \cup {c}) \ {d},
         r.gone = Retargeted(m.gone \ Doubled(m, c, d), c, d) \cup Doubled(m, c, d),
         r.joined = m.joined \cup {<<c, d>>}
  PROVE  Unchained(k, r)
  <1> DEFINE Stays(b) == b \in m.kb.filed /\ b[2] # d
  <1>1. ASSUME NEW b, Stays(b) PROVE b \in r.kb.filed
    BY <1>1 DEF MovedAssignments, Retargeted, Doubled, ListedUnder, Assigned
  <1>2. Winners(r.joined) = Winners(m.joined) \cup {c}
    <2>1. Winners(m.joined \cup {<<c, d>>}) = Winners(m.joined) \cup {c}
      BY WinnersGrow, Zenon
    <2> QED BY <2>1
  <1>3. Winners(r.joined) \subseteq r.kb.active
    BY <1>2 DEF Unchained
  <1>4. ASSUME NEW t, NEW w, Alike(m.joined, t, w) PROVE Alike(r.joined, t, w)
    BY <1>4 DEF Alike, Closed
  <1>5. ASSUME NEW w, Alike(r.joined, c, w) PROVE Alike(r.joined, d, w)
    BY <1>5, PairAlike
  <1>6. ASSUME NEW w, Alike(r.joined, d, w) PROVE Alike(r.joined, c, w)
    BY <1>6, PairAlike
  \* A row deleted before still has its other row, which is not at d.
  <1>7. ASSUME NEW g, Replaced(m, g)
        PROVE  \E b \in r.kb.filed : /\ b[1] = g[1] /\ b[2] \in Winners(m.joined)
                                     /\ Alike(r.joined, g[2], b[2])
    <2> PICK b \in m.kb.filed : b[1] = g[1] /\ b[2] \in Winners(m.joined) /\ Alike(m.joined, g[2], b[2])
      BY <1>7 DEF Replaced
    <2>1. Stays(b)
      OBVIOUS
    <2> QED BY <2>1, <1>1, <1>4
  \* A double of a row listed under c has a row in use, c's or the one of c's.
  <1>8. ASSUME NEW a \in Doubled(m, c, d) PROVE Replaced(r, a)
    <2>1. a[2] = d
      BY DEF Doubled, ListedUnder, Assigned
    <2>2. Under(a, c) \in ListedUnder(m, c) /\ Under(a, c)[1] = a[1] /\ Under(a, c)[2] = c
      BY DEF Doubled, Under
    <2>3. CASE Under(a, c) \in m.kb.filed
      <3>1. Under(a, c) \in r.kb.filed
        BY <2>2, <2>3, <1>1
      <3>2. Alike(r.joined, d, c)
        BY <1>5 DEF Alike
      <3> QED BY <2>1, <2>2, <3>1, <3>2, <1>2 DEF Replaced
    <2>4. CASE Under(a, c) \in m.gone
      <3>1. Replaced(m, Under(a, c))
        BY <2>4 DEF Unchained
      <3> PICK b \in r.kb.filed : /\ b[1] = Under(a, c)[1] /\ b[2] \in Winners(m.joined)
                                  /\ Alike(r.joined, Under(a, c)[2], b[2])
        BY <3>1, <1>7
      <3>2. Alike(r.joined, d, b[2])
        BY <2>2, <1>5
      <3> QED BY <2>1, <2>2, <3>2, <1>2 DEF Replaced
    <2> QED BY <2>2, <2>3, <2>4 DEF ListedUnder, Assigned
  <1>9. ASSUME NEW g \in r.gone PROVE Replaced(r, g)
    <2>1. CASE g \in Doubled(m, c, d)
      BY <2>1, <1>8
    <2>2. ASSUME NEW old \in m.gone, g = IF old[2] = d THEN Under(old, c) ELSE old PROVE Replaced(r, g)
      <3> PICK b \in r.kb.filed : /\ b[1] = old[1] /\ b[2] \in Winners(m.joined)
                                  /\ Alike(r.joined, old[2], b[2])
        BY <1>7 DEF Unchained
      <3>1. g[1] = old[1] /\ (g[2] = old[2] \/ (old[2] = d /\ g[2] = c))
        BY <2>2 DEF Under
      <3>2. Alike(r.joined, g[2], b[2])
        BY <3>1, <1>6
      <3> QED BY <3>1, <3>2, <1>2 DEF Replaced
    <2> QED BY <2>1, <2>2 DEF Retargeted
  <1>10. ASSUME NEW a \in k.filed, a[2] \in k.active PROVE \E b \in r.kb.filed : b[1] = a[1] /\ b[2] \in r.kb.active
    <2> PICK b \in m.kb.filed : b[1] = a[1] /\ b[2] \in m.kb.active
      BY <1>10 DEF Unchained, UnitsFollow
    <2>1. CASE b[2] # d
      BY <2>1, <1>1
    <2>2. CASE b \in Doubled(m, c, d)
      BY <2>2, <1>3, <1>8 DEF Replaced
    <2>3. CASE b[2] = d /\ b \notin Doubled(m, c, d)
      <3>1. Under(b, c) \in r.kb.filed /\ Under(b, c)[1] = b[1] /\ Under(b, c)[2] = c
        BY <2>3 DEF MovedAssignments, Retargeted, Under
      <3> QED BY <3>1
    <2> QED BY <2>1, <2>2, <2>3
  <1> QED BY <1>3, <1>9, <1>10 DEF Unchained, UnitsFollow

\* A merge, of the topic kept and another.
LEMMA MergeKeeps ==
  ASSUME NEW k, NEW loaded, loaded.proposals = k.proposals, NEW m, MergeInv(k, m),
         NEW c, NEW d, c # d
  PROVE  MergeInv(k, MergeInto(m, loaded, c, d))
  <1> DEFINE r == MergeInto(m, loaded, c, d)
             active == (m.kb.active \cup {c}) \ {d}
             filed == MovedAssignments(m, c, d)
             proposals == MovedProposals(m.kb, loaded, c, d)
  <1>1. /\ r.kb = [m.kb EXCEPT !.active = active, !.canonical = (@ \cup {c}) \ {d},
                     !.filed = filed, !.proposals = proposals]
        /\ r.gone = Retargeted(m.gone \ Doubled(m, c, d), c, d) \cup Doubled(m, c, d)
        /\ r.joined = m.joined \cup {<<c, d>>}
        /\ r.chained = m.chained \cup ({d} \cap Winners(m.joined))
    BY DEF MergeInto, Winners
  <1> HIDE DEF r
  <1>a. KbShape(m.kb) /\ SameUnits(k, m.kb) /\ ProposalsFollow(k, m)
    BY DEF MergeInv, SameUnits
  <1>2. /\ r.kb.active = active /\ r.kb.review = m.kb.review
        /\ r.kb.filed = filed /\ r.kb.proposals = proposals
        /\ r.kb \in [exists : {r.kb.exists}, active : {r.kb.active}, canonical : {r.kb.canonical},
             filed : {r.kb.filed}, proposals : {r.kb.proposals}, review : {r.kb.review}, doubts : {r.kb.doubts}]
    <2> HIDE DEF active, filed, proposals
    <2> QED BY <1>1, <1>a DEF KbShape
  <1>3. ASSUME NEW u \in ReviewUnits
        PROVE  /\ ProposalShape(proposals[u]) /\ proposals[u].status = m.kb.proposals[u].status
               /\ proposals[u].topic = IF k.proposals[u].topic = d THEN c ELSE m.kb.proposals[u].topic
    <2>1. ProposalShape(m.kb.proposals[u])
      BY <1>a DEF KbShape
    <2>2. CASE k.proposals[u].topic = d
      <3>1. proposals[u] = [m.kb.proposals[u] EXCEPT !.topic = c]
        BY <2>2 DEF MovedProposals
      <3> QED BY <2>1, <2>2, <3>1 DEF ProposalShape
    <2>3. CASE k.proposals[u].topic # d
      <3>1. proposals[u] = m.kb.proposals[u]
        BY <2>3 DEF MovedProposals
      <3> QED BY <2>1, <2>3, <3>1
    <2> QED BY <2>2, <2>3
  <1>4. proposals \in [ReviewUnits -> {proposals[u] : u \in ReviewUnits}]
    BY DEF MovedProposals
  <1> HIDE DEF proposals, filed
  <1>5. KbShape(r.kb) /\ Live(r.kb) = Live(m.kb)
    <2> HIDE DEF active
    <2> QED BY <1>2, <1>3, <1>4, <1>a DEF KbShape, Live
  <1>6. SameUnits(k, r.kb)
    BY <1>2, <1>3, <1>5, <1>a DEF SameUnits
  <1>7. Winners(r.joined) = Winners(m.joined) \cup {c}
    <2>1. Winners(m.joined \cup {<<c, d>>}) = Winners(m.joined) \cup {c}
      BY WinnersGrow, Zenon
    <2> QED BY <1>1, <2>1
  <1>8. ProposalsFollow(k, r)
    <2> SUFFICES ASSUME NEW u \in ReviewUnits
                 PROVE  /\ r.kb.proposals[u].topic \in {k.proposals[u].topic} \cup Winners(r.joined)
                        /\ k.proposals[u].topic \in k.active => r.kb.proposals[u].topic \in r.kb.active \cup r.chained
      BY DEF ProposalsFollow
    <2> DEFINE x == k.proposals[u].topic
               y == m.kb.proposals[u].topic
    <2>1. r.kb.proposals[u].topic = IF x = d THEN c ELSE y
      BY <1>2, <1>3
    <2>2. y \in {x} \cup Winners(m.joined) /\ (x \in k.active => y \in m.kb.active \cup m.chained)
      BY <1>a DEF ProposalsFollow
    <2> HIDE DEF x, y
    <2>3. CASE x = d
      BY <2>1, <2>3, <1>2, <1>7 DEF x
    <2>4. CASE x # d
      BY <2>1, <2>2, <2>4, <1>1, <1>2, <1>7 DEF x
    <2> QED BY <2>3, <2>4
  <1>9. ASSUME r.chained = {} PROVE Unchained(k, r)
    <2>1. Unchained(k, m) /\ d \notin Winners(m.joined)
      BY <1>1, <1>9 DEF MergeInv
    <2>2. r.kb.filed = MovedAssignments(m, c, d) /\ r.kb.active = (m.kb.active \cup {c}) \ {d}
      BY <1>2 DEF filed
    <2>3. /\ r.gone = Retargeted(m.gone \ Doubled(m, c, d), c, d) \cup Doubled(m, c, d)
          /\ r.joined = m.joined \cup {<<c, d>>}
      BY <1>1
    <2> HIDE DEF active
    <2> QED BY <2>1, <2>2, <2>3, MergedRows
  <1>10. MergeInv(k, r)
    BY <1>6, <1>8, <1>9 DEF MergeInv
  <1> QED BY <1>10 DEF r

LEMMA UnmergedHolds ==
  ASSUME NEW k, KbShape(k)
  PROVE  MergeInv(k, Unmerged(k))
  <1> DEFINE m == Unmerged(k)
  <1>1. m.kb = k /\ m.gone = {} /\ m.joined = {} /\ m.chained = {}
    BY DEF Unmerged
  <1> HIDE DEF m
  <1>2. SameUnits(k, m.kb) /\ ProposalsFollow(k, m) /\ Unchained(k, m)
    BY <1>1 DEF SameUnits, ProposalsFollow, Unchained, UnitsFollow, Winners
  <1> QED BY <1>2 DEF MergeInv, m

\* Merges is solved by one more merge at a time.
LEMMA MergesOneByOne ==
  ASSUME NEW start, NEW loaded, NEW pool
  PROVE  \E after : /\ after[0] = {start}
                    /\ \A i \in 1 .. MaxMerges :
                         after[i] = after[i - 1] \cup UNION {OneMore(m, loaded, pool) : m \in after[i - 1]}
                    /\ Merges(start, loaded, pool) = after[MaxMerges]
  <1> DEFINE n == MaxMerges
             next(ms) == ms \cup UNION {OneMore(m, loaded, pool) : m \in ms}
             Rec(f, i) == f = [j \in 0 .. i |-> IF j = 0 THEN {start} ELSE next(f[j - 1])]
             Bad == {i \in 0 .. n : ~ \E f : Rec(f, i)}
             after == CHOOSE f : Rec(f, n)
  <1>n. n \in Nat
    BY ReviewAssumption
  <1>1. Merges(start, loaded, pool) = after[n]
    BY DEF Merges
  <1> HIDE DEF next, n
  <1>2. Bad = {}
    <2> SUFFICES ASSUME Bad # {} PROVE FALSE
      OBVIOUS
    <2>1. Bad \in SUBSET Nat
      BY <1>n
    <2> PICK i \in Bad : \A x \in Bad : i <= x
      <3> HIDE DEF Bad
      <3> QED BY <2>1, LeastExists
    <2>2. i \in 0 .. n /\ ~ \E f : Rec(f, i)
      OBVIOUS
    <2>3. CASE i = 0
      <3> DEFINE f == [j \in 0 .. 0 |-> {start}]
      <3>1. Rec(f, 0)
        OBVIOUS
      <3> HIDE DEF f, Rec
      <3>2. \E h : Rec(h, i)
        BY <3>1, <2>3
      <3> QED BY <3>2, <2>2
    <2>4. CASE i # 0
      <3>a. i - 1 \in 0 .. n /\ ~(i <= i - 1)
        BY <2>2, <2>4, <1>n
      <3>1. i - 1 \in 0 .. n /\ i - 1 \notin Bad
        <4> HIDE DEF Bad
        <4> QED BY <3>a
      <3> PICK f : Rec(f, i - 1)
        BY <3>1
      <3> DEFINE g == [j \in 0 .. i |-> IF j = i THEN next(f[i - 1]) ELSE f[j]]
      <3>2. ASSUME NEW j \in 0 .. i PROVE g[j] = IF j = 0 THEN {start} ELSE next(g[j - 1])
        <4>1. CASE j = i
          BY <4>1, <2>2, <2>4, <1>n
        <4>2. CASE j = 0
          BY <4>2, <2>2, <2>4, <1>n
        <4>3. CASE j # 0 /\ j # i
          <5>1. j \in 0 .. i - 1 /\ j - 1 \in 0 .. i /\ j - 1 # i
            BY <4>3, <2>2, <1>n
          <5>2. f[j] = next(f[j - 1])
            BY <5>1, <4>3
          <5> QED BY <5>1, <5>2, <4>3
        <4> QED BY <4>1, <4>2, <4>3
      <3>3. Rec(g, i)
        BY <3>2
      <3> QED BY <3>3, <2>2
    <2> QED BY <2>3, <2>4
  <1>3. Rec(after, n)
    <2>1. n \in 0 .. n
      BY <1>n
    <2>2. \E f : Rec(f, n)
      BY <1>2, <2>1
    <2> HIDE DEF Rec
    <2> QED BY <2>2
  <1>4. after[0] = {start} /\ \A i \in 1 .. n : after[i] = next(after[i - 1])
    <2> HIDE DEF after
    <2>1. after = [j \in 0 .. n |-> IF j = 0 THEN {start} ELSE next(after[j - 1])]
      BY <1>3
    <2>2. ASSUME NEW i \in 0 .. n PROVE after[i] = IF i = 0 THEN {start} ELSE next(after[i - 1])
      BY <2>1, Zenon
    <2>3. 0 \in 0 .. n /\ \A i \in 1 .. n : i \in 0 .. n /\ i # 0
      BY <1>n
    <2> QED BY <2>2, <2>3, Zenon
  <1> HIDE DEF after
  <1>5. after[0] = {start} /\ \A i \in 1 .. n :
          after[i] = after[i - 1] \cup UNION {OneMore(m, loaded, pool) : m \in after[i - 1]}
    BY <1>4 DEF next
  <1> QED BY <1>1, <1>5 DEF n

LEMMA MergesKeep ==
  ASSUME NEW k, KbShape(k), NEW loaded, loaded.proposals = k.proposals, NEW pool
  PROVE  \A m \in Merges(Unmerged(k), loaded, pool) : MergeInv(k, m)
  <1> PICK after : /\ after[0] = {Unmerged(k)}
                   /\ \A i \in 1 .. MaxMerges :
                        after[i] = after[i - 1] \cup UNION {OneMore(m, loaded, pool) : m \in after[i - 1]}
                   /\ Merges(Unmerged(k), loaded, pool) = after[MaxMerges]
    BY MergesOneByOne
  <1> DEFINE Good == {i \in 0 .. MaxMerges : \A m \in after[i] : MergeInv(k, m)}
  <1>n. MaxMerges \in Nat
    BY ReviewAssumption
  <1>1. 0 \in Good
    BY <1>n, UnmergedHolds
  <1>2. ASSUME NEW i \in 1 .. MaxMerges, i - 1 \in Good PROVE i \in Good
    <2>1. \A m \in after[i - 1] : MergeInv(k, m)
      BY <1>2
    <2>2. ASSUME NEW m \in after[i - 1], NEW r \in OneMore(m, loaded, pool) PROVE MergeInv(k, r)
      <3> PICK p \in Mergeable(m, loaded, pool) : r = MergeInto(m, loaded, p[1], p[2])
        BY <2>2 DEF OneMore
      <3>1. p[1] # p[2]
        BY DEF Mergeable, Pairs
      <3>2. PICK c, d : c = p[1] /\ d = p[2]
        OBVIOUS
      <3>3. MergeInv(k, MergeInto(m, loaded, c, d))
        BY <2>1, <3>1, <3>2, MergeKeeps
      <3> QED BY <3>2, <3>3
    <2>3. \A m \in after[i] : MergeInv(k, m)
      BY <2>1, <2>2
    <2> QED BY <2>3, <1>n
  <1> HIDE DEF Good
  <1>3. \A i \in 0 .. MaxMerges : i \in Good
    BY <1>n, <1>1, <1>2, UpTo
  <1>4. MaxMerges \in Good
    BY <1>3, <1>n
  <1> QED BY <1>4 DEF Good

-----------------------------------------------------------------------------
(* What the requests of consolidation promise.                                  *)

\* From k to r, where left are the topics of a chain: the units as they are,
\* proposals that only leave the pending state, and topics and units in use.
Promised(k, r, left) ==
  /\ KbShape(r) /\ Live(r) = Live(k) /\ r.review = k.review
  /\ \A u \in ReviewUnits :
       /\ Pending(r, u) => Pending(k, u)
       /\ r.proposals[u].status = "approved" => k.proposals[u].status = "approved"
       /\ k.proposals[u].topic \in k.active => r.proposals[u].topic \in r.active \cup left
  /\ left = {} => UnitsFollow(k, r)

\* Families and rows that come back: more topics in use, and other rows.
LEMMA FilingKeeps ==
  ASSUME NEW k, NEW m, MergeInv(k, m), NEW r \in Filings(m)
  PROVE  Promised(k, r, m.chained)
  <1>a. KbShape(m.kb) /\ SameUnits(k, m.kb)
    BY DEF MergeInv, SameUnits
  <1>1. ASSUME NEW j, KbShape(j), Live(j) = Live(m.kb), j.review = m.kb.review, j.proposals = m.kb.proposals,
               m.kb.active \subseteq j.active, m.chained = {} => UnitsFollow(k, j)
        PROVE  Promised(k, j, m.chained)
    <2>1. SameUnits(k, j)
      BY <1>1, <1>a DEF SameUnits
    <2> QED BY <2>1, <1>1 DEF MergeInv, ProposalsFollow, Promised, SameUnits, Pending
  <1>2. CASE r = m.kb
    BY <1>1, <1>2, <1>a DEF MergeInv, Unchained
  <1>3. ASSUME NEW t, NEW us, r = MeetingFamily(m, t, us) PROVE Promised(k, r, m.chained)
    <2> DEFINE filed == m.kb.filed \cup ({<<u, t, "subject">> : u \in us} \ m.gone)
    <2>1. r = [m.kb EXCEPT !.filed = filed]
      BY <1>3 DEF MeetingFamily
    <2>2. m.kb.filed \subseteq filed
      OBVIOUS
    <2> HIDE DEF filed
    <2>3. r.active = m.kb.active /\ r.filed = filed /\ r.review = m.kb.review /\ r.proposals = m.kb.proposals
          /\ KbShape(r) /\ Live(r) = Live(m.kb)
      BY <2>1, <1>a DEF KbShape, Live
    <2>4. m.chained = {} => UnitsFollow(k, r)
      BY <2>2, <2>3 DEF MergeInv, Unchained, UnitsFollow
    <2> QED BY <2>3, <2>4, <1>1
  <1>4. ASSUME NEW t \in Topics, NEW us, NEW meetings \in Closed(m.joined), t \notin meetings,
               r = AccountingFamily(m, us, t, meetings)
        PROVE  Promised(k, r, m.chained)
    <2> DEFINE c == Curate(m.kb, t)
               filed == {a \in c.filed : ~(a[1] \in us /\ a[2] \in meetings)}
                          \cup ({<<u, t, "subject">> : u \in us} \ m.gone)
    <2>1. /\ KbShape(c) /\ c.active = m.kb.active \cup {t} /\ c.review = m.kb.review
          /\ c.proposals = m.kb.proposals /\ Live(c) = Live(m.kb) /\ c.filed = m.kb.filed
      BY <1>a, CurateFields
    <2>2. r = [c EXCEPT !.filed = filed]
      BY <1>4 DEF AccountingFamily
    <2>3. ASSUME m.chained = {}, NEW a \in k.filed, a[2] \in k.active
          PROVE  \E b \in filed : b[1] = a[1] /\ b[2] \in m.kb.active \cup {t}
      <3>0. Unchained(k, m)
        BY <2>3 DEF MergeInv
      <3> PICK b \in m.kb.filed : b[1] = a[1] /\ b[2] \in m.kb.active
        BY <2>3, <3>0 DEF Unchained, UnitsFollow
      <3> DEFINE row == <<a[1], t, "subject">>
      <3> HIDE DEF c
      <3>1. CASE a[1] \notin us
        BY <3>1, <2>1
      <3>2. CASE a[1] \in us /\ row \notin m.gone
        <4>1. row \in filed
          BY <3>2
        <4> QED BY <4>1
      <3>3. CASE a[1] \in us /\ row \in m.gone
        <4> PICK w \in m.kb.filed : /\ w[1] = row[1] /\ w[2] \in Winners(m.joined)
                                    /\ Alike(m.joined, row[2], w[2])
          BY <3>0, <3>3 DEF Unchained, Replaced
        <4>1. w[2] \notin meetings
          BY <1>4 DEF Alike
        <4>2. w \in filed /\ w[2] \in m.kb.active
          BY <4>1, <2>1, <3>0 DEF Unchained
        <4> QED BY <4>2
      <3> QED BY <3>1, <3>2, <3>3
    <2> HIDE DEF c, filed
    <2>4. r.active = c.active /\ r.filed = filed /\ r.review = c.review /\ r.proposals = c.proposals
          /\ KbShape(r) /\ Live(r) = Live(c)
      BY <2>1, <2>2 DEF KbShape, Live
    <2>5. m.chained = {} => UnitsFollow(k, r)
      BY <2>1, <2>3, <2>4 DEF UnitsFollow
    <2> QED BY <2>1, <2>4, <2>5, <1>1
  <1>5. \/ r = m.kb \/ (\E t, us : r = MeetingFamily(m, t, us))
        \/ \E t \in Topics, us \in SUBSET Live(m.kb), meetings \in Closed(m.joined) :
             t \notin meetings /\ r = AccountingFamily(m, us, t, meetings)
    BY DEF Filings, Closed
  <1> QED BY <1>2, <1>3, <1>4, <1>5

LEMMA SettledKeeps ==
  ASSUME NEW k, NEW j, NEW left, Promised(k, j, left), NEW back,
         NEW r, r = Stored(j, back)
  PROVE  Promised(k, r, left)
  <1> DEFINE filed == j.filed \cup back
             g == [j EXCEPT !.filed = filed]
             settled == [u \in ReviewUnits |->
                          IF Pending(g, u) THEN [g.proposals[u] EXCEPT !.status = "merged"] ELSE g.proposals[u]]
  <1>1. r = [g EXCEPT !.proposals = settled] /\ j.filed \subseteq filed
    BY DEF Settled, Stored
  <1> HIDE DEF filed
  <1>2. /\ g.active = j.active /\ g.filed = filed /\ g.review = j.review /\ g.proposals = j.proposals
        /\ KbShape(g) /\ Live(g) = Live(j)
    BY DEF Promised, KbShape, Live
  <1> HIDE DEF g
  <1>3. ASSUME NEW u \in ReviewUnits
        PROVE  /\ ProposalShape(settled[u]) /\ settled[u].topic = j.proposals[u].topic
               /\ settled[u].status = IF Pending(j, u) THEN "merged" ELSE j.proposals[u].status
    <2>1. ProposalShape(j.proposals[u])
      BY DEF Promised, KbShape
    <2> QED BY <2>1, <1>2 DEF ProposalShape, Pending
  <1>4. settled \in [ReviewUnits -> {settled[u] : u \in ReviewUnits}]
    OBVIOUS
  <1> HIDE DEF settled
  <1>5. /\ r.active = j.active /\ r.filed = filed /\ r.review = j.review /\ r.proposals = settled
        /\ r \in [exists : {r.exists}, active : {r.active}, canonical : {r.canonical}, filed : {r.filed},
             proposals : {r.proposals}, review : {r.review}, doubts : {r.doubts}]
    BY <1>1, <1>2 DEF KbShape
  <1>6. KbShape(r) /\ Live(r) = Live(j)
    BY <1>2, <1>3, <1>4, <1>5 DEF KbShape, Live
  <1>7. left = {} => UnitsFollow(k, r)
    BY <1>1, <1>5 DEF Promised, UnitsFollow
  <1> QED BY <1>3, <1>5, <1>6, <1>7 DEF Promised, Pending

\* A request that keeps these promises keeps the invariant, hands over and keeps
\* approved topics in use.  It may have put topics in use before it merged.
LEMMA PromisedKeeps ==
  ASSUME ReviewInv, scan' = scan, NEW k, Promised(k, kb', chained'), k.filed = kb.filed,
         kb.active \subseteq k.active, k.review = kb.review, k.proposals = kb.proposals, Live(k) = Live(kb)
  PROVE  /\ ReviewInv' /\ StayInUse(kb, kb', chained')
         /\ chained' = {} => HandsOver(kb, kb')
  <1>1. KbShape(kb') /\ (scan' = "assigned" => NothingOpen(kb'))
    BY DEF ReviewInv, Promised, NothingOpen, KbShape, Pending
  <1>2. StayInUse(kb, kb', chained')
    BY DEF Promised, StayInUse, Approved
  <1>3. chained' = {} => HandsOver(kb, kb')
    BY DEF Promised, UnitsFollow, HandsOver, Assigned
  <1> QED BY <1>1, <1>2, <1>3 DEF ReviewInv, KbShape, NothingOpen, Live, Pending, ProposalShape

LEMMA ConsolidationKeeps ==
  ASSUME ReviewInv, Consolidate \/ (MergeTopic /\ chained' = {})
  PROVE  /\ ReviewInv' /\ StayInUse(kb, kb', chained')
         /\ chained' = {} => HandsOver(kb, kb')
  <1>1. CASE MergeTopic /\ chained' = {}
    <2> PICK p \in Mergeable(Unmerged(kb), kb, kb.exists) :
          kb' = MergeInto(Unmerged(kb), kb, p[1], p[2]).kb /\ scan' = scan
      BY <1>1 DEF MergeTopic
    <2> PICK c, d : c = p[1] /\ d = p[2]
      OBVIOUS
    <2> DEFINE m == MergeInto(Unmerged(kb), kb, c, d)
    <2>1. c # d
      BY DEF Mergeable, Pairs
    <2>2. MergeInv(kb, m)
      BY <2>1, UnmergedHolds, MergeKeeps DEF ReviewInv
    <2>3. m.chained = {}
      BY DEF MergeInto, Unmerged
    <2> HIDE DEF m
    <2>4. Promised(kb, m.kb, m.chained)
      BY <2>2, FilingKeeps DEF Filings
    <2>5. Promised(kb, kb', chained')
      BY <1>1, <2>3, <2>4 DEF m
    <2> QED BY <2>5, PromisedKeeps
  <1>2. CASE Consolidate
    <2> DEFINE pool == IF kb.active # {} THEN kb.active ELSE kb.exists
               k == Kept(kb, pool)
    <2>1. PICK o \in UNION {Outcomes(m) : m \in Merges(Unmerged(k), kb, pool)} :
            kb' = o.kb /\ chained' = o.chained /\ scan' = scan
      BY <1>2 DEF Consolidate
    <2> HIDE DEF pool
    <2>2. /\ KbShape(k) /\ k.active = kb.active \cup pool /\ k.filed = kb.filed
          /\ k.review = kb.review /\ k.proposals = kb.proposals /\ Live(k) = Live(kb)
      BY DEF ReviewInv, Kept, KbShape, Live
    <2> HIDE DEF k
    <2>3. PICK m \in Merges(Unmerged(k), kb, pool) : o \in Outcomes(m)
      BY <2>1
    <2>4. MergeInv(k, m)
      BY <2>2, <2>3, MergesKeep
    <2>5. PICK j \in Filings(m), back \in SUBSET m.moved : o = [kb |-> Stored(j, back), chained |-> m.chained]
      BY <2>3 DEF Outcomes
    <2>6. Promised(k, j, m.chained)
      BY <2>4, FilingKeeps
    <2>7. Promised(k, kb', chained')
      <3>1. kb' = Stored(j, back) /\ chained' = m.chained
        BY <2>1, <2>5
      <3> QED BY <2>6, <3>1, SettledKeeps
    <2> QED BY <2>1, <2>2, <2>7, PromisedKeeps
  <1> QED BY <1>1, <1>2

LEMMA ReviewStarts == ReviewInit => ReviewInv
  <1> SUFFICES ASSUME ReviewInit PROVE ReviewInv
    OBVIOUS
  <1>1. /\ kb.review = [u \in ReviewUnits |-> "accepted"] /\ kb.proposals = [u \in ReviewUnits |-> NoProposal]
        /\ kb \in [exists : {kb.exists}, active : {kb.active}, canonical : {kb.canonical}, filed : {kb.filed},
             proposals : {kb.proposals}, review : {kb.review}, doubts : {kb.doubts}]
        /\ scan = "processing"
    BY DEF ReviewInit
  <1>2. ProposalShape(NoProposal) /\ NoProposal.status = "none"
    BY DEF ProposalShape, NoProposal
  <1>3. Live(kb) = ReviewUnits
    BY <1>1 DEF Live
  <1> QED BY <1>1, <1>2, <1>3 DEF ReviewInv, KbShape

LEMMA ReviewStep ==
  ASSUME ReviewInv, ReviewNext
  PROVE  /\ ReviewInv' /\ StayInUse(kb, kb', chained')
         /\ chained' = {} => HandsOver(kb, kb')
  <1>1. CASE ReviewInv' /\ HandsOver(kb, kb') /\ StayInUse(kb, kb', {})
    BY <1>1 DEF StayInUse
  <1>2. CASE \/ CleanupReads \/ CleanupDeletes
             \/ Finalize \/ MarkScanReviewed \/ CreateTopic \/ MakeSecondary
             \/ \E u \in ReviewUnits :
                  \/ SpecialistStores(u) \/ Approve(u) \/ Reject(u) \/ ReviewUnit(u) \/ MarkUnitReviewed(u)
                  \/ AddAssignment(u) \/ DeleteAssignment(u) \/ DeleteUnit(u)
    BY <1>1, <1>2, FinalizeKeeps, ApproveKeeps, RejectKeeps, UnitReviewsKeep, ScanReviewsKeep, CleanupKeeps
  <1>3. CASE Consolidate \/ (MergeTopic /\ chained' = {})
    BY <1>3, ConsolidationKeeps
  <1> QED BY <1>2, <1>3 DEF ReviewNext, Decide

LEMMA ReviewInvHolds == ReviewSpec => []ReviewInv
  <1>1. ReviewInv /\ [ReviewNext]_reviewVars => ReviewInv'
    <2>1. ReviewInv /\ UNCHANGED reviewVars => ReviewInv'
      BY DEF reviewVars, ReviewInv
    <2> QED BY <2>1, ReviewStep
  <1> QED BY <1>1, ReviewStarts, PTL DEF ReviewSpec

\* Whatever endpoints, consolidations, merges and cleanups do in whatever order,
\* a scan shown as assigned has no pending proposal and no unit to be reviewed:
\* the handlers that may open a unit again refresh the scan (knowledge.py:518),
\* and those that do not refresh it close units only.
THEOREM AssignedScansAreReviewed == ReviewSpec => []AssignedScanIsReviewed
  <1>1. ReviewInv => AssignedScanIsReviewed
    BY DEF ReviewInv, NothingOpen, AssignedScanIsReviewed
  <1> QED BY <1>1, ReviewInvHolds, PTL

\* However many topics one consolidation merges, in whatever order: the topic of an
\* approved proposal stays in use, or is one that took a topic in and was then
\* merged itself (a list of proposals is loaded once, consolidation.py:795).  A
\* cleanup that read the topic before it was approved fails on the reference of
\* the proposal (knowledge.py:5502).
THEOREM ApprovedTopicsStayActive == ReviewSpec => ApprovedTopicIsActive
  <1> DEFINE A == \A u \in ReviewUnits :
                    Approved(kb', u) /\ (Approved(kb, u) => kb.proposals[u].topic \in kb.active)
                      => kb'.proposals[u].topic \in kb'.active \cup chained'
  <1>1. ReviewInv /\ [ReviewNext]_reviewVars => [A]_reviewVars
    <2>1. StayInUse(kb, kb', chained') => A
      BY DEF StayInUse
    <2> HIDE DEF A
    <2> QED BY <2>1, ReviewStep
  <1>2. ApprovedTopicIsActive <=> [][A]_reviewVars
    BY DEF ApprovedTopicIsActive
  <1> QED BY <1>1, <1>2, ReviewInvHolds, PTL DEF ReviewSpec

\* No step takes a topic out of use without filing its units under an active one,
\* however many topics one consolidation merges, unless it merges a topic that took
\* another in before: the row that makes one a double may itself be deleted then
\* (consolidation.py:771).
THEOREM MergedTopicsHandOver == ReviewSpec => MergedTopicHandsOver
  <1> DEFINE A == chained' = {} =>
                    \A t \in kb.active : t \in kb'.exists \ kb'.active =>
                      \A a \in Assigned(kb, t) : \E b \in kb'.filed : b[1] = a[1] /\ b[2] \in kb'.active
  <1>1. ReviewInv /\ [ReviewNext]_reviewVars => [A]_reviewVars
    <2>1. (chained' = {} => HandsOver(kb, kb')) => A
      BY DEF HandsOver
    <2> HIDE DEF A
    <2> QED BY <2>1, ReviewStep
  <1>2. MergedTopicHandsOver <=> [][A]_reviewVars
    BY DEF MergedTopicHandsOver
  <1> QED BY <1>1, <1>2, ReviewInvHolds, PTL DEF ReviewSpec

-----------------------------------------------------------------------------
(* SemanticProjection: the contexts and the graph follow the entities.          *)

IsOrganization(e) == e[1] = "organizzazione"

\* The eligible entities are ranked once each, organisations first.
LEMMA RankedOnce ==
  ASSUME NEW us, NEW kn, kn.exists \in SUBSET Entities
  PROVE  LET r == Ranked(us, kn)
         IN  /\ r \in Seq(Entities) /\ IsInjective(r)
             /\ \A e : e \in Eligible(us, kn) <=> \E i \in DOMAIN r : r[i] = e
             /\ \A i, j \in DOMAIN r : i < j /\ IsOrganization(r[j]) => IsOrganization(r[i])
  <1> DEFINE A == {e \in Eligible(us, kn) : e[1] = "organizzazione"}
             B == {e \in Eligible(us, kn) : e[1] = "indirizzo"}
             a == SetToSeq(A)
             b == SetToSeq(B)
             r == a \o b
  <1>1. A \subseteq Entities /\ B \subseteq Entities
    BY DEF Eligible
  <1>2. \A e : e \in Eligible(us, kn) => e \in A \/ e \in B
    <2>1. \A e \in Entities : e[1] = "organizzazione" \/ e[1] = "indirizzo"
      BY DEF Entities
    <2> QED BY <2>1 DEF Eligible
  <1>3. \A e : ~(e \in A /\ e \in B)
    OBVIOUS
  <1>4. IsFiniteSet(Entities)
    <2>1. IsFiniteSet({"organizzazione"}) /\ IsFiniteSet({"indirizzo"})
      BY FS_Singleton
    <2>2. IsFiniteSet({"organizzazione"} \X Organizations) /\ IsFiniteSet({"indirizzo"} \X Addresses)
      BY <2>1, SpellingsAssumption, FS_Product
    <2> QED BY <2>2, FS_Union DEF Entities
  <1>5. \A e \in A : IsOrganization(e)
    BY DEF IsOrganization
  <1>6. \A e \in B : ~IsOrganization(e)
    BY DEF IsOrganization
  <1>7. A \subseteq Eligible(us, kn) /\ B \subseteq Eligible(us, kn)
    OBVIOUS
  <1>8. Ranked(us, kn) = r
    BY DEF Ranked
  <1> HIDE DEF A, B
  <1>9. IsFiniteSet(A) /\ IsFiniteSet(B)
    BY <1>1, <1>4, FS_Subset
  <1>10. a \in Seq(A) /\ IsInjective(a) /\ \A x \in A : \E i \in DOMAIN a : a[i] = x
    BY <1>9, ListedOnce
  <1>11. b \in Seq(B) /\ IsInjective(b) /\ \A x \in B : \E i \in DOMAIN b : b[i] = x
    BY <1>9, ListedOnce
  <1> HIDE DEF a, b
  <1> DEFINE n == Len(a)
             m == Len(b)
  <1>12. /\ n \in Nat /\ m \in Nat /\ DOMAIN a = 1 .. n /\ DOMAIN b = 1 .. m
         /\ \A i \in 1 .. n : a[i] \in A
         /\ \A i \in 1 .. m : b[i] \in B
    BY <1>10, <1>11, LenProperties, ElementOfSeq
  <1>13. a \in Seq(Entities) /\ b \in Seq(Entities)
    BY <1>1, <1>10, <1>11
  <1>14. r \in Seq(Entities) /\ Len(r) = n + m /\ \A i \in 1 .. n + m : r[i] = IF i <= n THEN a[i] ELSE b[i - n]
    BY <1>13, ConcatProperties
  <1>15. DOMAIN r = 1 .. n + m
    BY <1>14, LenProperties
  <1> HIDE DEF r, n, m
  <1>16. \A i \in 1 .. n + m : \/ i \in 1 .. n /\ i <= n
                               \/ i - n \in 1 .. m /\ ~(i <= n)
    BY <1>12
  <1>17. \A i \in 1 .. n : i \in 1 .. n + m /\ i <= n
    BY <1>12
  <1>18. \A i \in 1 .. m : i + n \in 1 .. n + m /\ ~(i + n <= n) /\ (i + n) - n = i
    BY <1>12
  <1>19. ASSUME NEW i \in 1 .. n + m
         PROVE  \/ i \in 1 .. n /\ r[i] = a[i] /\ r[i] \in A
                \/ i - n \in 1 .. m /\ ~(i <= n) /\ r[i] = b[i - n] /\ r[i] \in B
    BY <1>12, <1>14, <1>16
  <1>20. IsInjective(r)
    <2> SUFFICES ASSUME NEW i \in 1 .. n + m, NEW j \in 1 .. n + m, r[i] = r[j] PROVE i = j
      BY <1>15 DEF IsInjective
    <2>1. CASE i \in 1 .. n /\ r[i] = a[i] /\ r[i] \in A
      <3>1. j \in 1 .. n /\ r[j] = a[j]
        BY <1>3, <1>19, <2>1
      <3> QED BY <1>10, <1>12, <2>1, <3>1 DEF IsInjective
    <2>2. CASE i - n \in 1 .. m /\ r[i] = b[i - n] /\ r[i] \in B
      <3>1. j - n \in 1 .. m /\ r[j] = b[j - n]
        BY <1>3, <1>19, <2>2
      <3>2. i - n = j - n
        BY <1>11, <1>12, <2>2, <3>1 DEF IsInjective
      <3> QED BY <1>12, <3>2
    <2> QED BY <1>19, <2>1, <2>2
  <1>21. ASSUME NEW e PROVE e \in Eligible(us, kn) <=> \E i \in DOMAIN r : r[i] = e
    <2>1. ASSUME e \in A PROVE \E i \in 1 .. n + m : r[i] = e
      <3>1. PICK i \in 1 .. n : a[i] = e
        BY <1>10, <1>12, <2>1
      <3> QED BY <1>14, <1>17, <3>1
    <2>2. ASSUME e \in B PROVE \E i \in 1 .. n + m : r[i] = e
      <3>1. PICK i \in 1 .. m : b[i] = e
        BY <1>11, <1>12, <2>2
      <3>2. i + n \in 1 .. n + m /\ r[i + n] = b[i]
        BY <1>14, <1>18
      <3> QED BY <3>1, <3>2
    <2>3. ASSUME NEW i \in 1 .. n + m PROVE r[i] \in Eligible(us, kn)
      BY <1>7, <1>19
    <2> QED BY <1>2, <1>15, <2>1, <2>2, <2>3
  <1>22. ASSUME NEW i \in 1 .. n + m, NEW j \in 1 .. n + m, i < j, IsOrganization(r[j]) PROVE IsOrganization(r[i])
    <2>1. j \in 1 .. n
      BY <1>6, <1>19, <1>22
    <2>2. i <= n
      BY <1>12, <1>22, <2>1
    <2> QED BY <1>5, <1>19, <2>2
  <1> QED BY <1>8, <1>14, <1>15, <1>20, <1>21, <1>22

-----------------------------------------------------------------------------
\* What joining the first i ranked entities gives: disjoint groups of them, each
\* with one organisation at most.
GroupsUpTo(gs, r, i) ==
  /\ gs \in Seq(SUBSET Entities)
  /\ \A a \in DOMAIN gs : gs[a] # {}
  /\ \A a, b \in DOMAIN gs : gs[a] \cap gs[b] # {} => a = b
  /\ \A a \in DOMAIN gs : \A e \in gs[a] : \E j \in 1 .. i : r[j] = e
  /\ \A j \in 1 .. i : \E a \in DOMAIN gs : r[j] \in gs[a]
  /\ \A a \in DOMAIN gs : \A e, f \in gs[a] : IsOrganization(e) /\ IsOrganization(f) => e = f

JoinsOne(gs, e, new) ==
  \/ new = Append(gs, {e})
  \/ \E h \in DOMAIN gs : (\E f \in gs[h] : CanShare(f, e)) /\ new = [gs EXCEPT ![h] = @ \cup {e}]

LEMMA JoinIsGroup ==
  ASSUME NEW us, NEW kn, NEW gs \in Seq(SUBSET Entities), NEW e \in Entities
  PROVE  Join(us, kn, gs, e) \in Seq(SUBSET Entities) /\ JoinsOne(gs, e, Join(us, kn, gs, e))
  <1> DEFINE docs(f) == DocumentsOf(us, kn, f)
             fits(g) == docs(e) = docs(CHOOSE f \in g : TRUE) /\ \E f \in g : CanShare(f, e)
             hosts == {i \in DOMAIN gs : fits(gs[i])}
             h == CHOOSE i \in hosts : \A j \in hosts : i <= j
  <1>1. Join(us, kn, gs, e) = IF Cardinality(docs(e)) < 2 \/ hosts = {} THEN Append(gs, {e})
                              ELSE [gs EXCEPT ![h] = @ \cup {e}]
    BY DEF Join
  <1>2. CASE Cardinality(docs(e)) < 2 \/ hosts = {}
    <2>1. {e} \in SUBSET Entities
      OBVIOUS
    <2>2. Join(us, kn, gs, e) = Append(gs, {e})
      BY <1>1, <1>2
    <2>3. Append(gs, {e}) \in Seq(SUBSET Entities)
      BY <2>1, AppendProperties
    <2> HIDE DEF hosts, h
    <2> QED BY <2>2, <2>3 DEF JoinsOne
  <1>3. CASE ~(Cardinality(docs(e)) < 2 \/ hosts = {})
    <2>0. DOMAIN gs \subseteq Nat
      BY LenProperties
    <2>1. hosts \in SUBSET Nat /\ hosts # {} /\ hosts \subseteq DOMAIN gs
      <3> HIDE DEF fits
      <3> QED BY <1>3, <2>0
    <2>2. \A i \in hosts : \E f \in gs[i] : CanShare(f, e)
      OBVIOUS
    <2>3. Join(us, kn, gs, e) = [gs EXCEPT ![h] = @ \cup {e}]
      BY <1>1, <1>3
    <2> HIDE DEF hosts
    <2>4. h \in hosts
      BY <2>1, LeastExists
    <2>5. h \in DOMAIN gs /\ gs[h] \in SUBSET Entities
      BY <2>1, <2>4, ElementOfSeq, LenProperties
    <2>6. [gs EXCEPT ![h] = @ \cup {e}] \in Seq(SUBSET Entities)
      <3> DEFINE x == gs[h] \cup {e}
      <3>1. x \in SUBSET Entities
        BY <2>5
      <3>2. [gs EXCEPT ![h] = @ \cup {e}] = [gs EXCEPT ![h] = x]
        OBVIOUS
      <3> HIDE DEF x, h
      <3> QED BY <2>5, <3>1, <3>2, ExceptSeq
    <2> HIDE DEF h
    <2> QED BY <2>2, <2>3, <2>4, <2>5, <2>6 DEF JoinsOne
  <1> QED BY <1>2, <1>3

LEMMA JoinExtends ==
  ASSUME NEW us, NEW kn, NEW r \in Seq(Entities), IsInjective(r),
         \A i, j \in DOMAIN r : i < j /\ IsOrganization(r[j]) => IsOrganization(r[i]),
         NEW i \in DOMAIN r, NEW gs, GroupsUpTo(gs, r, i - 1)
  PROVE  GroupsUpTo(Join(us, kn, gs, r[i]), r, i)
  <1> DEFINE e == r[i]
             new == Join(us, kn, gs, r[i])
             n == Len(gs)
  <1>1. /\ i \in Nat \ {0}
        /\ \A j \in 1 .. i : j \in DOMAIN r /\ (j = i \/ j \in 1 .. i - 1)
        /\ \A j \in 1 .. i - 1 : j \in 1 .. i /\ j < i /\ j # i /\ j \in DOMAIN r
    BY LenProperties
  <1>2. e \in Entities
    BY LenProperties, ElementOfSeq
  <1>3. gs \in Seq(SUBSET Entities)
    BY DEF GroupsUpTo
  <1>31. \A a \in DOMAIN gs : gs[a] # {}
    BY DEF GroupsUpTo
  <1>32. \A a, b \in DOMAIN gs : \A x : x \in gs[a] /\ x \in gs[b] => a = b
    BY DEF GroupsUpTo
  <1>33. \A a \in DOMAIN gs : \A x \in gs[a] : \E j \in 1 .. i - 1 : r[j] = x
    BY DEF GroupsUpTo
  <1>34. \A j \in 1 .. i - 1 : \E a \in DOMAIN gs : r[j] \in gs[a]
    BY DEF GroupsUpTo
  <1>35. \A a \in DOMAIN gs : \A x, y \in gs[a] : IsOrganization(x) /\ IsOrganization(y) => x = y
    BY DEF GroupsUpTo
  <1>4. \A a \in DOMAIN gs : e \notin gs[a]
    BY <1>1, <1>33 DEF IsInjective
  <1>5. \A a \in DOMAIN gs : \A f \in gs[a] : IsOrganization(e) => IsOrganization(f)
    BY <1>1, <1>33
  <1>6. /\ new \in Seq(SUBSET Entities)
        /\ \/ new = Append(gs, {e})
           \/ \E h \in DOMAIN gs : (\E f \in gs[h] : CanShare(f, e)) /\ new = [gs EXCEPT ![h] = @ \cup {e}]
    <2> HIDE DEF e
    <2>1. Join(us, kn, gs, e) \in Seq(SUBSET Entities) /\ JoinsOne(gs, e, Join(us, kn, gs, e))
      BY <1>2, <1>3, JoinIsGroup
    <2>2. new = Join(us, kn, gs, e)
      BY DEF e
    <2> HIDE DEF new
    <2> QED BY <2>1, <2>2 DEF JoinsOne
  <1> HIDE DEF new, e
  <1> SUFFICES /\ \A a \in DOMAIN new : new[a] # {}
               /\ \A a, b \in DOMAIN new : \A x : x \in new[a] /\ x \in new[b] => a = b
               /\ \A a \in DOMAIN new : \A x \in new[a] : \E j \in 1 .. i : r[j] = x
               /\ \A j \in 1 .. i : \E a \in DOMAIN new : r[j] \in new[a]
               /\ \A a \in DOMAIN new : \A x, y \in new[a] : IsOrganization(x) /\ IsOrganization(y) => x = y
    BY <1>6 DEF GroupsUpTo, new, e
  <1>7. CASE new = Append(gs, {e})
    <2>1. n \in Nat /\ DOMAIN gs = 1 .. n /\ {e} \in SUBSET Entities
      BY <1>2, <1>3, LenProperties
    <2>2. DOMAIN new = 1 .. n + 1 /\ new[n + 1] = {e} /\ \A a \in 1 .. n : new[a] = gs[a]
      BY <1>3, <1>6, <1>7, <2>1, AppendProperties, LenProperties
    <2>3. \A a \in 1 .. n + 1 : a \in 1 .. n \/ a = n + 1
      BY <2>1
    <2>4. \A a \in 1 .. n : a \in 1 .. n + 1 /\ a # n + 1
      BY <2>1
    <2>5. n + 1 \in 1 .. n + 1
      BY <2>1
    <2> DEFINE m == n + 1
    <2>6. /\ DOMAIN new = 1 .. m /\ new[m] = {e} /\ m \in 1 .. m
          /\ \A a \in 1 .. m : a = m \/ (a \in DOMAIN gs /\ new[a] = gs[a])
          /\ \A a \in DOMAIN gs : a \in 1 .. m /\ new[a] = gs[a]
      BY <2>1, <2>2, <2>3, <2>4, <2>5
    <2> HIDE DEF m, n
    <2>7. \A a \in DOMAIN new : new[a] # {}
      BY <1>31, <2>6
    <2>8. \A a, b \in DOMAIN new : \A x : x \in new[a] /\ x \in new[b] => a = b
      BY <1>32, <1>4, <2>6
    <2>9. \A a \in DOMAIN new : \A x \in new[a] : \E j \in 1 .. i : r[j] = x
      <3>1. i \in 1 .. i /\ r[i] = e
        BY <1>1 DEF e
      <3> QED BY <1>1, <1>33, <2>6, <3>1
    <2>10. ASSUME NEW j \in 1 .. i PROVE \E a \in DOMAIN new : r[j] \in new[a]
      <3>1. CASE j = i
        BY <2>6, <3>1 DEF e
      <3>2. CASE j \in 1 .. i - 1
        BY <1>34, <2>6, <3>2
      <3> QED BY <1>1, <3>1, <3>2
    <2>11. \A a \in DOMAIN new : \A x, y \in new[a] : IsOrganization(x) /\ IsOrganization(y) => x = y
      BY <1>35, <2>6
    <2> QED BY <2>7, <2>8, <2>9, <2>10, <2>11
  <1>8. ASSUME NEW h \in DOMAIN gs, NEW f \in gs[h], CanShare(f, e), new = [gs EXCEPT ![h] = @ \cup {e}]
        PROVE  /\ \A a \in DOMAIN new : new[a] # {}
               /\ \A a, b \in DOMAIN new : \A x : x \in new[a] /\ x \in new[b] => a = b
               /\ \A a \in DOMAIN new : \A x \in new[a] : \E j \in 1 .. i : r[j] = x
               /\ \A j \in 1 .. i : \E a \in DOMAIN new : r[j] \in new[a]
               /\ \A a \in DOMAIN new : \A x, y \in new[a] : IsOrganization(x) /\ IsOrganization(y) => x = y
    <2>1. ~IsOrganization(e)
      <3> SUFFICES ASSUME IsOrganization(e) PROVE FALSE
        OBVIOUS
      <3>1. IsOrganization(f)
        BY <1>5
      <3> QED BY <1>8, <3>1 DEF CanShare, IsOrganization
    <2>2. DOMAIN new = DOMAIN gs /\ \A a \in DOMAIN gs : new[a] = IF a = h THEN gs[h] \cup {e} ELSE gs[a]
      BY <1>8
    <2>3. \A a \in DOMAIN gs : \A x : x \in new[a] <=> x \in gs[a] \/ (a = h /\ x = e)
      BY <2>2
    <2>4. \A a \in DOMAIN new : new[a] # {}
      BY <1>31, <2>2
    <2>5. \A a, b \in DOMAIN new : \A x : x \in new[a] /\ x \in new[b] => a = b
      <3> SUFFICES ASSUME NEW a \in DOMAIN gs, NEW b \in DOMAIN gs, NEW x, x \in new[a], x \in new[b] PROVE a = b
        BY <2>2
      <3> QED BY <1>32, <1>4, <2>3
    <2>6. \A a \in DOMAIN new : \A x \in new[a] : \E j \in 1 .. i : r[j] = x
      <3>1. i \in 1 .. i /\ r[i] = e
        BY <1>1 DEF e
      <3> QED BY <1>1, <1>33, <2>2, <2>3, <3>1
    <2>7. ASSUME NEW j \in 1 .. i PROVE \E a \in DOMAIN new : r[j] \in new[a]
      <3>1. CASE j = i
        BY <2>2, <2>3, <3>1 DEF e
      <3>2. CASE j \in 1 .. i - 1
        BY <1>34, <2>2, <2>3, <3>2
      <3> QED BY <1>1, <3>1, <3>2
    <2>8. \A a \in DOMAIN new : \A x, y \in new[a] : IsOrganization(x) /\ IsOrganization(y) => x = y
      BY <1>35, <2>1, <2>2, <2>3
    <2> QED BY <2>4, <2>5, <2>6, <2>7, <2>8
  <1> QED BY <1>6, <1>7, <1>8

-----------------------------------------------------------------------------
IsJoined(f, us, kn, r) ==
  f = [i \in 0 .. Len(r) |-> IF i = 0 THEN <<>> ELSE Join(us, kn, f[i - 1], r[i])]

LEMMA JoinedOneByOne ==
  ASSUME NEW us, NEW kn, NEW r \in Seq(Entities)
  PROVE  \E f : IsJoined(f, us, kn, r)
  <1>1. \A n \in Nat : n = Len(r) => \E f \in [0 .. n -> Seq(SUBSET Entities)] :
            f = [i \in 0 .. n |-> IF i = 0 THEN <<>> ELSE Join(us, kn, f[i - 1], r[i])]
    <2> SUFFICES ASSUME NEW n \in Nat, n = Len(r)
                 PROVE  \E f \in [0 .. n -> Seq(SUBSET Entities)] :
                          f = [i \in 0 .. n |-> IF i = 0 THEN <<>> ELSE Join(us, kn, f[i - 1], r[i])]
      OBVIOUS
    <2> DEFINE S == Seq(SUBSET Entities)
               step == [x \in (1 .. n) \X S |-> Join(us, kn, x[2], r[x[1]])]
    <2>1. \A i \in 1 .. n : r[i] \in Entities
      BY ElementOfSeq, LenProperties
    <2>2. \A i \in 1 .. n : \A p \in S : Join(us, kn, p, r[i]) \in S
      BY <2>1, JoinIsGroup
    <2>3. <<>> \in S
      OBVIOUS
    <2> HIDE DEF S
    <2>4. step \in [(1 .. n) \X S -> S]
      BY <2>2
    <2>5. \A i \in 1 .. n : \A p \in S : step[<<i, p>>] = Join(us, kn, p, r[i])
      OBVIOUS
    <2> HIDE DEF step
    <2>6. PICK f \in [0 .. n -> S] : IsRecursion(f, n, <<>>, step)
      BY <2>3, <2>4, RecursionExists
    <2>7. f[0] = <<>> /\ \A i \in 1 .. n : f[i] = step[<<i, f[i - 1]>>]
      BY <2>6 DEF IsRecursion
    <2>8. ASSUME NEW i \in 0 .. n PROVE f[i] = IF i = 0 THEN <<>> ELSE Join(us, kn, f[i - 1], r[i])
      <3>1. CASE i = 0
        BY <2>7, <3>1
      <3>2. CASE i # 0
        <4>1. i \in 1 .. n /\ i - 1 \in 0 .. n
          BY <3>2
        <4>2. f[i - 1] \in S
          BY <4>1
        <4> QED BY <2>5, <2>7, <3>2, <4>1, <4>2
      <3> QED BY <3>1, <3>2
    <2>9. f = [i \in 0 .. n |-> f[i]]
      OBVIOUS
    <2> QED BY <2>8, <2>9 DEF S
  <1>2. Len(r) \in Nat
    BY LenProperties
  <1> QED BY <1>1, <1>2 DEF IsJoined

\* The groups are disjoint, hold the eligible entities, and one organisation each.
GroupsOf(gs, entities) ==
  /\ UNION gs = entities
  /\ \A g \in gs : g # {} /\ g \subseteq Entities
  /\ \A g, h \in gs : \A x : x \in g /\ x \in h => g = h
  /\ \A g \in gs : \A e, f \in g : IsOrganization(e) /\ IsOrganization(f) => e = f

LEMMA GroupsPartition ==
  ASSUME NEW us, NEW kn, kn.exists \in SUBSET Entities
  PROVE  GroupsOf(Groups(us, kn), Eligible(us, kn))
  <1> DEFINE r == Ranked(us, kn)
             n == Len(r)
             Rec(f) == f = [i \in 0 .. n |-> IF i = 0 THEN <<>> ELSE Join(us, kn, f[i - 1], r[i])]
             joined == CHOOSE f : Rec(f)
             P == {i \in 0 .. n : GroupsUpTo(joined[i], r, i)}
  <1>1. Groups(us, kn) = ToSet(joined[n])
    BY DEF Groups
  <1>2. /\ r \in Seq(Entities) /\ IsInjective(r)
        /\ \A e : e \in Eligible(us, kn) <=> \E i \in DOMAIN r : r[i] = e
        /\ \A i, j \in DOMAIN r : i < j /\ IsOrganization(r[j]) => IsOrganization(r[i])
    BY RankedOnce
  <1> HIDE DEF r
  <1>3. n \in Nat /\ DOMAIN r = 1 .. n
    BY <1>2, LenProperties
  <1>4. \E f : Rec(f)
    <2>1. \E f : IsJoined(f, us, kn, r)
      BY <1>2, JoinedOneByOne
    <2> QED BY <2>1 DEF IsJoined
  <1>5. Rec(joined)
    <2> HIDE DEF Rec
    <2> QED BY <1>4
  <1> HIDE DEF joined
  <1>6. joined[0] = <<>> /\ \A i \in 1 .. n : joined[i] = Join(us, kn, joined[i - 1], r[i])
    BY <1>3, <1>5
  <1> HIDE DEF n, Rec
  <1>7. GroupsUpTo(<<>>, r, 0)
    BY DEF GroupsUpTo
  <1>8. ASSUME NEW i \in 1 .. n, i - 1 \in P PROVE i \in P
    <2>1. GroupsUpTo(joined[i - 1], r, i - 1)
      BY <1>8
    <2>2. GroupsUpTo(Join(us, kn, joined[i - 1], r[i]), r, i)
      BY <1>2, <1>3, <2>1, JoinExtends
    <2>3. i \in 0 .. n
      BY <1>3
    <2> QED BY <1>6, <2>2, <2>3
  <1>9. 0 \in P
    BY <1>3, <1>6, <1>7
  <1>10. n \in P
    <2> HIDE DEF P
    <2>1. \A i \in 0 .. n : i \in P
      BY <1>3, <1>8, <1>9, UpTo
    <2> QED BY <1>3, <2>1
  <1> DEFINE gs == joined[n]
  <1>11. GroupsUpTo(gs, r, n)
    BY <1>10
  <1> HIDE DEF gs, P
  <1>12. \A a \in DOMAIN gs : gs[a] # {} /\ gs[a] \subseteq Entities
    BY <1>11, LenProperties, ElementOfSeq DEF GroupsUpTo
  <1>13. \A a, b \in DOMAIN gs : \A x : x \in gs[a] /\ x \in gs[b] => a = b
    BY <1>11 DEF GroupsUpTo
  <1>14. \A e : e \in Eligible(us, kn) <=> \E a \in DOMAIN gs : e \in gs[a]
    <2>1. \A a \in DOMAIN gs : \A e \in gs[a] : \E j \in 1 .. n : r[j] = e
      BY <1>11 DEF GroupsUpTo
    <2>2. \A j \in 1 .. n : \E a \in DOMAIN gs : r[j] \in gs[a]
      BY <1>11 DEF GroupsUpTo
    <2> QED BY <1>2, <1>3, <2>1, <2>2
  <1>15. \A a \in DOMAIN gs : \A e, f \in gs[a] : IsOrganization(e) /\ IsOrganization(f) => e = f
    BY <1>11 DEF GroupsUpTo
  <1>16. \A g : g \in ToSet(gs) <=> \E a \in DOMAIN gs : gs[a] = g
    BY DEF ToSet
  <1>17. UNION ToSet(gs) = Eligible(us, kn)
    BY <1>14, <1>16
  <1>18. \A g \in ToSet(gs) : g # {} /\ g \subseteq Entities
    BY <1>12, <1>16
  <1>19. \A g, h \in ToSet(gs) : \A x : x \in g /\ x \in h => g = h
    BY <1>13, <1>16
  <1>20. \A g \in ToSet(gs) : \A e, f \in g : IsOrganization(e) /\ IsOrganization(f) => e = f
    BY <1>15, <1>16
  <1>21. GroupsOf(ToSet(gs), Eligible(us, kn))
    BY <1>17, <1>18, <1>19, <1>20 DEF GroupsOf
  <1> QED BY <1>1, <1>21 DEF gs

-----------------------------------------------------------------------------
\* The contexts anchor the groups: each under its primary entity.
Anchored(cs) ==
  \A c \in DOMAIN cs :
    /\ c \in cs[c].anchors
    /\ \A d \in DOMAIN cs : cs[c].anchors \cap cs[d].anchors # {} => c = d
    /\ \A e, f \in cs[c].anchors : IsOrganization(e) /\ IsOrganization(f) => e = f
    /\ cs[c].anchors \subseteq Entities
ContextsOf(cs, us, kn) ==
  /\ UNION {cs[c].anchors : c \in DOMAIN cs} = Eligible(us, kn)
  /\ \A c \in DOMAIN cs :
       {m[1] : m \in cs[c].members} =
         {u \in DOMAIN us : \E e \in cs[c].anchors : u[1] \in DocumentsOf(us, kn, e)}

LEMMA PrimaryIsAnchor ==
  ASSUME NEW g, g # {}
  PROVE  Primary(g) \in g
  <1> DEFINE ranked == {e \in g : \A f \in g : f[1] = "organizzazione" => e[1] = "organizzazione"}
  <1>1. ranked # {}
    <2>1. CASE \E e \in g : e[1] = "organizzazione"
      BY <2>1
    <2>2. CASE ~\E e \in g : e[1] = "organizzazione"
      BY <2>2
    <2> QED BY <2>1, <2>2
  <1> QED BY <1>1 DEF Primary

LEMMA MembersOfGroup ==
  ASSUME NEW us, NEW kn, NEW g
  PROVE  {m[1] : m \in Membership(us, kn, g)} =
           {u \in DOMAIN us : \E e \in g : u[1] \in DocumentsOf(us, kn, e)}
  <1> DEFINE U == UNION {UnitsOf(us, d) : d \in UNION {DocumentsOf(us, kn, e) : e \in g}}
             role(u) == IF Direct(us, kn, u) \cap g # {} THEN "direct" ELSE "document_scope"
  <1>1. U = {u \in DOMAIN us : \E e \in g : u[1] \in DocumentsOf(us, kn, e)}
    BY DEF UnitsOf
  <1>2. Membership(us, kn, g) = {<<u, role(u)>> : u \in U}
    BY DEF Membership
  <1> HIDE DEF U, role
  <1>3. {m[1] : m \in {<<u, role(u)>> : u \in U}} = U
    <2> DEFINE M == {<<u, role(u)>> : u \in U}
    <2>1. ASSUME NEW m \in M PROVE m[1] \in U
      BY <2>1
    <2>2. ASSUME NEW u \in U PROVE \E m \in M : m[1] = u
      <3>1. <<u, role(u)>> \in M /\ <<u, role(u)>>[1] = u
        OBVIOUS
      <3> QED BY <3>1
    <2> HIDE DEF M
    <2>3. {m[1] : m \in M} = U
      BY <2>1, <2>2
    <2> QED BY <2>3 DEF M
  <1> QED BY <1>1, <1>2, <1>3

LEMMA RebuiltContexts ==
  ASSUME NEW cs, NEW us, NEW kn, kn.exists \in SUBSET Entities
  PROVE  Anchored(RebuildContexts(cs, us, kn)) /\ ContextsOf(RebuildContexts(cs, us, kn), us, kn)
  <1> DEFINE gs == Groups(us, kn)
             of(e) == CHOOSE g \in gs : Primary(g) = e
             new == RebuildContexts(cs, us, kn)
  <1>1. GroupsOf(gs, Eligible(us, kn))
    BY GroupsPartition
  <1>2. new = [e \in {Primary(g) : g \in gs} |-> [anchors |-> of(e), members |-> Membership(us, kn, of(e))]]
    BY DEF RebuildContexts
  <1> HIDE DEF gs, new
  <1>3. ASSUME NEW g \in gs PROVE Primary(g) \in g /\ of(Primary(g)) = g
    <2>1. \A h \in gs : Primary(h) \in h
      BY <1>1, PrimaryIsAnchor DEF GroupsOf
    <2>2. of(Primary(g)) \in gs /\ Primary(of(Primary(g))) = Primary(g)
      OBVIOUS
    <2> HIDE DEF of
    <2> QED BY <1>1, <2>1, <2>2 DEF GroupsOf
  <1>4. \A c : c \in DOMAIN new <=> \E g \in gs : c = Primary(g)
    BY <1>2
  <1>5. ASSUME NEW g \in gs
        PROVE  /\ new[Primary(g)].anchors = g /\ Primary(g) \in DOMAIN new
               /\ new[Primary(g)].members = Membership(us, kn, g)
    <2>1. Primary(g) \in {Primary(h) : h \in gs}
      OBVIOUS
    <2>2. new[Primary(g)] = [anchors |-> of(Primary(g)), members |-> Membership(us, kn, of(Primary(g)))]
      BY <1>2, <2>1
    <2> HIDE DEF of
    <2> QED BY <1>3, <1>4, <2>2
  <1> HIDE DEF of
  <1>6. \A c \in DOMAIN new : new[c].anchors \in gs /\ c = Primary(new[c].anchors) /\ c \in new[c].anchors
    BY <1>3, <1>4, <1>5
  <1>7. Anchored(new)
    <2> SUFFICES ASSUME NEW c \in DOMAIN new
                 PROVE  /\ c \in new[c].anchors
                        /\ \A d \in DOMAIN new : new[c].anchors \cap new[d].anchors # {} => c = d
                        /\ \A e, f \in new[c].anchors : IsOrganization(e) /\ IsOrganization(f) => e = f
                        /\ new[c].anchors \subseteq Entities
      BY DEF Anchored
    <2>1. \A e, f \in new[c].anchors : IsOrganization(e) /\ IsOrganization(f) => e = f
      BY <1>1, <1>6 DEF GroupsOf
    <2>2. ASSUME NEW d \in DOMAIN new, new[c].anchors \cap new[d].anchors # {} PROVE c = d
      <3>1. new[c].anchors = new[d].anchors
        BY <1>1, <1>6, <2>2 DEF GroupsOf
      <3> QED BY <1>6, <3>1
    <2>3. new[c].anchors \subseteq Entities
      BY <1>1, <1>6 DEF GroupsOf
    <2> QED BY <1>6, <2>1, <2>2, <2>3
  <1>8. UNION {new[c].anchors : c \in DOMAIN new} = Eligible(us, kn)
    <2>1. {new[c].anchors : c \in DOMAIN new} = gs
      BY <1>5, <1>6
    <2> QED BY <1>1, <2>1 DEF GroupsOf
  <1>9. ASSUME NEW c \in DOMAIN new
        PROVE  {m[1] : m \in new[c].members} =
                 {u \in DOMAIN us : \E e \in new[c].anchors : u[1] \in DocumentsOf(us, kn, e)}
    <2>1. PICK g \in gs : c = Primary(g)
      BY <1>4
    <2>2. new[c].anchors = g /\ new[c].members = Membership(us, kn, g)
      BY <1>5, <2>1
    <2> QED BY <2>2, MembersOfGroup
  <1>10. ContextsOf(new, us, kn)
    BY <1>8, <1>9 DEF ContextsOf
  <1> QED BY <1>7, <1>10 DEF new

-----------------------------------------------------------------------------
\* The graph: its nodes are keys, its mentions those of the units there are.
Keys == {GraphKey(e) : e \in Entities}
Graphs(us) ==
  [nodes : UNION {[D -> Entities \cup {NoEntity}] : D \in SUBSET Keys},
   mentions : SUBSET ((DOMAIN us) \X Keys)]
UnitsOK(us) == IsFiniteSet(DOMAIN us) /\ \A u \in DOMAIN us : us[u] \subseteq Entities
KnownOK(kn) ==
  kn.exists \subseteq Entities /\ kn.variant \in [Entities -> Entities \cup {NoEntity}]
\* Every entity of a unit has its node, and the node an identity.
Reaches(g, us, kn, u) ==
  \A e \in Direct(us, kn, u) :
    LET n == GraphKey(e)
    IN  <<u, n>> \in g.mentions /\ n \in DOMAIN g.nodes /\ g.nodes[n] # NoEntity
ReachesStill(g, new, us, kn) == \A u \in DOMAIN us : Reaches(g, us, kn, u) => Reaches(new, us, kn, u)
\* The identity of a node is that of an entity found in some unit and spelled so.
Honest(g, us, kn) ==
  \A n \in DOMAIN g.nodes :
    g.nodes[n] # NoEntity => g.nodes[n] \in FoundEntities(us, kn) /\ GraphKey(g.nodes[n]) = n

LEMMA ProjectedUnit ==
  ASSUME NEW us, NEW kn, UnitsOK(us), KnownOK(kn), NEW g \in Graphs(us), NEW u \in DOMAIN us
  PROVE  /\ ProjectUnit(g, kn, us, u) \in Graphs(us)
         /\ Reaches(ProjectUnit(g, kn, us, u), us, kn, u)
         /\ ReachesStill(g, ProjectUnit(g, kn, us, u), us, kn)
         /\ Honest(g, us, kn) => Honest(ProjectUnit(g, kn, us, u), us, kn)
  <1> DEFINE new == ProjectUnit(g, kn, us, u)
             named == {NodeOf(kn, k) : k \in us[u]}
             M == {m \in g.mentions : m[1] # u} \cup {<<u, NodeOf(kn, k)>> : k \in us[u]}
             N == Identities(g, kn, us, u)
             D == Direct(us, kn, u)
             I(n) == Identified(us, kn, u, n)
  <1>1. new = [nodes |-> N, mentions |-> M]
    BY DEF ProjectUnit
  <1>2. \A k \in us[u] : k \in Entities /\ NodeOf(kn, k) \in Keys
    BY DEF UnitsOK, KnownOK, NodeOf, Keys
  <1>3. D \subseteq Entities /\ \A e \in D : e # NoEntity
    BY <1>2 DEF Direct, KnownOK
  <1>4. \A e \in D : GraphKey(e) \in named
    BY DEF Direct, NodeOf
  <1>5. g.mentions \subseteq (DOMAIN us) \X Keys
        /\ \E S \in SUBSET Keys : g.nodes \in [S -> Entities \cup {NoEntity}]
    BY DEF Graphs
  <1>6. M \subseteq (DOMAIN us) \X Keys
    <2>1. {m \in g.mentions : m[1] # u} \subseteq (DOMAIN us) \X Keys
      BY <1>5
    <2>2. ASSUME NEW k \in us[u] PROVE <<u, NodeOf(kn, k)>> \in (DOMAIN us) \X Keys
      BY <1>2
    <2> QED BY <2>1, <2>2
  <1>7. /\ DOMAIN N = DOMAIN g.nodes \cup named
        /\ \A n \in DOMAIN N : N[n] = IF n \in DOMAIN g.nodes /\ g.nodes[n] # NoEntity
                                      THEN g.nodes[n] ELSE I(n)
        /\ N = [n \in DOMAIN N |-> N[n]]
    BY DEF Identities
  <1>8. named \subseteq Keys
    BY <1>2
  <1>9. \A e \in D : <<u, GraphKey(e)>> \in M
    BY <1>4
  <1>10. \A m \in g.mentions : m[1] # u => m \in M
    OBVIOUS
  <1>11. \A n : \/ I(n) = NoEntity /\ \A e \in D : GraphKey(e) # n
                \/ I(n) \in D /\ GraphKey(I(n)) = n
    <2> TAKE n
    <2> DEFINE S == {e \in D : GraphKey(e) = n}
    <2>1. I(n) = IF S = {} THEN NoEntity ELSE CHOOSE e \in S : TRUE
      BY DEF Identified
    <2> QED BY <2>1
  <1>12. D \subseteq FoundEntities(us, kn)
    BY DEF FoundEntities
  <1> HIDE DEF named, M, N, new, D, I
  <1>13. \A n \in DOMAIN N : n \in Keys /\ N[n] \in Entities \cup {NoEntity}
    BY <1>3, <1>5, <1>7, <1>8, <1>11
  <1>14. N \in UNION {[S -> Entities \cup {NoEntity}] : S \in SUBSET Keys}
    <2>1. DOMAIN N \in SUBSET Keys
      BY <1>13
    <2>2. N \in [DOMAIN N -> Entities \cup {NoEntity}]
      BY <1>7, <1>13
    <2> QED BY <2>1, <2>2
  <1>15. new \in Graphs(us)
    BY <1>1, <1>6, <1>14 DEF Graphs
  <1>16. new.mentions = M /\ new.nodes = N
    BY <1>1
  <1>17. Reaches(new, us, kn, u)
    <2> SUFFICES ASSUME NEW e \in D, NEW n, n = GraphKey(e)
                 PROVE  <<u, n>> \in M /\ n \in DOMAIN N /\ N[n] # NoEntity
      BY <1>16 DEF Reaches, D
    <2>1. I(n) # NoEntity
      BY <1>3, <1>11
    <2> QED BY <1>4, <1>7, <1>9, <2>1
  <1>18. ASSUME NEW v \in DOMAIN us, Reaches(g, us, kn, v) PROVE Reaches(new, us, kn, v)
    <2>1. CASE v = u
      BY <1>17, <2>1
    <2>2. CASE v # u
      <3> SUFFICES ASSUME NEW e \in Direct(us, kn, v), NEW n, n = GraphKey(e)
                   PROVE  <<v, n>> \in M /\ n \in DOMAIN N /\ N[n] # NoEntity
        BY <1>16 DEF Reaches
      <3>1. <<v, n>> \in g.mentions /\ n \in DOMAIN g.nodes /\ g.nodes[n] # NoEntity
        BY <1>18 DEF Reaches
      <3>2. <<v, n>> \in M
        BY <1>10, <2>2, <3>1
      <3> QED BY <1>7, <3>1, <3>2
    <2> QED BY <2>1, <2>2
  <1>19. ASSUME Honest(g, us, kn) PROVE Honest(new, us, kn)
    <2> SUFFICES ASSUME NEW n \in DOMAIN N, N[n] # NoEntity
                 PROVE  N[n] \in FoundEntities(us, kn) /\ GraphKey(N[n]) = n
      BY <1>16 DEF Honest
    <2>1. CASE n \in DOMAIN g.nodes /\ g.nodes[n] # NoEntity
      BY <1>7, <1>19, <2>1 DEF Honest
    <2>2. CASE ~(n \in DOMAIN g.nodes /\ g.nodes[n] # NoEntity)
      BY <1>7, <1>11, <1>12, <2>2
    <2> QED BY <2>1, <2>2
  <1> QED BY <1>15, <1>17, <1>18, <1>19 DEF ReachesStill, new

IsProjected(f, g, kn, us, order) ==
  f = [i \in 0 .. Len(order) |-> IF i = 0 THEN g ELSE ProjectUnit(f[i - 1], kn, us, order[i])]

LEMMA ProjectedOneByOne ==
  ASSUME NEW us, NEW kn, UnitsOK(us), KnownOK(kn), NEW g \in Graphs(us), NEW order \in Seq(DOMAIN us)
  PROVE  \E f : IsProjected(f, g, kn, us, order)
  <1>1. \A n \in Nat : n = Len(order) => \E f :
            f = [i \in 0 .. n |-> IF i = 0 THEN g ELSE ProjectUnit(f[i - 1], kn, us, order[i])]
    <2> SUFFICES ASSUME NEW n \in Nat, n = Len(order)
                 PROVE  \E f : f = [i \in 0 .. n |-> IF i = 0 THEN g ELSE ProjectUnit(f[i - 1], kn, us, order[i])]
      OBVIOUS
    <2> DEFINE S == Graphs(us)
               step == [x \in (1 .. n) \X S |-> ProjectUnit(x[2], kn, us, order[x[1]])]
    <2>1. \A i \in 1 .. n : order[i] \in DOMAIN us
      BY ElementOfSeq, LenProperties
    <2>2. \A i \in 1 .. n : \A p \in S : ProjectUnit(p, kn, us, order[i]) \in S
      BY <2>1, ProjectedUnit
    <2> HIDE DEF S
    <2>3. g \in S
      BY DEF S
    <2>4. step \in [(1 .. n) \X S -> S]
      BY <2>2
    <2>5. \A i \in 1 .. n : \A p \in S : step[<<i, p>>] = ProjectUnit(p, kn, us, order[i])
      OBVIOUS
    <2> HIDE DEF step
    <2>6. PICK f \in [0 .. n -> S] : IsRecursion(f, n, g, step)
      BY <2>3, <2>4, RecursionExists
    <2>7. f[0] = g /\ \A i \in 1 .. n : f[i] = step[<<i, f[i - 1]>>]
      BY <2>6 DEF IsRecursion
    <2>8. ASSUME NEW i \in 0 .. n PROVE f[i] = IF i = 0 THEN g ELSE ProjectUnit(f[i - 1], kn, us, order[i])
      <3>1. CASE i = 0
        BY <2>7, <3>1
      <3>2. CASE i # 0
        <4>1. i \in 1 .. n /\ i - 1 \in 0 .. n
          BY <3>2
        <4>2. f[i - 1] \in S
          BY <4>1
        <4> QED BY <2>5, <2>7, <3>2, <4>1, <4>2
      <3> QED BY <3>1, <3>2
    <2>9. f = [i \in 0 .. n |-> f[i]]
      OBVIOUS
    <2> QED BY <2>8, <2>9
  <1>2. Len(order) \in Nat
    BY LenProperties
  <1> QED BY <1>1, <1>2 DEF IsProjected

LEMMA ProjectedUnits ==
  ASSUME NEW us, NEW kn, UnitsOK(us), KnownOK(kn), NEW g \in Graphs(us), NEW S \in SUBSET DOMAIN us
  PROVE  /\ ProjectUnits(g, kn, us, S) \in Graphs(us)
         /\ \A u \in S : Reaches(ProjectUnits(g, kn, us, S), us, kn, u)
         /\ ReachesStill(g, ProjectUnits(g, kn, us, S), us, kn)
         /\ Honest(g, us, kn) => Honest(ProjectUnits(g, kn, us, S), us, kn)
  <1> DEFINE order == SetToSeq(S)
             n == Len(order)
             Rec(f) == f = [i \in 0 .. n |-> IF i = 0 THEN g ELSE ProjectUnit(f[i - 1], kn, us, order[i])]
             after == CHOOSE f : Rec(f)
             Good(i) == /\ after[i] \in Graphs(us) /\ ReachesStill(g, after[i], us, kn)
                        /\ Honest(g, us, kn) => Honest(after[i], us, kn)
                        /\ \A j \in 1 .. i : Reaches(after[i], us, kn, order[j])
             P == {i \in 0 .. n : Good(i)}
  <1>1. ProjectUnits(g, kn, us, S) = after[n]
    BY DEF ProjectUnits
  <1>2. order \in Seq(S) /\ \A u \in S : \E i \in DOMAIN order : order[i] = u
    <2>1. IsFiniteSet(S)
      BY FS_Subset DEF UnitsOK
    <2> QED BY <2>1, ListedOnce
  <1> HIDE DEF order
  <1>3. n \in Nat /\ DOMAIN order = 1 .. n /\ \A i \in 1 .. n : order[i] \in DOMAIN us
    BY <1>2, LenProperties, ElementOfSeq
  <1>4. \E f : Rec(f)
    <2>1. order \in Seq(DOMAIN us)
      BY <1>2
    <2>2. \E f : IsProjected(f, g, kn, us, order)
      BY <2>1, ProjectedOneByOne
    <2> QED BY <2>2 DEF IsProjected
  <1>5. Rec(after)
    <2> HIDE DEF Rec
    <2> QED BY <1>4
  <1> HIDE DEF after
  <1>6. after[0] = g /\ \A i \in 1 .. n : after[i] = ProjectUnit(after[i - 1], kn, us, order[i])
    BY <1>3, <1>5
  <1> HIDE DEF n, Rec
  <1>7. Good(0)
    BY <1>6 DEF ReachesStill
  <1>8. ASSUME NEW i \in 1 .. n, Good(i - 1) PROVE Good(i)
    <2> DEFINE old == after[i - 1]
               new == ProjectUnit(old, kn, us, order[i])
    <2>1. order[i] \in DOMAIN us /\ old \in Graphs(us)
      BY <1>3, <1>8
    <2> HIDE DEF old
    <2>2. /\ new \in Graphs(us) /\ Reaches(new, us, kn, order[i]) /\ ReachesStill(old, new, us, kn)
          /\ Honest(old, us, kn) => Honest(new, us, kn)
      BY <2>1, ProjectedUnit
    <2> HIDE DEF new
    <2>3. after[i] = new
      BY <1>6 DEF new, old
    <2>4. ReachesStill(g, new, us, kn)
      BY <1>8, <2>2 DEF ReachesStill, old
    <2>5. ASSUME NEW j \in 1 .. i PROVE Reaches(new, us, kn, order[j])
      <3>1. CASE j = i
        BY <2>2, <3>1
      <3>2. CASE j \in 1 .. i - 1
        <4>1. j \in 1 .. n
          BY <1>3, <3>2
        <4> QED BY <1>3, <1>8, <2>2, <3>2, <4>1 DEF ReachesStill, old
      <3> QED BY <1>3, <3>1, <3>2
    <2>6. Honest(g, us, kn) => Honest(new, us, kn)
      BY <1>8, <2>2 DEF old
    <2> QED BY <2>2, <2>3, <2>4, <2>5, <2>6
  <1>9. 0 \in P /\ \A i \in 1 .. n : i - 1 \in P => i \in P
    <2>1. 0 \in 0 .. n /\ \A i \in 1 .. n : i \in 0 .. n
      BY <1>3
    <2> HIDE DEF Good
    <2> QED BY <1>7, <1>8, <2>1
  <1>10. Good(n)
    <2> HIDE DEF P
    <2>1. \A i \in 0 .. n : i \in P
      BY <1>3, <1>9, UpTo
    <2>2. n \in P
      BY <1>3, <2>1
    <2> HIDE DEF Good
    <2> QED BY <2>2 DEF P
  <1>11. \A u \in S : \E j \in 1 .. n : order[j] = u
    BY <1>2, <1>3
  <1> QED BY <1>1, <1>10, <1>11

-----------------------------------------------------------------------------
ProjInv ==
  /\ UnitsOK(units) /\ KnownOK(known) /\ graph \in Graphs(units) /\ Anchored(contexts)
  /\ fresh => /\ ContextsOf(contexts, units, known)
              /\ \A u \in DOMAIN units : Reaches(graph, units, known, u)
              /\ Honest(graph, units, known)

\* Rows that go with their units leave the contexts their anchors.
LEMMA ForgetKeeps ==
  ASSUME ProjInv, NEW gone, Forget(gone), NEW us, \A u \in DOMAIN units : u \notin gone => u \in DOMAIN us
  PROVE  Anchored(contexts)' /\ graph' \in Graphs(us)
  <1>1. DOMAIN contexts' = DOMAIN contexts /\ \A c \in DOMAIN contexts : contexts'[c].anchors = contexts[c].anchors
    BY DEF Forget
  <1>2. Anchored(contexts)'
    BY <1>1 DEF ProjInv, Anchored
  <1> DEFINE M == {m \in graph.mentions : m[1] \notin gone}
  <1>3. graph' = [nodes |-> graph.nodes, mentions |-> M]
    BY DEF Forget
  <1>4. /\ graph.mentions \subseteq (DOMAIN units) \X Keys
        /\ graph.nodes \in UNION {[D -> Entities \cup {NoEntity}] : D \in SUBSET Keys}
    BY DEF ProjInv, Graphs
  <1>5. M \subseteq (DOMAIN us) \X Keys
    BY <1>4
  <1> HIDE DEF M
  <1>6. graph' \in Graphs(us)
    BY <1>3, <1>4, <1>5 DEF Graphs
  <1> QED BY <1>2, <1>6

LEMMA ProcessKeeps ==
  ASSUME ProjInv, NEW d, Process(d)
  PROVE  ProjInv'
  <1> PICK n \in 1 .. 2 : \E found \in [1 .. n -> SUBSET Entities \ {{}}] :
         units' = [u \in DOMAIN Drop(units, UnitsOf(units, d)) \cup ({d} \X (1 .. n)) |->
                     IF u[1] = d THEN found[u[2]] ELSE units[u]]
    BY DEF Process
  <1> PICK found \in [1 .. n -> SUBSET Entities \ {{}}] :
         units' = [u \in DOMAIN Drop(units, UnitsOf(units, d)) \cup ({d} \X (1 .. n)) |->
                     IF u[1] = d THEN found[u[2]] ELSE units[u]]
    OBVIOUS
  <1>1. Forget(UnitsOf(units, d)) /\ ~fresh' /\ UNCHANGED known
    BY DEF Process
  <1> DEFINE K == DOMAIN units \ UnitsOf(units, d)
             F == {d} \X (1 .. n)
  <1>2. units' = [u \in K \cup F |-> IF u[1] = d THEN found[u[2]] ELSE units[u]]
    BY DEF Drop
  <1>3. \A u \in K : u \in DOMAIN units /\ u[1] # d
    BY DEF UnitsOf
  <1>4. \A u \in F : u[1] = d /\ u[2] \in 1 .. n
    OBVIOUS
  <1>5. IsFiniteSet(K)
    BY FS_Difference DEF ProjInv, UnitsOK
  <1>6. IsFiniteSet(F)
    <2>1. 1 \in Int /\ n \in Int
      OBVIOUS
    <2>2. IsFiniteSet({d}) /\ IsFiniteSet(1 .. n)
      BY <2>1, FS_Singleton, FS_Interval
    <2> QED BY <2>2, FS_Product DEF F
  <1>7. \A u \in DOMAIN units : u \notin UnitsOf(units, d) => u \in K
    OBVIOUS
  <1> HIDE DEF K, F
  <1>8. DOMAIN units' = K \cup F
    BY <1>2
  <1>9. IsFiniteSet(DOMAIN units')
    BY <1>5, <1>6, <1>8, FS_Union
  <1>10. ASSUME NEW u \in K \cup F PROVE units'[u] \subseteq Entities
    <2>1. CASE u \in K
      <3>1. units'[u] = units[u] /\ u \in DOMAIN units
        BY <1>2, <1>3, <2>1
      <3> QED BY <3>1 DEF ProjInv, UnitsOK
    <2>2. CASE u \in F
      <3>1. units'[u] = found[u[2]] /\ u[2] \in 1 .. n
        BY <1>2, <1>4, <2>2
      <3> QED BY <3>1
    <2> QED BY <2>1, <2>2
  <1>11. UnitsOK(units)'
    BY <1>8, <1>9, <1>10 DEF UnitsOK
  <1>12. Anchored(contexts)' /\ graph' \in Graphs(units')
    <2>1. \A u \in DOMAIN units : u \notin UnitsOf(units, d) => u \in DOMAIN units'
      BY <1>7, <1>8
    <2> QED BY <1>1, <2>1, ForgetKeeps
  <1>13. KnownOK(known)'
    BY <1>1 DEF ProjInv, KnownOK
  <1>14. (graph \in Graphs(units))'
    BY <1>12 DEF Graphs
  <1> QED BY <1>1, <1>11, <1>12, <1>13, <1>14 DEF ProjInv

LEMMA DeleteProjectedUnitKeeps ==
  ASSUME ProjInv, NEW u, DeleteProjectedUnit(u)
  PROVE  ProjInv'
  <1>1. units' = [x \in DOMAIN units \ {u} |-> units[x]] /\ Forget({u}) /\ ~fresh' /\ UNCHANGED known
    BY DEF DeleteProjectedUnit, Drop
  <1>2. IsFiniteSet(DOMAIN units')
    BY <1>1, FS_RemoveElement DEF ProjInv, UnitsOK
  <1>3. UnitsOK(units)'
    BY <1>1, <1>2 DEF ProjInv, UnitsOK
  <1>4. Anchored(contexts)' /\ graph' \in Graphs(units')
    <2>1. \A x \in DOMAIN units : x \notin {u} => x \in DOMAIN units'
      BY <1>1
    <2> QED BY <1>1, <2>1, ForgetKeeps
  <1>5. KnownOK(known)'
    BY <1>1 DEF ProjInv, KnownOK
  <1>6. (graph \in Graphs(units))'
    BY <1>4 DEF Graphs
  <1> QED BY <1>1, <1>3, <1>4, <1>5, <1>6 DEF ProjInv

\* Changes of the canonical entities leave the projections as they were.
LEMMA KnownChanges ==
  ASSUME ProjInv, MergeEntities \/ Backfill
  PROVE  ProjInv'
  <1>1. UNCHANGED <<units, contexts, graph>> /\ ~fresh'
    BY DEF MergeEntities, Backfill
  <1>2. KnownOK(known)'
    <2>1. CASE MergeEntities
      <3>1. PICK e \in Entities, ks \in SUBSET Entities : known' = Assign(known, e, ks, TRUE)
        BY <2>1 DEF MergeEntities
      <3> QED BY <3>1 DEF Assign, KnownOK, ProjInv
    <2>2. CASE Backfill
      <3>1. PICK keys \in SUBSET Entities :
               known' = [exists |-> known.exists \cup keys, reviewed |-> known.reviewed,
                         variant |-> [k \in Entities |-> IF k \in keys THEN k ELSE known.variant[k]]]
        BY <2>2 DEF Backfill
      <3> QED BY <3>1 DEF KnownOK, ProjInv
    <2> QED BY <2>1, <2>2
  <1>3. UnitsOK(units)' /\ (graph \in Graphs(units))' /\ Anchored(contexts)'
    BY <1>1 DEF ProjInv, UnitsOK, Graphs, Anchored
  <1> QED BY <1>1, <1>2, <1>3 DEF ProjInv

\* A projection on the units and entities there are keeps what holds of them.
LEMMA ProjectionKeeps ==
  ASSUME ProjInv, UNCHANGED <<units, known>>, graph' \in Graphs(units), Anchored(contexts)',
         fresh' => /\ ContextsOf(contexts', units, known)
                   /\ \A u \in DOMAIN units : Reaches(graph', units, known, u)
                   /\ Honest(graph', units, known)
  PROVE  ProjInv'
  <1>1. UnitsOK(units)' /\ KnownOK(known)'
    BY DEF ProjInv, UnitsOK, KnownOK
  <1>2. (graph \in Graphs(units))'
    BY DEF Graphs
  <1>3. fresh' => ContextsOf(contexts, units, known)'
    OBVIOUS
  <1>4. fresh' => (\A u \in DOMAIN units : Reaches(graph, units, known, u))'
    OBVIOUS
  <1>5. fresh' => Honest(graph, units, known)'
    OBVIOUS
  <1> QED BY <1>1, <1>2, <1>3, <1>4, <1>5 DEF ProjInv

LEMMA RebuildKeeps ==
  ASSUME ProjInv, Rebuild
  PROVE  ProjInv'
  <1>1. /\ graph' = ProjectUnits(EmptyGraph, known, units, DOMAIN units)
        /\ contexts' = RebuildContexts(contexts, units, known) /\ UNCHANGED <<units, known>>
    BY DEF Rebuild, RebuildGraph
  <1>2. EmptyGraph \in Graphs(units)
    <2>1. [n \in {} |-> NoEntity] \in [{} -> Entities \cup {NoEntity}]
      OBVIOUS
    <2>2. {} \in SUBSET Keys /\ {} \in SUBSET ((DOMAIN units) \X Keys)
      OBVIOUS
    <2> DEFINE e == [n \in {} |-> NoEntity]
    <2>3. e \in UNION {[D -> Entities \cup {NoEntity}] : D \in SUBSET Keys}
      BY <2>1, <2>2
    <2>4. EmptyGraph = [nodes |-> e, mentions |-> {}]
      BY DEF EmptyGraph
    <2> HIDE DEF e
    <2> QED BY <2>2, <2>3, <2>4 DEF Graphs
  <1>3. /\ graph' \in Graphs(units) /\ \A u \in DOMAIN units : Reaches(graph', units, known, u)
        /\ Honest(graph', units, known)
    <2>1. Honest(EmptyGraph, units, known)
      BY DEF Honest, EmptyGraph
    <2> QED BY <1>1, <1>2, <2>1, ProjectedUnits DEF ProjInv
  <1>4. Anchored(contexts') /\ ContextsOf(contexts', units, known)
    BY <1>1, RebuiltContexts DEF ProjInv, KnownOK
  <1>5. Anchored(contexts)'
    BY <1>4 DEF Anchored
  <1> QED BY <1>1, <1>3, <1>4, <1>5, ProjectionKeeps

LEMMA FinalizeRebuildsKeeps ==
  ASSUME ProjInv, NEW d, FinalizeRebuilds(d)
  PROVE  ProjInv'
  <1>1. /\ graph' = ProjectUnits(graph, known, units, UnitsOf(units, d))
        /\ contexts' = RebuildContexts(contexts, units, known) /\ UNCHANGED <<units, known, fresh>>
    BY DEF FinalizeRebuilds
  <1>2. UnitsOf(units, d) \in SUBSET DOMAIN units
    BY DEF UnitsOf
  <1>3. /\ graph' \in Graphs(units) /\ ReachesStill(graph, graph', units, known)
        /\ Honest(graph, units, known) => Honest(graph', units, known)
    BY <1>1, <1>2, ProjectedUnits DEF ProjInv
  <1>4. Anchored(contexts') /\ ContextsOf(contexts', units, known)
    BY <1>1, RebuiltContexts DEF ProjInv, KnownOK
  <1>5. Anchored(contexts)'
    BY <1>4 DEF Anchored
  <1>6. fresh' => /\ \A u \in DOMAIN units : Reaches(graph', units, known, u)
                  /\ Honest(graph', units, known)
    BY <1>1, <1>3 DEF ProjInv, ReachesStill
  <1> QED BY <1>1, <1>3, <1>4, <1>5, <1>6, ProjectionKeeps

LEMMA SpecialistProjectsKeeps ==
  ASSUME ProjInv, NEW u, SpecialistProjects(u)
  PROVE  ProjInv'
  <1>1. /\ graph' = ProjectUnit(graph, known, units, u) /\ u \in DOMAIN units
        /\ UNCHANGED <<units, known, contexts, fresh>>
    BY DEF SpecialistProjects
  <1>2. /\ graph' \in Graphs(units) /\ ReachesStill(graph, graph', units, known)
        /\ Honest(graph, units, known) => Honest(graph', units, known)
    BY <1>1, ProjectedUnit DEF ProjInv
  <1>3. Anchored(contexts)'
    BY <1>1 DEF ProjInv, Anchored
  <1>4. fresh' => /\ \A v \in DOMAIN units : Reaches(graph', units, known, v)
                  /\ Honest(graph', units, known)
    BY <1>1, <1>2 DEF ProjInv, ReachesStill
  <1>5. fresh' => ContextsOf(contexts', units, known)
    BY <1>1 DEF ProjInv
  <1> QED BY <1>1, <1>2, <1>3, <1>4, <1>5, ProjectionKeeps

LEMMA ProjInvHolds == ProjSpec => []ProjInv
  <1>1. ProjInit => ProjInv
    <2> SUFFICES ASSUME ProjInit PROVE ProjInv
      OBVIOUS
    <2>1. /\ units = [u \in {} |-> {}] /\ contexts = [e \in {} |-> {}] /\ graph = EmptyGraph
          /\ known = [exists |-> {}, reviewed |-> {}, variant |-> [k \in Entities |-> NoEntity]]
      BY DEF ProjInit
    <2>2. DOMAIN units = {} /\ DOMAIN contexts = {} /\ known.exists = {}
      BY <2>1
    <2>3. UnitsOK(units) /\ KnownOK(known) /\ Anchored(contexts)
      BY <2>1, <2>2, FS_EmptySet DEF UnitsOK, KnownOK, Anchored
    <2>4. graph \in Graphs(units)
      <3>1. {} \in SUBSET Keys /\ {} \in SUBSET ((DOMAIN units) \X Keys)
        OBVIOUS
      <3> DEFINE e == [n \in {} |-> NoEntity]
      <3>2. e \in [{} -> Entities \cup {NoEntity}]
        OBVIOUS
      <3>3. e \in UNION {[D -> Entities \cup {NoEntity}] : D \in SUBSET Keys}
        BY <3>1, <3>2
      <3>4. graph = [nodes |-> e, mentions |-> {}]
        BY <2>1 DEF EmptyGraph
      <3> HIDE DEF e
      <3> QED BY <3>1, <3>3, <3>4 DEF Graphs
    <2>5. ContextsOf(contexts, units, known)
      BY <2>2 DEF ContextsOf, Eligible
    <2>6. Honest(graph, units, known)
      BY <2>1 DEF Honest, EmptyGraph
    <2> QED BY <2>2, <2>3, <2>4, <2>5, <2>6 DEF ProjInv
  <1>2. ProjInv /\ [ProjNext]_projVars => ProjInv'
    <2> SUFFICES ASSUME ProjInv, [ProjNext]_projVars PROVE ProjInv'
      OBVIOUS
    <2>1. CASE UNCHANGED projVars
      <3>1. UNCHANGED <<units, known, contexts, graph, fresh>>
        BY <2>1 DEF projVars
      <3>2. Anchored(contexts)'
        BY <3>1 DEF ProjInv, Anchored
      <3>3. /\ graph' \in Graphs(units)
            /\ fresh' => /\ ContextsOf(contexts', units, known)
                         /\ \A u \in DOMAIN units : Reaches(graph', units, known, u)
                         /\ Honest(graph', units, known)
        BY <3>1 DEF ProjInv
      <3> QED BY <3>1, <3>2, <3>3, ProjectionKeeps
    <2>2. CASE ProjNext
      BY <2>2, RebuildKeeps, KnownChanges, ProcessKeeps, FinalizeRebuildsKeeps, SpecialistProjectsKeeps,
         DeleteProjectedUnitKeeps DEF ProjNext
    <2> QED BY <2>1, <2>2
  <1> QED BY <1>1, <1>2, PTL DEF ProjSpec

\* An entity anchors one context, and a context holds one organisation at most,
\* however entities and variants change between the rebuilds (contexts.py:179).
THEOREM EntitiesAnchorOneContext == ProjSpec => []EntityAnchoredOnce
  <1>1. ProjInv => EntityAnchoredOnce
    <2> SUFFICES ASSUME ProjInv, NEW c \in DOMAIN contexts
                 PROVE  Cardinality({e \in contexts[c].anchors : e[1] = "organizzazione"}) <= 1
      BY DEF ProjInv, Anchored, EntityAnchoredOnce
    <2> DEFINE orgs == {e \in contexts[c].anchors : e[1] = "organizzazione"}
    <2>1. \A e, f \in orgs : e = f
      BY DEF ProjInv, Anchored, IsOrganization
    <2> HIDE DEF orgs
    <2>2. CASE orgs = {}
      BY <2>2, FS_EmptySet DEF orgs
    <2>3. CASE orgs # {}
      <3>1. PICK x : orgs = {x}
        BY <2>1, <2>3
      <3>2. Cardinality(orgs) = 1
        BY <3>1, FS_Singleton
      <3> QED BY <3>2 DEF orgs
    <2> QED BY <2>2, <2>3
  <1> QED BY <1>1, ProjInvHolds, PTL

\* After a rebuild the contexts are those of the present entities, with the units
\* of their documents: what was projected before has left no trace.
THEOREM ContextsFollowEntities == ProjSpec => []ContextsMatchEntities
  <1>1. ProjInv => ContextsMatchEntities
    BY DEF ProjInv, ContextsOf, ContextsMatchEntities
  <1> QED BY <1>1, ProjInvHolds, PTL

\* After a rebuild every mention of a known entity leads to a node with an identity,
\* its own or that of an entity the graph spells alike, whatever is normalised to one
\* key and whichever unit was projected first (graph.py:314, graph.py:333).
THEOREM MentionsReachTheirEntity == ProjSpec => []MentionsFindTheirEntity
  <1>1. ASSUME ProjInv, fresh, NEW u \in DOMAIN units, NEW e \in Direct(units, known, u),
               NEW n, n = GraphKey(e)
        PROVE  <<u, n>> \in graph.mentions /\ graph.nodes[n] \in Namesakes(e)
    <2>1. <<u, n>> \in graph.mentions /\ n \in DOMAIN graph.nodes /\ graph.nodes[n] # NoEntity
      BY <1>1 DEF ProjInv, Reaches
    <2>2. graph.nodes[n] \in FoundEntities(units, known) /\ GraphKey(graph.nodes[n]) = n
      BY <1>1, <2>1 DEF ProjInv, Honest
    <2> QED BY <1>1, <2>1, <2>2 DEF Namesakes
  <1>2. ProjInv => MentionsFindTheirEntity
    BY <1>1 DEF MentionsFindTheirEntity
  <1> QED BY <1>2, ProjInvHolds, PTL
-----------------------------------------------------------------------------
(* Retrieval: the chunks of a page.                                              *)

\* The chunks are cut round by round.
LEMMA SplitUnfolds ==
  ASSUME NEW S,
         NEW t,
         Len(t) \in Nat, <<ChunkFrom(t, 1)>> \in S,
         \A k \in 1 .. Len(t) : \A p \in S : NextChunk(t, p) \in S
  PROVE  \E f \in [0 .. Len(t) -> S] :
           /\ f[0] = <<ChunkFrom(t, 1)>> /\ \A k \in 1 .. Len(t) : f[k] = NextChunk(t, f[k - 1])
           /\ SplitText(t) = f[Len(t)]
  <1> DEFINE n == Len(t)
             Rec(f) == f = [k \in 0 .. n |-> IF k = 0 THEN <<ChunkFrom(t, 1)>> ELSE NextChunk(t, f[k - 1])]
             after == CHOOSE f : Rec(f)
  <1>1. \A m \in Nat : m = Len(t) =>
           \E f : f = [k \in 0 .. m |-> IF k = 0 THEN <<ChunkFrom(t, 1)>> ELSE NextChunk(t, f[k - 1])]
    <2> SUFFICES ASSUME NEW m \in Nat, m = Len(t)
                 PROVE  \E f : f = [k \in 0 .. m |-> IF k = 0 THEN <<ChunkFrom(t, 1)>> ELSE NextChunk(t, f[k - 1])]
      OBVIOUS
    <2> DEFINE step == [x \in (1 .. m) \X S |-> NextChunk(t, x[2])]
    <2>1. step \in [(1 .. m) \X S -> S] /\ \A k \in 1 .. m : \A p \in S : step[<<k, p>>] = NextChunk(t, p)
      OBVIOUS
    <2> HIDE DEF step
    <2>2. PICK f \in [0 .. m -> S] : IsRecursion(f, m, <<ChunkFrom(t, 1)>>, step)
      BY <2>1, RecursionExists
    <2>3. f[0] = <<ChunkFrom(t, 1)>> /\ \A k \in 1 .. m : f[k] = step[<<k, f[k - 1]>>]
      BY <2>2 DEF IsRecursion
    <2>4. ASSUME NEW k \in 0 .. m PROVE f[k] = IF k = 0 THEN <<ChunkFrom(t, 1)>> ELSE NextChunk(t, f[k - 1])
      <3>1. CASE k = 0
        BY <2>3, <3>1
      <3>2. CASE k # 0
        <4>1. k \in 1 .. m /\ k - 1 \in 0 .. m
          BY <3>2
        <4>2. f[k - 1] \in S
          BY <4>1
        <4> QED BY <2>1, <2>3, <3>2, <4>1, <4>2
      <3> QED BY <3>1, <3>2
    <2>5. f = [k \in 0 .. m |-> f[k]]
      OBVIOUS
    <2> QED BY <2>4, <2>5
  <1>2. Rec(after)
    <2>1. \E f : Rec(f)
      BY <1>1
    <2> HIDE DEF Rec
    <2> QED BY <2>1
  <1> HIDE DEF after
  <1>3. n \in Nat /\ <<ChunkFrom(t, 1)>> \in S /\ \A k \in 1 .. n : \A p \in S : NextChunk(t, p) \in S
    OBVIOUS
  <1> HIDE DEF n
  <1>4. after[0] = <<ChunkFrom(t, 1)>> /\ \A k \in 1 .. n : after[k] = NextChunk(t, after[k - 1])
    <2>1. \A k \in 0 .. n : after[k] = IF k = 0 THEN <<ChunkFrom(t, 1)>> ELSE NextChunk(t, after[k - 1])
      BY <1>2
    <2>2. 0 \in 0 .. n /\ \A k \in 1 .. n : k \in 0 .. n /\ k # 0
      BY <1>3
    <2> HIDE DEF Rec
    <2> QED BY <2>1, <2>2
  <1>5. after = [k \in 0 .. n |-> after[k]]
    BY <1>2
  <1> DEFINE P == {k \in 0 .. n : after[k] \in S}
  <1>6. 0 \in P /\ \A k \in 1 .. n : k - 1 \in P => k \in P
    <2>1. 0 \in 0 .. n /\ \A k \in 1 .. n : k \in 0 .. n
      BY <1>3
    <2> HIDE DEF Rec
    <2> QED BY <1>3, <1>4, <2>1
  <1>7. \A k \in 0 .. n : k \in P
    <2> HIDE DEF P
    <2> QED BY <1>3, <1>6, UpTo
  <1>8. after \in [0 .. n -> S]
    <2>1. \A k \in 0 .. n : after[k] \in S
      BY <1>7
    <2> HIDE DEF Rec, P
    <2> QED BY <1>5, <2>1
  <1>9. SplitText(t) = after[n]
    BY DEF SplitText, after, Rec, n
  <1> HIDE DEF Rec, P
  <1>10. \E f \in [0 .. n -> S] :
           /\ f[0] = <<ChunkFrom(t, 1)>> /\ \A k \in 1 .. n : f[k] = NextChunk(t, f[k - 1])
           /\ SplitText(t) = f[n]
    BY <1>4, <1>8, <1>9
  <1> QED BY <1>10 DEF n

LEMMA TextsAreSequences ==
  ASSUME NEW t \in Texts
  PROVE  Len(t) \in Nat \ {0} /\ t \in Seq(BOOLEAN)
  <1>1. PICK n \in 1 .. MaxText : t \in [1 .. n -> BOOLEAN]
    BY DEF Texts
  <1>2. n \in Nat \ {0}
    BY SplitAssumption
  <1>3. t \in Seq(BOOLEAN)
    BY <1>1, <1>2, SeqDef
  <1> QED BY <1>1, <1>2, <1>3, LenProperties

\* Of the last space of a range.
LEMMA LatestOf ==
  ASSUME NEW a \in Nat, NEW b \in Nat, NEW S \in SUBSET (a .. b), S # {}
  PROVE  Max(S) \in S
  <1> DEFINE Dist == {b - p : p \in S}
  <1>1. Dist \in SUBSET Nat /\ Dist # {}
    OBVIOUS
  <1>2. PICK d \in Dist : \A e \in Dist : d <= e
    <2> HIDE DEF Dist
    <2> QED BY <1>1, LeastExists
  <1>3. PICK p \in S : d = b - p
    OBVIOUS
  <1>4. \A q \in S : p >= q
    <2> SUFFICES ASSUME NEW q \in S PROVE p >= q
      OBVIOUS
    <2>1. b - q \in Dist
      OBVIOUS
    <2>2. p \in Int /\ q \in Int /\ b \in Int
      OBVIOUS
    <2> HIDE DEF Dist
    <2>3. d <= b - q
      BY <1>2, <2>1
    <2> QED BY <1>3, <2>2, <2>3
  <1> QED BY <1>4 DEF Max

\* A chunk is not empty and not too long, and the one after it ends later.
LEMMA EndsAreFurther ==
  ASSUME NEW t \in Texts, NEW i \in 1 .. Len(t)
  PROVE  /\ EndOf(t, i) \in i .. Len(t) /\ EndOf(t, i) - i < MaxChars
         /\ EndOf(t, i) < Len(t) =>
              /\ NextStart(t, i) \in i + 1 .. Len(t) /\ NextStart(t, i) <= EndOf(t, i) + 1
              /\ EndOf(t, i) < EndOf(t, NextStart(t, i))
  <1> DEFINE n == Len(t)
             half == MaxChars \div 2
  <1>1. n \in Nat \ {0} /\ i \in 1 .. n
    BY TextsAreSequences
  <1>2. MaxChars \in Nat /\ Overlap \in Nat /\ half \in Nat /\ Overlap < half /\ 2 * half <= MaxChars
    BY SplitAssumption
  <1> HIDE DEF n, half
  <1>3. ASSUME NEW s \in 1 .. n
        PROVE  /\ EndOf(t, s) \in s .. n /\ EndOf(t, s) - s < MaxChars
               /\ EndOf(t, s) # n => s + half - 1 <= EndOf(t, s)
    <2> DEFINE full == Min({n, s + MaxChars - 1})
               spaces == {p \in (s + half) .. full : ~t[p]}
    <2>1. full \in {n, s + MaxChars - 1} /\ full <= n /\ full <= s + MaxChars - 1
      <3>1. {n, s + MaxChars - 1} \in SUBSET Nat /\ {n, s + MaxChars - 1} # {}
        BY <1>1, <1>2
      <3> QED BY <3>1, MinIsLeast
    <2>2. EndOf(t, s) = IF full = n \/ spaces = {} THEN full ELSE Max(spaces) - 1
      BY DEF EndOf, n, half
    <2> HIDE DEF full
    <2>3. full \in s .. n /\ full - s < MaxChars /\ (full # n => s + half - 1 <= full)
      BY <1>1, <1>2, <2>1
    <2>4. CASE full = n \/ spaces = {}
      BY <2>2, <2>3, <2>4
    <2>5. CASE full # n /\ spaces # {}
      <3> DEFINE m == Max(spaces)
      <3>1. spaces \in SUBSET ((s + half) .. full) /\ s + half \in Nat /\ full \in Nat
        BY <1>1, <1>2, <2>3
      <3>2. m \in spaces
        <4> HIDE DEF spaces
        <4> QED BY <2>5, <3>1, LatestOf
      <3>3. m \in (s + half) .. full
        BY <3>2
      <3>4. EndOf(t, s) = m - 1
        BY <2>2, <2>5
      <3> HIDE DEF m, spaces
      <3> QED BY <1>1, <1>2, <2>3, <3>3, <3>4
    <2> QED BY <2>4, <2>5
  <1> DEFINE e == EndOf(t, i)
             next == NextStart(t, i)
  <1>4. e \in i .. n /\ e - i < MaxChars /\ (e # n => i + half - 1 <= e)
    BY <1>1, <1>3
  <1>5. next \in {i + 1, e + 1 - Overlap} /\ next >= i + 1 /\ next >= e + 1 - Overlap
    <2>1. e \in Int /\ i \in Int /\ Overlap \in Int
      BY <1>1, <1>2, <1>4
    <2> DEFINE a == i + 1
               b == e + 1 - Overlap
    <2>2. next = Max({a, b}) /\ a \in Int /\ b \in Int
      BY <2>1 DEF NextStart
    <2> HIDE DEF a, b, next
    <2>3. \E m \in {a, b} : \A x \in {a, b} : m >= x
      BY <2>2
    <2>4. next \in {a, b} /\ next >= a /\ next >= b
      BY <2>2, <2>3 DEF Max
    <2> QED BY <2>4 DEF a, b
  <1> HIDE DEF e, next
  <1>6. CASE e < n
    <2>1. next \in i + 1 .. n /\ next <= e + 1 /\ next \in 1 .. n
      BY <1>1, <1>2, <1>4, <1>5, <1>6
    <2>2. e < EndOf(t, next)
      <3> DEFINE g == EndOf(t, next)
      <3>1. g \in next .. n /\ (g # n => next + half - 1 <= g)
        BY <1>3, <2>1
      <3> HIDE DEF g
      <3>2. e \in Int /\ next \in Int /\ g \in Int /\ half \in Int /\ Overlap \in Int /\ n \in Int
        BY <1>1, <1>2, <1>4, <2>1, <3>1
      <3>3. CASE g = n
        BY <1>6, <3>3 DEF g
      <3>4. CASE g # n
        <4>1. next + half - 1 <= g /\ next >= e + 1 - Overlap /\ Overlap < half
          BY <1>2, <1>5, <3>1, <3>4
        <4>2. e < g
          BY <3>2, <4>1
        <4> QED BY <4>2 DEF g
      <3> QED BY <3>3, <3>4
    <2> QED BY <1>4, <2>1, <2>2 DEF e, next, n
  <1>7. CASE ~(e < n)
    BY <1>4, <1>7 DEF e, n
  <1> QED BY <1>6, <1>7

\* The chunks cut so far: each follows from the one before it, and together they
\* have what comes before the end of the last.
Chunk == [from : Nat, to : Nat]
ChunksOf(t) ==
  {c \in Seq(Chunk) :
     /\ Len(c) # 0
     /\ \A i \in 1 .. Len(c) : c[i].from \in 1 .. Len(t) /\ c[i].to = EndOf(t, c[i].from)
     /\ \A i \in 1 .. Len(c) - 1 : c[i].to < Len(t) /\ c[i + 1].from = NextStart(t, c[i].from)
     /\ \A p \in 1 .. c[Len(c)].to : \E i \in 1 .. Len(c) : p \in c[i].from .. c[i].to}

LEMMA ChunkIsChunk ==
  ASSUME NEW t \in Texts, NEW i \in 1 .. Len(t)
  PROVE  ChunkFrom(t, i) \in Chunk /\ ChunkFrom(t, i).from = i /\ ChunkFrom(t, i).to = EndOf(t, i)
  <1>1. i \in Nat /\ EndOf(t, i) \in Nat
    BY TextsAreSequences, EndsAreFurther
  <1> QED BY <1>1 DEF ChunkFrom, Chunk

LEMMA FirstChunk ==
  ASSUME NEW t \in Texts
  PROVE  <<ChunkFrom(t, 1)>> \in ChunksOf(t)
  <1> DEFINE c == ChunkFrom(t, 1)
             e == EndOf(t, 1)
             s == <<c>>
  <1>1. 1 \in 1 .. Len(t)
    BY TextsAreSequences
  <1>2. c \in Chunk /\ c.from = 1 /\ c.to = e
    BY <1>1, ChunkIsChunk
  <1> HIDE DEF c
  <1>3. s \in Seq(Chunk) /\ Len(s) = 1 /\ s[1] = c
    BY <1>2
  <1> HIDE DEF s
  <1>4. \A i \in 1 .. Len(s) : i = 1
    BY <1>3
  <1>5. \A i \in 1 .. Len(s) - 1 : FALSE
    BY <1>3
  <1>6. \A p \in 1 .. s[Len(s)].to : \E i \in 1 .. Len(s) : p \in s[i].from .. s[i].to
    <2>1. s[Len(s)].to = e /\ s[1].from = 1 /\ s[1].to = e /\ 1 \in 1 .. Len(s)
      BY <1>2, <1>3
    <2>2. e \in Int
      BY <1>1, EndsAreFurther
    <2> HIDE DEF e
    <2>3. \A p \in 1 .. s[Len(s)].to : p \in s[1].from .. s[1].to
      BY <2>1, <2>2
    <2> QED BY <2>1, <2>3
  <1>7. Len(s) # 0 /\ \A i \in 1 .. Len(s) : s[i].from \in 1 .. Len(t) /\ s[i].to = EndOf(t, s[i].from)
    BY <1>1, <1>2, <1>3
  <1>8. s \in ChunksOf(t)
    BY <1>3, <1>5, <1>6, <1>7 DEF ChunksOf
  <1> QED BY <1>8 DEF s, c

LEMMA MoreChunks ==
  ASSUME NEW t \in Texts, NEW c \in ChunksOf(t)
  PROVE  /\ NextChunk(t, c) \in ChunksOf(t)
         /\ \/ Last(c).to = Len(t) /\ NextChunk(t, c) = c
            \/ Last(NextChunk(t, c)).from \in Nat /\ Last(NextChunk(t, c)).from > Last(c).from
  <1> DEFINE n == Len(t)
             m == Len(c)
             i == Last(c).from
             e == Last(c).to
  <1>1. n \in Nat \ {0} /\ c \in Seq(Chunk) /\ m \in Nat \ {0}
    BY TextsAreSequences, LenProperties DEF ChunksOf
  <1>2. Last(c) = c[m]
    BY DEF Last
  <1>3. i \in 1 .. n /\ e = EndOf(t, i)
    BY <1>1, <1>2 DEF ChunksOf
  <1>4. e \in i .. n
    BY <1>3, EndsAreFurther
  <1>5. CASE e >= n
    <2>1. e = n
      BY <1>1, <1>3, <1>4, <1>5
    <2>2. NextChunk(t, c) = c
      BY <1>5 DEF NextChunk
    <2> QED BY <2>1, <2>2
  <1>6. CASE ~(e >= n)
    <2> DEFINE j == NextStart(t, i)
               d == ChunkFrom(t, j)
               s == Append(c, d)
    <2>1. e < n
      BY <1>1, <1>3, <1>4, <1>6
    <2>2. j \in i + 1 .. n /\ j <= e + 1 /\ e < EndOf(t, j) /\ j \in 1 .. n
      BY <1>1, <1>3, <2>1, EndsAreFurther
    <2>3. d \in Chunk /\ d.from = j /\ d.to = EndOf(t, j)
      BY <2>2, ChunkIsChunk
    <2>4. NextChunk(t, c) = s
      BY <1>6 DEF NextChunk
    <2>5. s \in Seq(Chunk) /\ Len(s) = m + 1 /\ s[m + 1] = d /\ \A k \in 1 .. m : s[k] = c[k]
      <3> HIDE DEF d
      <3> QED BY <1>1, <2>3, AppendProperties, LenProperties
    <2> HIDE DEF s, d, m, n, i, e, j
    <2>6. \A k \in 1 .. m + 1 : k \in 1 .. m \/ k = m + 1
      BY <1>1
    <2>7. \A k \in 1 .. m : c[k].from \in 1 .. n /\ c[k].to = EndOf(t, c[k].from)
      BY DEF ChunksOf, m, n
    <2>8. \A k \in 1 .. m + 1 : s[k].from \in 1 .. n /\ s[k].to = EndOf(t, s[k].from)
      BY <2>2, <2>3, <2>5, <2>6, <2>7
    <2>9. ASSUME NEW k \in 1 .. m PROVE s[k].to < n /\ s[k + 1].from = NextStart(t, s[k].from)
      <3>1. CASE k = m
        <4>1. s[k] = c[m] /\ s[k + 1] = d
          BY <1>1, <2>5, <3>1
        <4>2. c[m].from = i /\ c[m].to = e
          BY <1>2 DEF i, e
        <4> QED BY <2>1, <2>3, <4>1, <4>2 DEF j
      <3>2. CASE k # m
        <4>1. k \in 1 .. m - 1 /\ k + 1 \in 1 .. m
          BY <1>1, <3>2
        <4>2. c[k].to < n /\ c[k + 1].from = NextStart(t, c[k].from)
          BY <4>1 DEF ChunksOf, m, n
        <4> QED BY <2>5, <4>1, <4>2
      <3> QED BY <3>1, <3>2
    <2>10. ASSUME NEW p \in 1 .. d.to PROVE \E k \in 1 .. m + 1 : p \in s[k].from .. s[k].to
      <3>1. CASE p <= e
        <4>1. p \in 1 .. c[m].to
          <5>1. c[m].to = e /\ e \in Int
            BY <1>2, <1>4 DEF e
          <5> QED BY <3>1, <5>1
        <4>2. PICK k \in 1 .. m : p \in c[k].from .. c[k].to
          BY <4>1 DEF ChunksOf, m
        <4>3. k \in 1 .. m + 1 /\ s[k] = c[k]
          BY <1>1, <2>5
        <4> QED BY <4>2, <4>3
      <3>2. CASE ~(p <= e)
        <4>1. p \in d.from .. d.to
          BY <1>1, <1>3, <1>4, <2>2, <2>3, <3>2
        <4>2. m + 1 \in 1 .. m + 1
          BY <1>1
        <4> QED BY <2>5, <4>1, <4>2
      <3> QED BY <3>1, <3>2
    <2>11. (m + 1) - 1 = m /\ m + 1 # 0
      BY <1>1
    <2>12. s \in ChunksOf(t)
      BY <2>5, <2>8, <2>9, <2>10, <2>11 DEF ChunksOf, n
    <2>13. Last(s) = d
      BY <2>5 DEF Last
    <2>14. j > i /\ j \in Nat
      BY <1>1, <1>3, <2>2
    <2>15. Last(s).from \in Nat /\ Last(s).from > i
      BY <2>3, <2>13, <2>14
    <2> QED BY <2>4, <2>12, <2>15 DEF i
  <1> QED BY <1>5, <1>6

\* After as many rounds as the text has letters, its end has been reached.
LEMMA SplitReachesEnd ==
  ASSUME NEW t \in Texts
  PROVE  SplitText(t) \in ChunksOf(t) /\ Last(SplitText(t)).to = Len(t)
  <1> DEFINE n == Len(t)
             S == ChunksOf(t)
  <1>1. n \in Nat \ {0}
    BY TextsAreSequences
  <1>2. <<ChunkFrom(t, 1)>> \in S /\ \A k \in 1 .. n : \A p \in S : NextChunk(t, p) \in S
    BY FirstChunk, MoreChunks
  <1>3. PICK f \in [0 .. n -> S] :
           /\ f[0] = <<ChunkFrom(t, 1)>> /\ \A k \in 1 .. n : f[k] = NextChunk(t, f[k - 1])
           /\ SplitText(t) = f[n]
    <2> HIDE DEF S
    <2> QED BY <1>1, <1>2, SplitUnfolds
  <1> DEFINE P == {k \in 0 .. n : Last(f[k]).to = n \/ (Last(f[k]).from \in Nat /\ Last(f[k]).from >= k + 1)}
  <1>4. 0 \in P
    <2>1. 1 \in 1 .. n /\ 0 \in 0 .. n
      BY <1>1
    <2>2. Last(f[0]).from = 1
      <3> DEFINE c == ChunkFrom(t, 1)
      <3>1. c.from = 1
        BY <2>1, ChunkIsChunk
      <3> HIDE DEF c
      <3>2. Last(<<c>>) = c
        BY DEF Last
      <3> QED BY <1>3, <3>1, <3>2 DEF c
    <2> QED BY <2>1, <2>2
  <1>5. ASSUME NEW k \in 1 .. n, k - 1 \in P PROVE k \in P
    <2>1. k - 1 \in 0 .. n /\ k \in 0 .. n /\ f[k - 1] \in S /\ f[k] = NextChunk(t, f[k - 1])
      BY <1>1, <1>3
    <2>2. \/ Last(f[k - 1]).to = n /\ f[k] = f[k - 1]
          \/ Last(f[k]).from \in Nat /\ Last(f[k]).from > Last(f[k - 1]).from
      BY <2>1, MoreChunks
    <2>3. CASE Last(f[k - 1]).to = n
      <3>1. f[k] = f[k - 1]
        BY <2>1, <2>3 , <1>1 DEF NextChunk
      <3> QED BY <2>1, <2>3, <3>1
    <2>4. CASE Last(f[k - 1]).to # n
      <3>1. Last(f[k - 1]).from \in Nat /\ Last(f[k - 1]).from >= (k - 1) + 1
        BY <1>5, <2>4
      <3>2. Last(f[k]).from \in Nat /\ Last(f[k]).from > Last(f[k - 1]).from
        BY <2>2, <2>4
      <3> DEFINE a == Last(f[k - 1]).from
                 b == Last(f[k]).from
      <3>3. a \in Nat /\ b \in Nat /\ a >= (k - 1) + 1 /\ b > a
        BY <3>1, <3>2
      <3> HIDE DEF a, b
      <3>4. b >= k + 1
        BY <1>1, <3>3
      <3> QED BY <2>1, <3>3, <3>4 DEF b
    <2> QED BY <2>3, <2>4
  <1>6. n \in P
    <2>1. n \in 0 .. n
      BY <1>1
    <2> HIDE DEF P
    <2> QED BY <1>1, <1>4, <1>5, <2>1, UpTo
  <1>7. f[n] \in S /\ Last(f[n]).from <= n
    <2>1. f[n] \in S
      BY <1>1, <1>3
    <2>2. f[n] \in Seq(Chunk) /\ Len(f[n]) # 0 /\ Len(f[n]) \in Nat
      BY <2>1, LenProperties DEF ChunksOf
    <2>3. Len(f[n]) \in 1 .. Len(f[n])
      BY <2>2
    <2>4. Last(f[n]).from \in 1 .. n
      BY <2>1, <2>3 DEF ChunksOf, Last
    <2> QED BY <1>1, <2>1, <2>4
  <1>8. Last(f[n]).to = n
    BY <1>1, <1>6, <1>7
  <1> QED BY <1>3, <1>7, <1>8

\* What a search computes from what it was given.
SearchInv ==
  search.kind = "split" => search.text \in Texts /\ (search.done => search.out = SplitText(search.text))

\* The chunks of a page have all of its letters, none is too long, and each begins
\* before or where the one before it has ended and ends after it: a cut at a space
\* moves the next start back with it.
THEOREM ChunksCoverTheirPage == SearchSpec => []ChunksCoverPage
  <1>1. SearchInit => SearchInv
    BY DEF SearchInit, SearchInv
  <1>2. SearchInv /\ [SearchNext]_searchVars => SearchInv'
    <2> SUFFICES ASSUME SearchInv, [SearchNext]_searchVars PROVE SearchInv'
      OBVIOUS
    <2>1. CASE UNCHANGED searchVars
      BY <2>1 DEF searchVars, SearchInv
    <2>2. CASE PageToIndex
      BY <2>2 DEF PageToIndex, SearchInv
    <2>3. CASE Searched
      BY <2>3 DEF Searched, SearchInv
    <2>4. CASE Split
      BY <2>4 DEF Split, SearchInv
    <2>5. CASE Fuse
      BY <2>5 DEF Fuse, SearchInv
    <2> QED BY <2>1, <2>2, <2>3, <2>4, <2>5 DEF SearchNext
  <1>3. SearchInv => ChunksCoverPage
    <2> SUFFICES ASSUME SearchInv, search.kind = "split", search.done PROVE ChunksCoverPage
      BY DEF ChunksCoverPage
    <2> DEFINE t == search.text
               c == search.out
    <2>1. t \in Texts /\ c = SplitText(t)
      BY DEF SearchInv
    <2> HIDE DEF t, c
    <2>2. c \in ChunksOf(t) /\ Last(c).to = Len(t)
      BY <2>1, SplitReachesEnd
    <2>3. Len(t) \in Nat \ {0} /\ DOMAIN t = 1 .. Len(t)
      BY <2>1, TextsAreSequences, LenProperties
    <2>4. c \in Seq(Chunk) /\ Len(c) \in Nat /\ DOMAIN c = 1 .. Len(c)
      BY <2>2, LenProperties DEF ChunksOf
    <2>5. \A p \in 1 .. Len(t) : \E i \in 1 .. Len(c) : p \in c[i].from .. c[i].to
      BY <2>2 DEF ChunksOf, Last
    <2>6. \A i \in 1 .. Len(c) : c[i].to - c[i].from < MaxChars
      BY <2>1, <2>2, EndsAreFurther DEF ChunksOf
    <2>7. ASSUME NEW i \in 1 .. (Len(c) - 1) PROVE c[i + 1].from <= c[i].to + 1 /\ c[i].to < c[i + 1].to
      <3>1. i \in 1 .. Len(c) /\ i + 1 \in 1 .. Len(c)
        BY <2>4
      <3>2. /\ c[i].from \in 1 .. Len(t) /\ c[i].to = EndOf(t, c[i].from) /\ c[i].to < Len(t)
            /\ c[i + 1].from = NextStart(t, c[i].from) /\ c[i + 1].to = EndOf(t, c[i + 1].from)
        BY <2>2, <3>1 DEF ChunksOf
      <3> QED BY <2>1, <3>2, EndsAreFurther
    <2> QED BY <2>3, <2>4, <2>5, <2>6, <2>7 DEF ChunksCoverPage, t, c
  <1> QED BY <1>1, <1>2, <1>3, PTL DEF SearchSpec

-----------------------------------------------------------------------------
(* Retrieval: the fusion of two rankings. *)

\* The scale is a product, so scores are whole numbers.
LEMMA ScaleIsNatural == Scale \in Nat
  <1> DEFINE Rec(h) == h = [r \in 0 .. MaxRank |-> IF r = 0 THEN 1 ELSE h[r - 1] * (RrfK + r)]
             product == CHOOSE h : Rec(h)
             step == [x \in (1 .. MaxRank) \X Nat |-> x[2] * (RrfK + x[1])]
  <1>1. \A r \in 1 .. MaxRank : \A p \in Nat : p * (RrfK + r) \in Nat
    BY FuseAssumption
  <1>2. /\ step \in [(1 .. MaxRank) \X Nat -> Nat]
        /\ \A r \in 1 .. MaxRank : \A p \in Nat : step[<<r, p>>] = p * (RrfK + r)
    BY <1>1
  <1> HIDE DEF step
  <1>3. \E h : Rec(h)
    <2>1. PICK f \in [0 .. MaxRank -> Nat] : IsRecursion(f, MaxRank, 1, step)
      BY <1>2, FuseAssumption, RecursionExists
    <2>2. f[0] = 1 /\ \A r \in 1 .. MaxRank : f[r] = step[<<r, f[r - 1]>>]
      BY <2>1 DEF IsRecursion
    <2>3. ASSUME NEW r \in 0 .. MaxRank PROVE f[r] = IF r = 0 THEN 1 ELSE f[r - 1] * (RrfK + r)
      <3>1. CASE r = 0
        BY <2>2, <3>1
      <3>2. CASE r # 0
        <4>1. r \in 1 .. MaxRank /\ r - 1 \in 0 .. MaxRank
          BY <3>2, FuseAssumption
        <4>2. f[r - 1] \in Nat
          BY <4>1
        <4> QED BY <1>2, <2>2, <3>2, <4>1, <4>2
      <3> QED BY <3>1, <3>2
    <2>4. f = [r \in 0 .. MaxRank |-> f[r]]
      OBVIOUS
    <2> QED BY <2>3, <2>4
  <1>4. Rec(product)
    <2> HIDE DEF Rec
    <2> QED BY <1>3
  <1> HIDE DEF product
  <1>5. \A r \in 0 .. MaxRank : product[r] = IF r = 0 THEN 1 ELSE product[r - 1] * (RrfK + r)
    BY <1>4
  <1>6. DOMAIN product = 0 .. MaxRank
    BY <1>4
  <1>7. 0 \in 0 .. MaxRank /\ MaxRank \in 0 .. MaxRank /\ \A r \in 1 .. MaxRank : r \in 0 .. MaxRank /\ r # 0
    BY FuseAssumption
  <1> HIDE DEF Rec
  <1>8. product[0] = 1 /\ \A r \in 1 .. MaxRank : product[r - 1] \in Nat => product[r] = step[<<r, product[r - 1]>>]
    <2>1. product[0] = 1
      BY <1>5, <1>7
    <2>2. ASSUME NEW r \in 1 .. MaxRank, product[r - 1] \in Nat PROVE product[r] = step[<<r, product[r - 1]>>]
      <3>1. product[r] = product[r - 1] * (RrfK + r)
        BY <1>5, <1>7
      <3>2. step[<<r, product[r - 1]>>] = product[r - 1] * (RrfK + r)
        BY <1>2, <2>2
      <3> QED BY <3>1, <3>2
    <2> QED BY <2>1, <2>2
  <1>9. \A r \in 0 .. MaxRank : product[r] \in Nat
    <2> DEFINE P == {r \in 0 .. MaxRank : product[r] \in Nat}
    <2>1. 0 \in P
      BY <1>7, <1>8
    <2>2. ASSUME NEW r \in 1 .. MaxRank, r - 1 \in P PROVE r \in P
      <3>1. product[r - 1] \in Nat /\ r \in 0 .. MaxRank
        BY <1>7, <2>2
      <3>2. product[r] = step[<<r, product[r - 1]>>]
        BY <1>8, <3>1
      <3>3. step[<<r, product[r - 1]>>] \in Nat
        BY <1>2, <3>1
      <3> QED BY <3>1, <3>2, <3>3
    <2>3. \A r \in 0 .. MaxRank : r \in P
      <3> HIDE DEF P
      <3> QED BY <2>1, <2>2, FuseAssumption, UpTo
    <2> QED BY <2>3
  <1>10. Scale = product[MaxRank]
    BY DEF Scale, product, Rec
  <1> QED BY <1>7, <1>9, <1>10

\* Two rankings of candidates.
LEMMA RankingsAreSequences ==
  ASSUME NEW l \in Ranking
  PROVE  l \in Seq(Candidates) /\ IsFiniteSet(ToSet(l)) /\ ToSet(l) \in SUBSET Candidates
  <1>1. PICK m \in 0 .. MaxRank : l \in [1 .. m -> Candidates]
    BY DEF Ranking, SeqOf
  <1>2. m \in Nat
    BY FuseAssumption
  <1>3. l \in Seq(Candidates)
    BY <1>1, <1>2, SeqDef
  <1>4. IsFiniteSet(1 .. m) /\ l \in Surjection(1 .. m, ToSet(l))
    <2>1. \A x \in ToSet(l) : \E i \in 1 .. m : l[i] = x
      BY <1>1 DEF ToSet
    <2>2. l \in [1 .. m -> ToSet(l)]
      BY <1>1 DEF ToSet
    <2>3. IsFiniteSet(1 .. m)
      BY <1>2, FS_Interval
    <2> QED BY <2>1, <2>2, <2>3 DEF Surjection
  <1>5. IsFiniteSet(ToSet(l))
    BY <1>4, FS_Surjection
  <1> QED BY <1>1, <1>3, <1>5 DEF ToSet

\* What one channel adds to the score of a candidate is a number.
LEMMA SharesAreNumbers ==
  ASSUME NEW l \in Ranking, NEW f
  PROVE  Share(l, f) \in Int
  <1>1. CASE f \in ToSet(l)
    <2> DEFINE I == {i \in DOMAIN l : l[i] = f}
    <2>1. DOMAIN l = 1 .. Len(l) /\ Len(l) \in Nat
      BY RankingsAreSequences, LenProperties
    <2>2. I \in SUBSET Nat /\ I # {} /\ 0 \notin I
      BY <1>1, <2>1 DEF ToSet
    <2> HIDE DEF I
    <2>3. Min(I) \in Nat /\ Min(I) # 0
      BY <2>2, MinIsLeast
    <2>4. RankIn(l, f) \in Nat /\ RankIn(l, f) # 0
      BY <2>3 DEF RankIn, I
    <2>5. RrfK + RankIn(l, f) \in Nat /\ RrfK + RankIn(l, f) > 0
      BY <2>4, FuseAssumption
    <2>6. Scale \div (RrfK + RankIn(l, f)) \in Int
      <3> DEFINE d == RrfK + RankIn(l, f)
                 s == Scale
      <3>1. d \in Nat /\ d > 0 /\ s \in Nat
        BY <2>5, ScaleIsNatural
      <3> HIDE DEF d, s
      <3>2. s \div d \in Int
        BY <3>1
      <3> QED BY <3>2 DEF d, s
    <2> QED BY <1>1, <2>6 DEF Share
  <1>2. CASE f \notin ToSet(l)
    BY <1>2 DEF Share
  <1> QED BY <1>1, <1>2

\* The comparison of the sort, as a relation.
Order(l, s) == {e \in FoundBy(l, s) \X FoundBy(l, s) : Before(l, s, e[1], e[2])}

\* The scores, and the place of a page where they are equal, order what is found.
LEMMA FoundIsOrdered ==
  ASSUME NEW l \in Ranking, NEW s \in Ranking
  PROVE  /\ IsFiniteSet(FoundBy(l, s)) /\ FoundBy(l, s) \in SUBSET Candidates
         /\ IsTotalOrder(Order(l, s), FoundBy(l, s))
         /\ \A f, g \in FoundBy(l, s) : <<f, g>> \in Order(l, s) <=> Before(l, s, f, g)
         /\ \A f \in FoundBy(l, s) : RankedBefore(l, s, f) = Below(Order(l, s), FoundBy(l, s), f)
  <1> DEFINE C == FoundBy(l, s)
             R == Order(l, s)
             score(f) == RrfScore(l, s, f)
  <1>1. IsFiniteSet(C) /\ C \in SUBSET Candidates
    BY RankingsAreSequences, FS_Union DEF FoundBy
  <1>2. \A f \in C : score(f) \in Int
    <2>1. ASSUME NEW f \in C PROVE score(f) \in Int
      <3>1. Share(l, f) \in Int /\ Share(s, f) \in Int
        BY SharesAreNumbers
      <3> QED BY <3>1 DEF RrfScore
    <2> QED BY <2>1
  <1>3. \A f \in C : f.doc \in Int /\ f.page \in Int /\ f = [doc |-> f.doc, page |-> f.page]
    BY <1>1, FuseAssumption DEF Candidates
  <1>4. \A f, g \in C : <<f, g>> \in R <=> Before(l, s, f, g)
    BY DEF Order
  <1>5. \A f, g \in C : Before(l, s, f, g) <=>
          \/ score(f) > score(g)
          \/ score(f) = score(g) /\ (f.doc < g.doc \/ (f.doc = g.doc /\ f.page < g.page))
    BY DEF Before
  <1> HIDE DEF C, R, score
  <1>6. \A f \in C : <<f, f>> \notin R
    BY <1>2, <1>3, <1>4, <1>5
  <1>7. ASSUME NEW f \in C, NEW g \in C, f # g PROVE <<f, g>> \in R \/ <<g, f>> \in R
    <2>1. f.doc # g.doc \/ f.page # g.page
      BY <1>3, <1>7
    <2>2. /\ score(f) \in Int /\ score(g) \in Int
          /\ f.doc \in Int /\ g.doc \in Int /\ f.page \in Int /\ g.page \in Int
      BY <1>2, <1>3
    <2>3. \/ score(f) > score(g)
          \/ score(f) = score(g) /\ (f.doc < g.doc \/ (f.doc = g.doc /\ f.page < g.page))
          \/ score(g) > score(f)
          \/ score(g) = score(f) /\ (g.doc < f.doc \/ (g.doc = f.doc /\ g.page < f.page))
      BY <2>1, <2>2
    <2> QED BY <1>4, <1>5, <2>3
  <1>8. ASSUME NEW f \in C, NEW g \in C, NEW h \in C, <<f, g>> \in R, <<g, h>> \in R PROVE <<f, h>> \in R
    <2>1. /\ score(f) \in Int /\ score(g) \in Int /\ score(h) \in Int
          /\ f.doc \in Int /\ g.doc \in Int /\ h.doc \in Int
          /\ f.page \in Int /\ g.page \in Int /\ h.page \in Int
      BY <1>2, <1>3
    <2>2. \/ score(f) > score(g)
          \/ score(f) = score(g) /\ (f.doc < g.doc \/ (f.doc = g.doc /\ f.page < g.page))
      BY <1>4, <1>5, <1>8
    <2>3. \/ score(g) > score(h)
          \/ score(g) = score(h) /\ (g.doc < h.doc \/ (g.doc = h.doc /\ g.page < h.page))
      BY <1>4, <1>5, <1>8
    <2>4. \/ score(f) > score(h)
          \/ score(f) = score(h) /\ (f.doc < h.doc \/ (f.doc = h.doc /\ f.page < h.page))
      BY <2>1, <2>2, <2>3
    <2> QED BY <1>4, <1>5, <2>4
  <1>9. IsTotalOrder(R, C)
    BY <1>6, <1>7, <1>8 DEF IsTotalOrder
  <1>10. \A f \in C : RankedBefore(l, s, f) = Below(R, C, f)
    BY <1>4 DEF RankedBefore, Below, C
  <1> QED BY <1>1, <1>4, <1>9, <1>10 DEF C, R

\* The sorted list: everything found, each once, by the order.
Sorted(o, C, R) ==
  /\ o \in Seq(C) /\ Len(o) \in Nat
  /\ \A f \in C : \E k \in 1 .. Len(o) : o[k] = f
  /\ \A j, k \in 1 .. Len(o) : j < k => <<o[j], o[k]>> \in R /\ <<o[k], o[j]>> \notin R /\ o[j] # o[k]

\* The sort leaves nothing out and repeats nothing.
LEMMA OrderedIsSorted ==
  ASSUME NEW l \in Ranking, NEW s \in Ranking
  PROVE  Sorted(Ordered(l, s), FoundBy(l, s), Order(l, s))
  <1> DEFINE C == FoundBy(l, s)
             R == Order(l, s)
             n == Cardinality(C)
             count(f) == Cardinality(Below(R, C, f))
             o == Ordered(l, s)
  <1>1. IsFiniteSet(C) /\ IsTotalOrder(R, C) /\ \A f \in C : RankedBefore(l, s, f) = Below(R, C, f)
    BY FoundIsOrdered
  <1>2. o = [k \in 1 .. n |-> CHOOSE f \in C : Cardinality(RankedBefore(l, s, f)) = k - 1]
    BY DEF Ordered
  <1> HIDE DEF C, R, o
  <1>3. /\ n \in Nat
        /\ \A k \in 1 .. n : \E f \in C : count(f) = k - 1
        /\ \A f \in C : count(f) \in 0 .. n - 1
        /\ \A f, g \in C : count(f) = count(g) => f = g
    BY <1>1, PlacesFilled
  <1>4. ASSUME NEW k \in 1 .. n PROVE o[k] \in C /\ count(o[k]) = k - 1
    <2>1. o[k] = CHOOSE f \in C : Cardinality(RankedBefore(l, s, f)) = k - 1
      BY <1>2
    <2>2. \E f \in C : Cardinality(RankedBefore(l, s, f)) = k - 1
      BY <1>1, <1>3
    <2>3. o[k] \in C /\ Cardinality(RankedBefore(l, s, o[k])) = k - 1
      BY <2>1, <2>2
    <2> QED BY <1>1, <2>3
  <1>5. o \in [1 .. n -> C]
    BY <1>2, <1>4
  <1>6. o \in Seq(C) /\ Len(o) = n
    <2>1. n \in Nat
      BY <1>3
    <2> HIDE DEF n
    <2>2. o \in Seq(C)
      BY <1>5, <2>1, SeqDef
    <2> QED BY <1>5, <2>1, <2>2
  <1>7. ASSUME NEW f \in C PROVE \E k \in 1 .. n : o[k] = f
    <2> DEFINE k == count(f) + 1
    <2>1. k \in 1 .. n /\ k - 1 = count(f)
      BY <1>3
    <2>2. o[k] = f
      <3> HIDE DEF k
      <3> QED BY <1>3, <1>4, <2>1
    <2> QED BY <2>1, <2>2
  <1>8. ASSUME NEW j \in 1 .. n, NEW k \in 1 .. n, j < k
        PROVE  <<o[j], o[k]>> \in R /\ <<o[k], o[j]>> \notin R /\ o[j] # o[k]
    <2>1. o[j] \in C /\ o[k] \in C /\ count(o[j]) = j - 1 /\ count(o[k]) = k - 1
      BY <1>4
    <2>2. j \in Int /\ k \in Int
      OBVIOUS
    <2>3. o[j] # o[k]
      BY <1>8, <2>1, <2>2
    <2>4. <<o[k], o[j]>> \notin R
      <3> SUFFICES ASSUME <<o[k], o[j]>> \in R PROVE FALSE
        OBVIOUS
      <3>1. count(o[k]) < count(o[j])
        BY <1>1, <2>1, MoreBelow
      <3> HIDE DEF count
      <3> QED BY <1>8, <2>1, <2>2, <3>1
    <2>5. <<o[j], o[k]>> \in R
      BY <1>1, <2>1, <2>3, <2>4 DEF IsTotalOrder
    <2> QED BY <2>3, <2>4, <2>5
  <1> HIDE DEF n, count
  <1> QED BY <1>3, <1>6, <1>7, <1>8 DEF Sorted, C, R, o

\* What is chosen of the first k candidates of the list: each once, within the
\* limits, and what was passed over was passed over for ones before it.
ChosenOf(c, d) == {g \in ToSet(c) : g.doc = d}
LostTo(c, o, k, R) ==
  \/ Cardinality({g \in ToSet(c) : <<g, o[k]>> \in R}) = TopResults
  \/ Cardinality({g \in ChosenOf(c, o[k].doc) : <<g, o[k]>> \in R}) = MaxPerDoc
ChosenFrom(c, o, C, R, k) ==
  /\ c \in Seq(C) /\ IsInjective(c) /\ Len(c) <= TopResults
  /\ \A g \in ToSet(c) : \E j \in 1 .. k : o[j] = g
  /\ \A d \in 1 .. FoundDocs : Cardinality(ChosenOf(c, d)) <= MaxPerDoc
  /\ \A j \in 1 .. k : o[j] \in ToSet(c) \/ LostTo(c, o, j, R)

\* Results and the results of one document can be counted by place or by element.
LEMMA ChosenCounted ==
  ASSUME NEW C, NEW c \in Seq(C), IsInjective(c)
  PROVE  /\ IsFiniteSet(ToSet(c)) /\ Cardinality(ToSet(c)) = Len(c) /\ ToSet(c) \in SUBSET C
         /\ Len(c) \in Nat
         /\ \A d : /\ Cardinality({i \in DOMAIN c : c[i].doc = d}) = Cardinality(ChosenOf(c, d))
                   /\ Cardinality(ChosenOf(c, d)) \in Nat
  <1>1. DOMAIN c = 1 .. Len(c) /\ Len(c) \in Nat /\ \A i \in 1 .. Len(c) : c[i] \in C
    BY LenProperties
  <1>2. Cardinality(1 .. Len(c)) = Len(c)
    <2>1. Len(c) \in Int /\ (1 > Len(c) => Len(c) = 0) /\ Len(c) - 1 + 1 = Len(c)
      BY <1>1
    <2> QED BY <2>1, FS_Interval
  <1>3. IsFiniteSet(ToSet(c)) /\ Cardinality(ToSet(c)) = Len(c)
    <2> DEFINE I == DOMAIN c
    <2>1. I \in SUBSET DOMAIN c
      OBVIOUS
    <2>2. ToSet(c) = ElementsAt(c, I) /\ I = 1 .. Len(c)
      BY <1>1 DEF ToSet, ElementsAt
    <2> HIDE DEF I
    <2>3. IsFiniteSet(ElementsAt(c, I)) /\ Cardinality(ElementsAt(c, I)) = Cardinality(I)
      BY <2>1, CountedOnce
    <2> QED BY <1>2, <2>2, <2>3
  <1>4. ASSUME NEW d
        PROVE  /\ Cardinality({i \in DOMAIN c : c[i].doc = d}) = Cardinality(ChosenOf(c, d))
               /\ Cardinality(ChosenOf(c, d)) \in Nat
    <2> DEFINE I == {i \in DOMAIN c : c[i].doc = d}
    <2>1. I \in SUBSET DOMAIN c
      OBVIOUS
    <2>2. ChosenOf(c, d) = ElementsAt(c, I)
      BY DEF ChosenOf, ToSet, ElementsAt
    <2> HIDE DEF I
    <2>3. Cardinality(ElementsAt(c, I)) = Cardinality(I) /\ Cardinality(ElementsAt(c, I)) \in Nat
      BY <2>1, CountedOnce
    <2> QED BY <2>2, <2>3 DEF I
  <1> QED BY <1>1, <1>3, <1>4 DEF ToSet

\* One more candidate keeps that.
LEMMA TakeKeeps ==
  ASSUME NEW C, NEW R, NEW o, NEW c, NEW k,
         C \in SUBSET Candidates, Sorted(o, C, R), k \in 1 .. Len(o), ChosenFrom(c, o, C, R, k - 1)
  PROVE  ChosenFrom(Take(c, o[k]), o, C, R, k)
  <1> DEFINE f == o[k]
             out == ToSet(c)
  <1>1. Len(o) \in Nat /\ k \in Int /\ 1 <= k /\ k <= Len(o) /\ \A j \in 1 .. Len(o) : o[j] \in C
    BY LenProperties DEF Sorted
  <1>2. f \in C /\ f.doc \in 1 .. FoundDocs
    BY <1>1 DEF Candidates
  <1>3. c \in Seq(C) /\ IsInjective(c) /\ Len(c) <= TopResults
    BY DEF ChosenFrom
  <1>4. /\ IsFiniteSet(out) /\ Cardinality(out) = Len(c) /\ out \in SUBSET C /\ Len(c) \in Nat
        /\ \A d : /\ Cardinality({i \in DOMAIN c : c[i].doc = d}) = Cardinality(ChosenOf(c, d))
                  /\ Cardinality(ChosenOf(c, d)) \in Nat
    BY <1>3, ChosenCounted
  <1>5. \A j \in 1 .. k - 1 : j \in 1 .. Len(o) /\ j < k
    BY <1>1
  <1>6. \A j \in 1 .. k : j \in 1 .. k - 1 \/ j = k
    BY <1>1
  <1>7. \A g \in out : \E j \in 1 .. k - 1 : o[j] = g
    BY DEF ChosenFrom
  <1>8. \A g \in out : <<g, f>> \in R /\ g # f
    BY <1>5, <1>7 DEF Sorted
  <1>9. \A j \in 1 .. k - 1 : <<f, o[j]>> \notin R
    BY <1>5 DEF Sorted
  <1>10. \A j \in 1 .. k - 1 : j \in 1 .. k
    BY <1>1
  <1>11. CASE Take(c, f) = c /\ LostTo(c, o, k, R)
    BY <1>6, <1>10, <1>11 DEF ChosenFrom
  <1>12. CASE Len(c) >= TopResults
    <2>1. Take(c, f) = c
      BY <1>12 DEF Take
    <2>2. Cardinality(out) = TopResults
      BY <1>3, <1>4, <1>12, FuseAssumption
    <2>3. {g \in out : <<g, f>> \in R} = out
      BY <1>8
    <2>4. LostTo(c, o, k, R)
      BY <2>2, <2>3 DEF LostTo
    <2> QED BY <1>11, <2>1, <2>4
  <1>13. CASE Cardinality({i \in DOMAIN c : c[i].doc = f.doc}) >= MaxPerDoc
    <2>1. Take(c, f) = c
      BY <1>13 DEF Take
    <2>2. Cardinality(ChosenOf(c, f.doc)) = MaxPerDoc
      <3>1. Cardinality(ChosenOf(c, f.doc)) <= MaxPerDoc
        BY <1>2 DEF ChosenFrom
      <3>2. Cardinality(ChosenOf(c, f.doc)) >= MaxPerDoc /\ Cardinality(ChosenOf(c, f.doc)) \in Nat
        BY <1>4, <1>13
      <3> QED BY <3>1, <3>2, FuseAssumption
    <2>3. {g \in ChosenOf(c, f.doc) : <<g, f>> \in R} = ChosenOf(c, f.doc)
      BY <1>8 DEF ChosenOf
    <2>4. LostTo(c, o, k, R)
      BY <2>2, <2>3 DEF LostTo
    <2> QED BY <1>11, <2>1, <2>4
  <1>14. CASE ~(Len(c) >= TopResults) /\ ~(Cardinality({i \in DOMAIN c : c[i].doc = f.doc}) >= MaxPerDoc)
    <2> DEFINE e == Append(c, f)
               n == Len(c)
    <2>1. Take(c, f) = e
      BY <1>14 DEF Take
    <2>2. /\ e \in Seq(C) /\ Len(e) = n + 1 /\ e[n + 1] = f
          /\ \A i \in 1 .. n : e[i] = c[i]
      BY <1>2, <1>3, AppendProperties
    <2>3. DOMAIN e = 1 .. n + 1 /\ DOMAIN c = 1 .. n /\ n \in Nat
      BY <1>3, <2>2, LenProperties
    <2> HIDE DEF e, n
    <2>4. \A i \in 1 .. n + 1 : i \in 1 .. n \/ i = n + 1
      BY <2>3
    <2>5. ToSet(e) = out \cup {f}
      <3>1. \A i \in 1 .. n : i \in 1 .. n + 1
        BY <2>3
      <3>2. n + 1 \in 1 .. n + 1
        BY <2>3
      <3>3. ASSUME NEW g \in ToSet(e) PROVE g \in out \cup {f}
        <4>1. PICK i \in 1 .. n + 1 : g = e[i]
          BY <2>3, <3>3 DEF ToSet
        <4> QED BY <2>2, <2>3, <2>4, <4>1 DEF ToSet
      <3>4. ASSUME NEW g \in out PROVE g \in ToSet(e)
        <4>1. PICK i \in 1 .. n : g = c[i]
          BY <2>3, <3>4 DEF ToSet
        <4> QED BY <2>2, <2>3, <3>1, <4>1 DEF ToSet
      <3>5. f \in ToSet(e)
        BY <2>2, <2>3, <3>2 DEF ToSet
      <3> HIDE DEF f, out
      <3> QED BY <3>3, <3>4, <3>5
    <2>6. IsInjective(e)
      <3> SUFFICES ASSUME NEW i \in 1 .. n + 1, NEW j \in 1 .. n + 1, e[i] = e[j] PROVE i = j
        BY <2>3 DEF IsInjective
      <3>1. \A m \in 1 .. n : e[m] \in out /\ e[m] # f
        BY <1>8, <2>2, <2>3 DEF ToSet
      <3>2. CASE i \in 1 .. n /\ j \in 1 .. n
        BY <1>3, <2>2, <2>3, <3>2 DEF IsInjective
      <3>3. CASE i \in 1 .. n /\ j = n + 1
        BY <2>2, <3>1, <3>3
      <3>4. CASE i = n + 1 /\ j \in 1 .. n
        BY <2>2, <3>1, <3>4
      <3> QED BY <2>4, <3>2, <3>3, <3>4
    <2>7. Len(e) <= TopResults
      BY <1>14, <2>2, <2>3, FuseAssumption DEF n
    <2>8. ASSUME NEW d \in 1 .. FoundDocs PROVE Cardinality(ChosenOf(e, d)) <= MaxPerDoc
      <3>1. CASE d = f.doc
        <4>1. ChosenOf(e, d) = ChosenOf(c, d) \cup {f} /\ f \notin ChosenOf(c, d)
          BY <1>8, <2>5, <3>1 DEF ChosenOf
        <4>2. IsFiniteSet(ChosenOf(c, d))
          BY <1>4, FS_Subset DEF ChosenOf
        <4>3. Cardinality(ChosenOf(e, d)) = Cardinality(ChosenOf(c, d)) + 1
          BY <4>1, <4>2, FS_AddElement
        <4>4. Cardinality(ChosenOf(c, d)) \in Nat /\ ~(Cardinality(ChosenOf(c, d)) >= MaxPerDoc)
          BY <1>4, <1>14, <3>1
        <4> QED BY <4>3, <4>4, FuseAssumption
      <3>2. CASE d # f.doc
        <4>1. ChosenOf(e, d) = ChosenOf(c, d)
          BY <2>5, <3>2 DEF ChosenOf
        <4> QED BY <4>1 DEF ChosenFrom
      <3> QED BY <3>1, <3>2
    <2>9. ASSUME NEW j \in 1 .. k PROVE o[j] \in ToSet(e) \/ LostTo(e, o, j, R)
      <3>1. CASE j = k
        BY <2>5, <3>1
      <3>2. CASE j \in 1 .. k - 1
        <4>1. {g \in ToSet(e) : <<g, o[j]>> \in R} = {g \in ToSet(c) : <<g, o[j]>> \in R}
          BY <1>9, <2>5, <3>2
        <4>2. {g \in ChosenOf(e, o[j].doc) : <<g, o[j]>> \in R} = {g \in ChosenOf(c, o[j].doc) : <<g, o[j]>> \in R}
          BY <1>9, <2>5, <3>2 DEF ChosenOf
        <4>3. o[j] \in ToSet(c) \/ LostTo(c, o, j, R)
          BY <3>2 DEF ChosenFrom
        <4> QED BY <2>5, <4>1, <4>2, <4>3 DEF LostTo
      <3> QED BY <1>6, <3>1, <3>2
    <2>10. \A g \in ToSet(e) : \E j \in 1 .. k : o[j] = g
      <3>1. k \in 1 .. k
        BY <1>1
      <3> QED BY <1>7, <1>10, <2>5, <3>1
    <2> QED BY <2>1, <2>2, <2>6, <2>7, <2>8, <2>9, <2>10 DEF ChosenFrom
  <1> QED BY <1>12, <1>13, <1>14

\* The rounds of the fusion, and a set they stay in.
IsFusing(f, l, s, n) ==
  /\ f[0] = <<>> /\ \A k \in 1 .. n : f[k] = Take(f[k - 1], Ordered(l, s)[k])
  /\ FuseRanked(l, s) = f[n]
StaysIn(S, l, s, n) == <<>> \in S /\ \A k \in 1 .. n : \A p \in S : Take(p, Ordered(l, s)[k]) \in S

\* The candidates are taken one after the other.
LEMMA FuseUnfolds ==
  ASSUME NEW l, NEW s, NEW S, NEW n,
         n \in Nat, Len(Ordered(l, s)) = n, StaysIn(S, l, s, n)
  PROVE  \E f : IsFusing(f, l, s, n)
  <1> DEFINE o == Ordered(l, s)
             Rec(f) == f = [k \in 0 .. Len(o) |-> IF k = 0 THEN <<>> ELSE Take(f[k - 1], o[k])]
             Rounds(f, m) == f = [k \in 0 .. m |-> IF k = 0 THEN <<>> ELSE Take(f[k - 1], o[k])]
             after == CHOOSE f : Rec(f)
  <1>1. \E f : Rounds(f, n)
    <2> DEFINE step == [x \in (1 .. n) \X S |-> Take(x[2], o[x[1]])]
    <2>1. /\ step \in [(1 .. n) \X S -> S] /\ <<>> \in S
          /\ \A k \in 1 .. n : \A p \in S : step[<<k, p>>] = Take(p, o[k])
      BY DEF StaysIn
    <2> HIDE DEF step, o
    <2>2. PICK f \in [0 .. n -> S] : IsRecursion(f, n, <<>>, step)
      BY <2>1, RecursionExists
    <2>3. f[0] = <<>> /\ \A k \in 1 .. n : f[k] = step[<<k, f[k - 1]>>]
      BY <2>2 DEF IsRecursion
    <2>4. ASSUME NEW k \in 0 .. n PROVE f[k] = IF k = 0 THEN <<>> ELSE Take(f[k - 1], o[k])
      <3>1. CASE k = 0
        BY <2>3, <3>1
      <3>2. CASE k # 0
        <4>1. k \in 1 .. n /\ k - 1 \in 0 .. n
          BY <3>2
        <4>2. f[k - 1] \in S
          BY <4>1
        <4> QED BY <2>1, <2>3, <3>2, <4>1, <4>2
      <3> QED BY <3>1, <3>2
    <2>5. f = [k \in 0 .. n |-> f[k]]
      OBVIOUS
    <2> QED BY <2>4, <2>5
  <1>2. Rec(after)
    <2>1. \E f : Rec(f)
      BY <1>1
    <2> HIDE DEF Rec
    <2> QED BY <2>1
  <1>3. Rounds(after, n)
    BY <1>2
  <1>4. FuseRanked(l, s) = after[n]
    BY DEF FuseRanked
  <1> HIDE DEF after, o, Rec
  <1>5. after[0] = <<>> /\ \A k \in 1 .. n : after[k] = Take(after[k - 1], o[k])
    <2>1. \A k \in 0 .. n : after[k] = IF k = 0 THEN <<>> ELSE Take(after[k - 1], o[k])
      BY <1>3
    <2>2. 0 \in 0 .. n /\ \A k \in 1 .. n : k \in 0 .. n /\ k # 0
      OBVIOUS
    <2> HIDE DEF Rounds
    <2> QED BY <2>1, <2>2
  <1> QED BY <1>4, <1>5 DEF o, IsFusing

\* What is fused is chosen from everything found.
LEMMA FusedIsChosen ==
  ASSUME NEW l \in Ranking, NEW s \in Ranking
  PROVE  LET o == Ordered(l, s)
         IN  ChosenFrom(FuseRanked(l, s), o, FoundBy(l, s), Order(l, s), Len(o))
  <1> DEFINE C == FoundBy(l, s)
             R == Order(l, s)
             o == Ordered(l, s)
             n == Len(o)
  <1>1. Sorted(o, C, R) /\ C \in SUBSET Candidates
    BY OrderedIsSorted, FoundIsOrdered
  <1>2. n \in Nat /\ \A k \in 1 .. n : o[k] \in C
    BY <1>1, LenProperties DEF Sorted
  <1>3. <<>> \in Seq(C) /\ \A k \in 1 .. n : \A p \in Seq(C) : Take(p, o[k]) \in Seq(C)
    <2>1. <<>> \in Seq(C)
      BY EmptySeq
    <2>2. ASSUME NEW k \in 1 .. n, NEW p \in Seq(C) PROVE Take(p, o[k]) \in Seq(C)
      <3>1. Append(p, o[k]) \in Seq(C)
        BY <1>2, AppendProperties
      <3> QED BY <3>1 DEF Take
    <2> QED BY <2>1, <2>2
  <1> HIDE DEF C, R, n
  <1>4. PICK f : /\ f[0] = <<>> /\ \A k \in 1 .. n : f[k] = Take(f[k - 1], o[k])
                 /\ FuseRanked(l, s) = f[n]
    <2> DEFINE S == Seq(C)
    <2>1. n \in Nat /\ Len(Ordered(l, s)) = n
      BY <1>2 DEF n
    <2>2. StaysIn(S, l, s, n)
      BY <1>3 DEF StaysIn
    <2> HIDE DEF S
    <2>3. \E f : IsFusing(f, l, s, n)
      BY <2>1, <2>2, FuseUnfolds
    <2> QED BY <2>3 DEF IsFusing
  <1> DEFINE P == {k \in 0 .. n : ChosenFrom(f[k], o, C, R, k)}
  <1>5. 0 \in P
    <2> DEFINE e == <<>>
    <2>1. e \in Seq(C) /\ Len(e) = 0 /\ ToSet(e) = {} /\ IsInjective(e) /\ 0 <= TopResults
      BY <1>3, FuseAssumption DEF ToSet, IsInjective
    <2> HIDE DEF e
    <2>2. \A d \in 1 .. FoundDocs : Cardinality(ChosenOf(e, d)) <= MaxPerDoc
      <3>1. \A d : ChosenOf(e, d) = {}
        BY <2>1 DEF ChosenOf
      <3> QED BY <3>1, FS_EmptySet, FuseAssumption
    <2>3. \A j \in 1 .. 0 : FALSE
      OBVIOUS
    <2>4. ChosenFrom(e, o, C, R, 0)
      BY <2>1, <2>2, <2>3 DEF ChosenFrom
    <2> QED BY <1>2, <1>4, <2>4 DEF e
  <1>6. ASSUME NEW k \in 1 .. n, k - 1 \in P PROVE k \in P
    <2>1. ChosenFrom(f[k - 1], o, C, R, k - 1) /\ f[k] = Take(f[k - 1], o[k]) /\ k \in 0 .. n
      BY <1>2, <1>4, <1>6
    <2> DEFINE c == f[k - 1]
    <2>2. ChosenFrom(c, o, C, R, k - 1)
      BY <2>1
    <2> HIDE DEF c, o
    <2>3. ChosenFrom(Take(c, o[k]), o, C, R, k)
      BY <1>1, <2>2, TakeKeeps DEF n
    <2> QED BY <2>1, <2>3 DEF c
  <1>7. n \in P
    <2>1. n \in 0 .. n
      BY <1>2
    <2> HIDE DEF P
    <2> QED BY <1>2, <1>5, <1>6, <2>1, UpTo
  <1> QED BY <1>4, <1>7 DEF C, R, n

\* What a search fuses: two rankings, of which the semantic one may be empty.
FusionInv ==
  search.kind = "fuse" =>
    /\ search.lexical \in Ranking /\ search.semantic \in Ranking
    /\ search.done => search.out = FuseRanked(search.lexical, search.semantic)

\* A semantic search that raised counts as one that found nothing.
LEMMA EmptyRanking == <<>> \in Ranking
  <1>1. <<>> \in [1 .. 0 -> Candidates]
    OBVIOUS
  <1>2. 0 \in 0 .. MaxRank
    BY FuseAssumption
  <1> QED BY <1>1, <1>2 DEF Ranking, SeqOf

\* Whatever two rankings are fused: no result is repeated, no document has more
\* than its share, and what is left out is left out for results ranked above it,
\* because these fill the list or the share of its document.
THEOREM NothingBetterIsLeftOut == SearchSpec => []NothingBetterLeftOut
  <1>1. SearchInit => FusionInv
    BY DEF SearchInit, FusionInv
  <1>2. FusionInv /\ [SearchNext]_searchVars => FusionInv'
    <2> SUFFICES ASSUME FusionInv, [SearchNext]_searchVars PROVE FusionInv'
      OBVIOUS
    <2>1. CASE UNCHANGED searchVars
      BY <2>1 DEF searchVars, FusionInv
    <2>2. CASE PageToIndex
      BY <2>2 DEF PageToIndex, FusionInv
    <2>3. CASE Searched
      BY <2>3, EmptyRanking DEF Searched, FusionInv
    <2>4. CASE Split
      BY <2>4 DEF Split, FusionInv
    <2>5. CASE Fuse
      BY <2>5, EmptyRanking DEF Fuse, FusionInv
    <2> QED BY <2>1, <2>2, <2>3, <2>4, <2>5 DEF SearchNext
  <1>3. FusionInv => NothingBetterLeftOut
    <2> SUFFICES ASSUME FusionInv, search.kind = "fuse", search.done PROVE NothingBetterLeftOut
      BY DEF NothingBetterLeftOut
    <2> DEFINE l == search.lexical
               s == search.semantic
               c == search.out
               C == FoundBy(l, s)
               R == Order(l, s)
               o == Ordered(l, s)
               better(f) == {g \in ToSet(c) : Before(l, s, g, f)}
    <2>1. l \in Ranking /\ s \in Ranking /\ c = FuseRanked(l, s)
      BY DEF FusionInv
    <2> HIDE DEF l, s, c
    <2>2. Sorted(o, C, R) /\ ChosenFrom(c, o, C, R, Len(o))
      BY <2>1, OrderedIsSorted, FusedIsChosen
    <2>3. C \in SUBSET Candidates /\ \A f, g \in C : <<f, g>> \in R <=> Before(l, s, f, g)
      BY <2>1, FoundIsOrdered
    <2> HIDE DEF C, R, o
    <2>4. c \in Seq(C) /\ IsInjective(c) /\ Len(c) <= TopResults
      BY <2>2 DEF ChosenFrom
    <2>5. Cardinality(ToSet(c)) = Len(c) /\ ToSet(c) \in SUBSET C
      BY <2>4, ChosenCounted
    <2>6. ASSUME NEW f \in ToSet(c) PROVE Cardinality({g \in ToSet(c) : g.doc = f.doc}) <= MaxPerDoc
      <3>1. f.doc \in 1 .. FoundDocs
        BY <2>3, <2>5 DEF Candidates
      <3>2. Cardinality(ChosenOf(c, f.doc)) <= MaxPerDoc
        BY <2>2, <3>1 DEF ChosenFrom
      <3> QED BY <3>2 DEF ChosenOf
    <2>7. ASSUME NEW f \in C \ ToSet(c)
          PROVE  \/ Cardinality(better(f)) = TopResults
                 \/ Cardinality({g \in better(f) : g.doc = f.doc}) = MaxPerDoc
      <3>1. PICK k \in 1 .. Len(o) : o[k] = f
        BY <2>2 DEF Sorted
      <3>2. LostTo(c, o, k, R)
        BY <2>2, <2>7, <3>1 DEF ChosenFrom
      <3>3. {g \in ToSet(c) : <<g, f>> \in R} = better(f)
        BY <2>3, <2>5
      <3>4. {g \in ChosenOf(c, f.doc) : <<g, f>> \in R} = {g \in better(f) : g.doc = f.doc}
        BY <2>3, <2>5 DEF ChosenOf
      <3> QED BY <3>1, <3>2, <3>3, <3>4 DEF LostTo
    <2> QED BY <2>4, <2>5, <2>6, <2>7 DEF NothingBetterLeftOut, l, s, c, C
  <1> QED BY <1>1, <1>2, <1>3, PTL DEF SearchSpec
=============================================================================
