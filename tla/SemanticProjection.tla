-------------------------- MODULE SemanticProjection --------------------------
(* Extracted entities, the canonical entities their spellings are assigned to,
   and the two projections rebuilt from them: contexts of entities that recur
   in several documents, and the graph of nodes and mentions.  Every rebuild is
   one transaction; two at once meet on the unique keys of the projections, so
   they are serial here.  Confidences, evidence and labels are data.          *)
EXTENDS Integers, FiniteSets, Sequences, SequencesExt

CONSTANTS Docs,      \* source documents
          Organizations, Addresses,   \* spellings; also the names of canonical entities
          Forms,     \* sets of spellings that the graph normalises to one key
          MaxEdits   \* bound: changes of one behaviour

ASSUME SpellingsAssumption == IsFiniteSet(Organizations) /\ IsFiniteSet(Addresses)
ASSUME FormsAssumption == \A f, g \in Forms : f \cap g # {} => f = g

VARIABLES units,     \* the entities extracted from each document unit <<doc, n>>
          known,     \* canonical entities: those that exist, the reviewed, the variants
          contexts,  \* anchors and memberships of the context of a primary entity
          graph,     \* canonical identity of the nodes, and the mentions of units
          fresh,     \* no change since the last rebuild of both projections
          merging,   \* a merge request has committed and is about to rebuild
          edits
projVars == <<units, known, contexts, graph, fresh, merging, edits>>

\* Canonical entities, and the keys of extracted ones.
Entities == ({"organizzazione"} \X Organizations) \cup ({"indirizzo"} \X Addresses)
NoEntity == <<"none", "none">>
EmptyGraph == [nodes |-> [n \in {} |-> NoEntity], mentions |-> {}]

ProjInit ==
  /\ units = [u \in {} |-> {}]
  /\ known = [exists |-> {}, reviewed |-> {}, variant |-> [k \in Entities |-> NoEntity]]
  /\ contexts = [e \in {} |-> {}]
  /\ graph = EmptyGraph
  /\ fresh = TRUE /\ merging = FALSE /\ edits = 0

Drop(f, S) == [x \in DOMAIN f \ S |-> f[x]]
UnitsOf(us, d) == {u \in DOMAIN us : u[1] = d}
\* Canonical entities found in a unit, and the documents an entity is found in.
Direct(us, kn, u) == {kn.variant[k] : k \in us[u]} \ {NoEntity}
DocumentsOf(us, kn, e) == {u[1] : u \in {v \in DOMAIN us : e \in Direct(us, kn, v)}}
FoundEntities(us, kn) == UNION {Direct(us, kn, u) : u \in DOMAIN us}
-----------------------------------------------------------------------------
(* The contexts *)

Eligible(us, kn) == {e \in kn.exists : e \in kn.reviewed \/ Cardinality(DocumentsOf(us, kn, e)) >= 2}

ShareAnyway(e, f) == TRUE                 \* mutant: kinds do not matter
CanShare(e, f) == {e[1], f[1]} = {"organizzazione", "indirizzo"}

\* _group_context_entities: organisations first (_primary_entity_rank), an entity
\* found in two documents joins
\* the first group found in the same documents that it can share a context with.
\* The order within a kind is that of the labels, here of SetToSeq.
Ranked(us, kn) ==
  SetToSeq({e \in Eligible(us, kn) : e[1] = "organizzazione"})
    \o SetToSeq({e \in Eligible(us, kn) : e[1] = "indirizzo"})
Join(us, kn, gs, e) ==
  LET docs(f) == DocumentsOf(us, kn, f)
      fits(g) == docs(e) = docs(CHOOSE f \in g : TRUE) /\ \E f \in g : CanShare(f, e)
      hosts == {i \in DOMAIN gs : fits(gs[i])}
  IN  IF Cardinality(docs(e)) < 2 \/ hosts = {} THEN Append(gs, {e})
      ELSE [gs EXCEPT ![CHOOSE i \in hosts : \A j \in hosts : i <= j] = @ \cup {e}]
Groups(us, kn) ==
  LET ranked == Ranked(us, kn)
      joined[i \in 0 .. Len(ranked)] ==
        IF i = 0 THEN <<>> ELSE Join(us, kn, joined[i - 1], ranked[i])
  IN  ToSet(joined[Len(ranked)])

Primary(g) == LET ranked == {e \in g : \A f \in g : f[1] = "organizzazione" => e[1] = "organizzazione"}
              IN  CHOOSE e \in ranked : TRUE

\* Every unit of a document in which an anchor is found is a member.
Membership(us, kn, g) ==
  {<<u, IF Direct(us, kn, u) \cap g # {} THEN "direct" ELSE "document_scope">> :
     u \in UNION {UnitsOf(us, d) : d \in UNION {DocumentsOf(us, kn, e) : e \in g}}}

\* rebuild_knowledge_contexts: contexts are kept by their primary entity, anchors
\* and memberships are written anew, contexts without a group are deleted.
KeepObsolete(cs, us, kn) ==               \* mutant: obsolete contexts stay
  LET gs == Groups(us, kn)
      of(e) == CHOOSE g \in gs : Primary(g) = e
  IN  [e \in DOMAIN cs \cup {Primary(g) : g \in gs} |->
         IF \E g \in gs : Primary(g) = e
         THEN [anchors |-> of(e), members |-> Membership(us, kn, of(e))] ELSE cs[e]]
RebuildContexts(cs, us, kn) ==
  LET gs == Groups(us, kn)
      of(e) == CHOOSE g \in gs : Primary(g) = e
  IN  [e \in {Primary(g) : g \in gs} |->
         [anchors |-> of(e), members |-> Membership(us, kn, of(e))]]
-----------------------------------------------------------------------------
(* The graph *)

\* _normalize_key, which drops accents, punctuation and the dots of S.p.A.: the
\* key of a node is the kind of the entity and all spellings of one form.
GraphKey(e) == <<e[1], {e[2]} \cup UNION {f \in Forms : e[2] \in f}>>

\* A node is named by the canonical entity of a key, or else by the key itself:
\* what the graph normalises to one key shares its node, canonical or not.
NodeOf(kn, k) == GraphKey(IF kn.variant[k] = NoEntity THEN k ELSE kn.variant[k])

\* _get_or_create_node: a node without identity takes that of its next mention, and
\* keeps it. Of two entities of a unit that share a node the first is data.
Identified(us, kn, u, n) ==
  LET named == {e \in Direct(us, kn, u) : GraphKey(e) = n}
  IN  IF named = {} THEN NoEntity ELSE CHOOSE e \in named : TRUE
IdentityFromFirst(g, kn, us, u) ==        \* mutant: only new nodes get one
  [n \in DOMAIN g.nodes \cup {NodeOf(kn, k) : k \in us[u]} |->
     IF n \in DOMAIN g.nodes THEN g.nodes[n] ELSE Identified(us, kn, u, n)]
Identities(g, kn, us, u) ==
  [n \in DOMAIN g.nodes \cup {NodeOf(kn, k) : k \in us[u]} |->
     IF n \in DOMAIN g.nodes /\ g.nodes[n] # NoEntity THEN g.nodes[n]
     ELSE Identified(us, kn, u, n)]

\* project_document_unit: the mentions of the unit are replaced, nodes are only added.
ProjectUnit(g, kn, us, u) ==
  [nodes |-> Identities(g, kn, us, u),
   mentions |-> {m \in g.mentions : m[1] # u} \cup {<<u, NodeOf(kn, k)>> : k \in us[u]}]

ProjectUnits(g, kn, us, S) ==
  LET order == SetToSeq(S)
      after[i \in 0 .. Len(order)] == IF i = 0 THEN g ELSE ProjectUnit(after[i - 1], kn, us, order[i])
  IN  after[Len(order)]
RebuildGraph(us, kn) == ProjectUnits(EmptyGraph, kn, us, DOMAIN us)
-----------------------------------------------------------------------------
(* The pipeline and the requests *)

Forget(us) ==                             \* rows that go with deleted units
  /\ contexts' = [e \in DOMAIN contexts |->
                    [anchors |-> contexts[e].anchors,
                     members |-> {m \in contexts[e].members : m[1] \notin us}]]
  /\ graph' = [nodes |-> graph.nodes, mentions |-> {m \in graph.mentions : m[1] \notin us}]

\* process_scan_unit: the document units are replaced and their entities stored.
Process(d) == \E n \in 1..2 : \E found \in [1..n -> SUBSET Entities \ {{}}] :
  /\ edits < MaxEdits - 1                                    \* bound: never the last edit
  /\ \A i \in 1..n : Cardinality(found[i]) <= 3 - n          \* bound
  /\ units' = [u \in DOMAIN Drop(units, UnitsOf(units, d)) \cup ({d} \X (1..n)) |->
                 IF u[1] = d THEN found[u[2]] ELSE units[u]]
  /\ Forget(UnitsOf(units, d))
  /\ fresh' = FALSE
  /\ UNCHANGED <<known, merging>>

\* finalize_scan_topics projects the units of its scan and rebuilds the contexts;
\* a stored specialist result projects its unit.
FinalizeRebuilds(d) ==
  /\ graph' = ProjectUnits(graph, known, units, UnitsOf(units, d))
  /\ contexts' = RebuildContexts(contexts, units, known)
  /\ UNCHANGED <<units, known, fresh, merging>>

SpecialistProjects(u) ==
  /\ u \in DOMAIN units
  /\ graph' = ProjectUnit(graph, known, units, u)
  /\ UNCHANGED <<units, known, contexts, fresh, merging>>

\* get_or_create_canonical_entity and assign_entity_variant.
Assign(kn, e, ks, review) ==
  [exists |-> kn.exists \cup {e}, reviewed |-> kn.reviewed \cup (IF review THEN {e} ELSE {}),
   variant |-> [k \in Entities |-> IF k \in ks THEN e ELSE kn.variant[k]]]

\* merge_canonical_entities commits, and rebuilds in a second transaction.
MergeEntities == \E e \in Entities : \E ks \in SUBSET {k \in Entities : k[1] = e[1]} \ {{}} :
  /\ ~merging
  /\ known' = Assign(known, e, ks, TRUE)
  /\ merging' = TRUE
  /\ fresh' = FALSE
  /\ UNCHANGED <<units, contexts, graph>>

\* scripts/backfill_canonical_entities.py: keys of two documents get an entity of
\* their own name, unless they are a variant already.
Backfill ==
  LET keys == {k \in Entities : /\ known.variant[k] = NoEntity
                                /\ Cardinality({u[1] : u \in {v \in DOMAIN units : k \in units[v]}}) >= 2}
  IN  /\ keys # {}
      /\ known' = [exists |-> known.exists \cup keys, reviewed |-> known.reviewed,
                   variant |-> [k \in Entities |-> IF k \in keys THEN k ELSE known.variant[k]]]
      /\ fresh' = FALSE
      /\ UNCHANGED <<units, contexts, graph, merging>>

DeleteProjectedUnit(u) ==
  /\ u \in DOMAIN units
  /\ units' = Drop(units, {u})
  /\ Forget({u})
  /\ fresh' = FALSE
  /\ UNCHANGED <<known, merging>>

\* rebuild_semantic_projections, after a merge, a merge of topics, on request or
\* from the command line.
Rebuild ==
  /\ graph' = RebuildGraph(units, known)
  /\ contexts' = RebuildContexts(contexts, units, known)
  /\ fresh' = TRUE
  /\ merging' = FALSE
  /\ UNCHANGED <<units, known, edits>>

ProjNext ==
  \/ Rebuild
  \/ /\ edits < MaxEdits
     /\ edits' = edits + 1
     /\ \/ MergeEntities \/ Backfill
        \/ \E d \in Docs : Process(d) \/ FinalizeRebuilds(d)
        \/ \E u \in DOMAIN units : SpecialistProjects(u) \/ DeleteProjectedUnit(u)
ProjSpec == ProjInit /\ [][ProjNext]_projVars
-----------------------------------------------------------------------------
(* Properties *)

\* An entity anchors one context at most, and a context holds one organisation at
\* most, although entities, reviews and variants change between the rebuilds
\* (contexts.py:179).
EntityAnchoredOnce ==
  \A c \in DOMAIN contexts :
    /\ c \in contexts[c].anchors
    /\ \A d \in DOMAIN contexts : contexts[c].anchors \cap contexts[d].anchors # {} => c = d
    /\ Cardinality({e \in contexts[c].anchors : e[1] = "organizzazione"}) <= 1

\* After a rebuild the contexts are those of the present entities and nothing
\* else: what was projected before has left no trace (contexts.py:126,
\* scripts/rebuild_semantic_projections.py:31).
ContextsMatchEntities ==
  fresh => LET shown == UNION {contexts[c].anchors : c \in DOMAIN contexts} IN
    /\ shown = Eligible(units, known)
    /\ \A c \in DOMAIN contexts :
         {m[1] : m \in contexts[c].members} =
           {u \in DOMAIN units : \E e \in contexts[c].anchors : u[1] \in DocumentsOf(units, known, e)}

\* After a rebuild every mention of a known entity leads to a node that has an
\* identity, whichever unit was projected first: its own, or that of another entity
\* found in the units that the graph spells alike, when there is one (graph.py:314,
\* graph.py:333). No identity is left of an entity nothing leads to any more.
Namesakes(e) == {f \in FoundEntities(units, known) : GraphKey(f) = GraphKey(e)}
MentionsFindTheirEntity ==
  fresh => \A u \in DOMAIN units : \A e \in Direct(units, known, u) :
             /\ <<u, GraphKey(e)>> \in graph.mentions
             /\ graph.nodes[GraphKey(e)] \in Namesakes(e)
=============================================================================
