----------------------------- MODULE Retrieval -----------------------------
(* Two pure algorithms of the search: how the text of a page is cut into chunks
   (routers/knowledge.py, _split_search_text) and how the lexical and the semantic
   ranking are fused (services/retrieval.py).  A behaviour is given one input and
   computes its output.                                                       *)
EXTENDS Naturals, Integers, Sequences, FiniteSets, SequencesExt, FiniteSetsExt

CONSTANTS
  MaxText,      \* bound: length of a text
  MaxChars,     \* max_chars of a chunk
  Overlap,      \* characters two chunks share
  FoundDocs, FoundPages,   \* bound: documents and pages that are found
  MaxRank,      \* bound: candidates of one channel
  RrfK,         \* rrf_k
  TopResults,   \* limit
  MaxPerDoc     \* max_per_document

ASSUME SplitAssumption == MaxText \in Nat /\ MaxChars \in Nat /\ Overlap \in Nat /\ Overlap < MaxChars \div 2
ASSUME FuseAssumption ==
  /\ FoundDocs \in Nat /\ FoundPages \in Nat /\ MaxRank \in Nat
  /\ RrfK \in Nat /\ TopResults \in Nat \ {0} /\ MaxPerDoc \in Nat

VARIABLE search   \* input and output of the one computation
searchVars == <<search>>

-----------------------------------------------------------------------------
(* A text is TRUE where it has a letter and FALSE where it has a space; white
   space is normalised: no space at an end, no two in a row. *)
Texts == {t \in UNION {[1..n -> BOOLEAN] : n \in 1..MaxText} :
            /\ t[1] /\ t[Len(t)]
            /\ \A i \in 1..(Len(t) - 1) : t[i] \/ t[i + 1]}

(* Where a chunk that starts at i ends: at the last space of its second half. *)
EndOf(t, i) ==
  LET full == Min({Len(t), i + MaxChars - 1})
      spaces == {p \in (i + MaxChars \div 2)..full : ~t[p]}
  IN  IF full = Len(t) \/ spaces = {} THEN full ELSE Max(spaces) - 1

NextByLength(t, i) == i + MaxChars - Overlap   \* mutant: the cut at a space is forgotten
NextStart(t, i) == Max({i + 1, EndOf(t, i) + 1 - Overlap})

ChunkFrom(t, i) == [from |-> i, to |-> EndOf(t, i)]
(* One more round of the loop, which breaks off at the end of the text. *)
NextChunk(t, chunks) ==
  IF Last(chunks).to >= Len(t) THEN chunks
  ELSE Append(chunks, ChunkFrom(t, NextStart(t, Last(chunks).from)))
SplitText(t) ==
  LET after[k \in 0 .. Len(t)] == IF k = 0 THEN <<ChunkFrom(t, 1)>> ELSE NextChunk(t, after[k - 1])
  IN  after[Len(t)]

-----------------------------------------------------------------------------
(* Reciprocal rank fusion.  1 / (RrfK + rank) is scaled to an integer. *)
Candidates == [doc : 1..FoundDocs, page : 1..FoundPages]
Ranking == SeqOf(Candidates, MaxRank)
Scale ==
  LET product[r \in 0..MaxRank] == IF r = 0 THEN 1 ELSE product[r - 1] * (RrfK + r)
  IN  product[MaxRank]
RankIn(ranking, f) == Min({i \in DOMAIN ranking : ranking[i] = f})
Share(ranking, f) == IF f \in ToSet(ranking) THEN Scale \div (RrfK + RankIn(ranking, f)) ELSE 0
RrfScore(lexical, semantic, f) == Share(lexical, f) + Share(semantic, f)

Before(lexical, semantic, f, g) ==
  LET a == RrfScore(lexical, semantic, f)  b == RrfScore(lexical, semantic, g)
  IN  a > b \/ (a = b /\ (f.doc < g.doc \/ (f.doc = g.doc /\ f.page < g.page)))

TakeFirst(chosen, f) ==   \* mutant: the cap per document is left out
  IF Len(chosen) >= TopResults THEN chosen ELSE Append(chosen, f)
(* A candidate is passed over when its document has its share already. *)
Take(chosen, f) ==
  IF \/ Len(chosen) >= TopResults
     \/ Cardinality({i \in DOMAIN chosen : chosen[i].doc = f.doc}) >= MaxPerDoc
  THEN chosen ELSE Append(chosen, f)

(* Sorted: a candidate comes after those that are before it. *)
FoundBy(lexical, semantic) == ToSet(lexical) \cup ToSet(semantic)
RankedBefore(lexical, semantic, f) == {g \in FoundBy(lexical, semantic) : Before(lexical, semantic, g, f)}
Ordered(lexical, semantic) ==
  [k \in 1..Cardinality(FoundBy(lexical, semantic)) |->
     CHOOSE f \in FoundBy(lexical, semantic) : Cardinality(RankedBefore(lexical, semantic, f)) = k - 1]

FuseRanked(lexical, semantic) ==
  LET ordered == Ordered(lexical, semantic)
      after[k \in 0..Len(ordered)] == IF k = 0 THEN <<>> ELSE Take(after[k - 1], ordered[k])
  IN  after[Len(ordered)]

-----------------------------------------------------------------------------
SearchInit == search = [kind |-> "none", done |-> FALSE]

PageToIndex == /\ search.kind = "none"
               /\ \E t \in Texts : search' = [kind |-> "split", text |-> t, done |-> FALSE]
Searched == /\ search.kind = "none"
            /\ \E l \in Ranking, s \in Ranking \cup {<<>>} :
                 search' = [kind |-> "fuse", lexical |-> l, semantic |-> s, done |-> FALSE]

Split == /\ search.kind = "split" /\ ~search.done
         /\ search' = [kind |-> "split", text |-> search.text, done |-> TRUE,
                       out |-> SplitText(search.text)]

(* A semantic search that raises leaves a warning and an empty ranking. *)
Fuse == /\ search.kind = "fuse" /\ ~search.done
        /\ \E s \in {search.semantic, <<>>} :
             search' = [kind |-> "fuse", lexical |-> search.lexical, semantic |-> s, done |-> TRUE,
                        out |-> FuseRanked(search.lexical, s)]

SearchNext == PageToIndex \/ Searched \/ Split \/ Fuse
SearchSpec == SearchInit /\ [][SearchNext]_searchVars

-----------------------------------------------------------------------------
(* Every letter of a page is in a chunk, no chunk is longer than the index takes,
   and each chunk begins before the one before it has ended. *)
ChunksCoverPage ==
  search.kind = "split" /\ search.done =>
    LET c == search.out IN
    /\ \A p \in DOMAIN search.text : search.text[p] =>
         \E i \in DOMAIN c : p \in c[i].from .. c[i].to
    /\ \A i \in DOMAIN c : c[i].to - c[i].from < MaxChars
    /\ \A i \in 1..(Len(c) - 1) : c[i + 1].from <= c[i].to + 1 /\ c[i].to < c[i + 1].to

(* What is left out of the fused results lost to them: the results are full of
   candidates ranked above it, or its document has its share of such ones. *)
NothingBetterLeftOut ==
  search.kind = "fuse" /\ search.done =>
    LET out == ToSet(search.out)
        better(f) == {g \in out : Before(search.lexical, search.semantic, g, f)}
    IN  /\ Cardinality(out) = Len(search.out) /\ Len(search.out) <= TopResults
        /\ \A f \in out : Cardinality({g \in out : g.doc = f.doc}) <= MaxPerDoc
        /\ \A f \in FoundBy(search.lexical, search.semantic) \ out :
             \/ Cardinality(better(f)) = TopResults
             \/ Cardinality({g \in better(f) : g.doc = f.doc}) = MaxPerDoc
=============================================================================
