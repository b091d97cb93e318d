---------------------------- MODULE SearchIndex ----------------------------
(* The index of search chunks (routers/knowledge.py) and the task that refreshes
   it: a run collects the chunks of its scope, deletes the rows of the scope,
   embeds and inserts in one long transaction.  The index worker runs one
   refresh at a time; the API endpoints that refresh a document or rebuild
   everything run beside it.  One embedding model is in use.                  *)
EXTENDS Naturals, FiniteSets

CONSTANTS
  IndexDocs,            \* documents
  IndexWorker,          \* the worker of the queue search_index (concurrency 1)
  ApiRuns,              \* request handlers of the endpoints
  ChunkParts,           \* the chunks of a document: page, unit, specialist result
  MaxGenerations,       \* bound: times a document is processed
  MaxIndexRetries,      \* max_retries of the task
  MaxApiRuns            \* bound: calls of the endpoints

VARIABLES
  generation,  \* generation[d]: how often d was processed, what its rows say now
  finalizing,  \* documents whose units are replaced and whose finalization is to come
  messages,    \* refresh messages in the broker: document and retry number
  runs,        \* runs[r]: a refresh or a rebuild under way
  rows,        \* committed chunks
  abandoned,   \* documents whose last refresh was given up
  tangled,     \* documents last refreshed by two runs at the same time
  apiRuns      \* calls of the endpoints so far
indexVars == <<generation, finalizing, messages, runs, rows, abandoned, tangled, apiRuns>>

Runs == ApiRuns \cup {IndexWorker}
IdleRun == [stage |-> "idle", scope |-> {}, retries |-> 0, chunks |-> {}, old |-> {},
            mixed |-> {}]   \* the documents another run worked on meanwhile

(* _collect_knowledge_search_chunks: what the sources of the scope say now.  The
   hash of a chunk covers the ids of its sources, so that a document processed
   again has new chunks. *)
Current(d) == {[doc |-> d, generation |-> generation[d], part |-> p] : p \in ChunkParts}
Collected(scope) == UNION {Current(d) : d \in {x \in scope : generation[x] > 0}}
RowsOf(scope) == {c \in rows : c.doc \in scope}

IndexInit ==
  /\ generation = [d \in IndexDocs |-> 0]
  /\ finalizing = {} /\ messages = {} /\ rows = {} /\ abandoned = {} /\ tangled = {}
  /\ runs = [r \in Runs |-> IdleRun]
  /\ apiRuns = 0

-----------------------------------------------------------------------------
(* The knowledge pipeline replaces the units of a document ... *)
ProcessDocument(d) ==
  /\ generation[d] < MaxGenerations /\ d \notin finalizing
  /\ generation' = [generation EXCEPT ![d] = @ + 1]
  /\ finalizing' = finalizing \cup {d}
  /\ UNCHANGED <<messages, runs, rows, abandoned, tangled, apiRuns>>

(* ... and its finalization sends the refresh. *)
Finalized(d) ==
  /\ d \in finalizing
  /\ finalizing' = finalizing \ {d}
  /\ messages' = messages \cup {[doc |-> d, retries |-> 0, of |-> generation[d]]}
  /\ UNCHANGED <<generation, runs, rows, abandoned, tangled, apiRuns>>

Start(r, scope, retries) ==
  /\ runs[r] = IdleRun
  /\ runs' = [q \in Runs |->
       IF q = r THEN [IdleRun EXCEPT !.stage = "collect", !.scope = scope, !.retries = retries,
                        !.mixed = UNION {scope \cap runs[p].scope : p \in Runs}]
       ELSE [runs[q] EXCEPT !.mixed = @ \cup (scope \cap runs[q].scope)]]

(* refresh_document_search_index_task *)
Receive(m) ==
  /\ m \in messages
  /\ Start(IndexWorker, {m.doc}, m.retries)
  /\ messages' = messages \ {m}
  /\ UNCHANGED <<generation, finalizing, rows, abandoned, tangled, apiRuns>>

(* rebuild_knowledge_search_index, refresh_document_search_index *)
CallApi(r, scope) ==
  /\ apiRuns < MaxApiRuns /\ apiRuns' = apiRuns + 1
  /\ Start(r, scope, 0)
  /\ UNCHANGED <<generation, finalizing, messages, rows, abandoned, tangled>>

Collect(r) ==
  /\ runs[r].stage = "collect"
  /\ runs' = [runs EXCEPT ![r].stage = "delete", ![r].chunks = Collected(runs[r].scope)]
  /\ UNCHANGED <<generation, finalizing, messages, rows, abandoned, tangled, apiRuns>>

KeptToInsert(r) == {}   \* mutant: the insert skips what is there, so nothing need be deleted
(* The DELETE of the scope sees what is committed when it starts: of two runs at
   the same time neither sees the rows the other is inserting. *)
Deleted(r) == RowsOf(runs[r].scope)
Delete(r) ==
  /\ runs[r].stage = "delete"
  /\ runs' = [runs EXCEPT ![r].stage = "insert", ![r].old = Deleted(r)]
  /\ UNCHANGED <<generation, finalizing, messages, rows, abandoned, tangled, apiRuns>>

(* _index_knowledge_search_chunks and the commit: a chunk whose embedding is empty
   is skipped, one that is in the index already is not inserted again. *)
Insert(r) ==
  /\ runs[r].stage = "insert"
  /\ \E embedded \in SUBSET runs[r].chunks : rows' = (rows \ runs[r].old) \cup embedded
  /\ runs' = [runs EXCEPT ![r] = IdleRun]
  /\ tangled' = (tangled \ runs[r].scope) \cup runs[r].mixed
  /\ abandoned' = abandoned \ runs[r].scope
  /\ UNCHANGED <<generation, finalizing, messages, apiRuns>>

(* The embedding fails for the third time: everything is rolled back; the task is
   sent again while it has retries left, the endpoint answers 503. *)
EmbeddingFails(r) ==
  /\ runs[r].stage = "insert"
  /\ runs' = [runs EXCEPT ![r] = IdleRun]
  /\ IF r # IndexWorker THEN UNCHANGED <<messages, abandoned>>
     ELSE LET again == {[doc |-> d, retries |-> runs[r].retries + 1, of |-> generation[d]] : d \in runs[r].scope}
          IN  IF runs[r].retries < MaxIndexRetries
              THEN messages' = messages \cup again /\ UNCHANGED abandoned
              ELSE abandoned' = abandoned \cup runs[r].scope /\ UNCHANGED messages
  /\ UNCHANGED <<generation, finalizing, rows, tangled, apiRuns>>

(* The worker process dies: its message is gone and its transaction undone. *)
WorkerDies ==
  /\ runs[IndexWorker] # IdleRun
  /\ runs' = [runs EXCEPT ![IndexWorker] = IdleRun]
  /\ abandoned' = abandoned \cup runs[IndexWorker].scope
  /\ UNCHANGED <<generation, finalizing, messages, rows, tangled, apiRuns>>

IndexNext ==
  \/ \E d \in IndexDocs : ProcessDocument(d) \/ Finalized(d)
  \/ \E m \in messages : Receive(m)
  \/ \E r \in ApiRuns, d \in IndexDocs : CallApi(r, {d})
  \/ \E r \in ApiRuns : CallApi(r, IndexDocs)
  \/ \E r \in Runs : Collect(r) \/ Delete(r) \/ Insert(r) \/ EmbeddingFails(r)
  \/ WorkerDies
IndexSpec == IndexInit /\ [][IndexNext]_indexVars

-----------------------------------------------------------------------------
(* No residue of an earlier processing: a document whose processing has ended and
   whose refreshes are over has only chunks of what its sources say now, unless
   its last refresh was given up, or ran beside another one of the document. *)
NoResidueOfReprocessing ==
  \A d \in IndexDocs \ (finalizing \cup abandoned \cup tangled) :
    \/ \E m \in messages : m.doc = d
    \/ \E r \in Runs : d \in runs[r].scope
    \/ RowsOf({d}) \subseteq Current(d)
=============================================================================
