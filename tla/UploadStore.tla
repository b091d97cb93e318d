----------------------------- MODULE UploadStore -----------------------------
(* DocumentService.save_upload: an upload finds its document, writes the rows
   of a new version, puts the file into the object store and commits.  Rows and
   object store share no transaction; the unique key of (document, version)
   makes a second upload of one version wait for the first.                 *)
EXTENDS Integers, Sequences

CONSTANTS Uploads,       \* uploads, each running at most once
          Contents,      \* file contents (their SHA-256)
          DocIds,        \* rows of the table of documents
          ExternalIds    \* external ids; an upload may have none

VARIABLES documents,     \* committed documents: external id, hash, versions
          objects,       \* object store: content at (document, version)
          uploading      \* progress of every upload
upVars == <<documents, objects, uploading>>

NoId == "no id"
NoDoc == [used |-> FALSE]
Waiting == [pc |-> "waiting"]
Ended == [pc |-> "ended"]

UpInit ==
  /\ documents = [d \in DocIds |-> NoDoc]
  /\ objects = <<>>
  /\ uploading = [u \in Uploads |-> Waiting]

Used == {d \in DocIds : documents[d].used}
\* One of the documents of an external id, or of a hash when there is none.
Existing(e, c) ==
  {d \in Used : IF e # NoId THEN documents[d].external = e ELSE documents[d].hash = c}

\* Versions whose rows an upload has written and not committed.
Writing == {<<uploading[u].doc, uploading[u].version>> :
              u \in {v \in Uploads : uploading[v].pc \in {"put", "commit"}}}

\* The file is checked and its document looked for.  Known content ends the
\* upload as deduplicated, of a document that is found by its hash or has it.
Find(u) == \E c \in Contents, e \in ExternalIds \cup {NoId} :
  /\ uploading[u] = Waiting
  /\ LET same == Existing(e, c)
     IN  \/ /\ same = {}
            /\ \E d \in DocIds \ Used :
                 /\ \A v \in Uploads : uploading[v].pc \in {"write", "put", "commit"}
                                         => uploading[v].doc # d
                 /\ uploading' = [uploading EXCEPT ![u] =
                      [pc |-> "write", doc |-> d, version |-> 1, content |-> c, external |-> e]]
         \/ \E d \in same :
              uploading' = [uploading EXCEPT ![u] =
                IF documents[d].hash = c THEN Ended
                ELSE [pc |-> "write", doc |-> d, version |-> Len(documents[d].versions) + 1,
                      content |-> c, external |-> e]]
  /\ UNCHANGED <<documents, objects>>

NeverRefused(p) == FALSE     \* mutant: no unique keys

\* The rows are flushed.  An external id in use, or a version that was committed
\* since, is refused; a version being written makes the flush wait.
Refused(p) ==
  \/ p.version = 1 /\ p.external # NoId /\ Existing(p.external, p.content) # {}
  \/ documents[p.doc].used /\ p.version <= Len(documents[p.doc].versions)

WriteRows(u) ==
  LET p == uploading[u] IN
  /\ p.pc = "write"
  /\ \/ /\ Refused(p)
        /\ uploading' = [uploading EXCEPT ![u] = Ended]
     \/ /\ ~Refused(p)
        /\ <<p.doc, p.version>> \notin Writing
        /\ \A v \in Uploads : uploading[v].pc \in {"put", "commit"}
             => uploading[v].external # p.external \/ p.external = NoId \/ uploading[v].doc = p.doc
        /\ uploading' = [uploading EXCEPT ![u].pc = "put"]
  /\ UNCHANGED <<documents, objects>>

\* storage.put_file replaces whatever the key holds.
Put(u) ==
  LET p == uploading[u] IN
  /\ p.pc = "put"
  /\ objects' = [k \in DOMAIN objects \cup {<<p.doc, p.version>>} |->
                   IF k = <<p.doc, p.version>> THEN p.content ELSE objects[k]]
  /\ uploading' = [uploading EXCEPT ![u].pc = "commit"]
  /\ UNCHANGED documents

Commit(u) ==
  LET p == uploading[u]
      older == IF documents[p.doc].used THEN documents[p.doc].versions ELSE <<>>
  IN  /\ p.pc = "commit"
      /\ documents' = [documents EXCEPT ![p.doc] =
           [used |-> TRUE, hash |-> p.content, versions |-> Append(older, p.content),
            external |-> IF documents[p.doc].used THEN documents[p.doc].external ELSE p.external]]
      /\ uploading' = [uploading EXCEPT ![u] = Ended]
      /\ UNCHANGED objects

\* The object store refuses, the commit fails or the process dies: the rows are
\* rolled back, an object already put stays.
UploadFails(u) ==
  /\ uploading[u].pc \in {"put", "commit"}
  /\ uploading' = [uploading EXCEPT ![u] = Ended]
  /\ UNCHANGED <<documents, objects>>

UpNext == \E u \in Uploads : Find(u) \/ WriteRows(u) \/ Put(u) \/ Commit(u) \/ UploadFails(u)
UpSpec == UpInit /\ [][UpNext]_upVars
-----------------------------------------------------------------------------
(* Properties *)

\* Every committed version has in the object store the content it was committed
\* with, and the document carries the hash of its latest version, although
\* uploads of one document race and a failed one leaves its object behind under
\* the key of the next version (services.py:106-138).
StoredFileMatchesVersion ==
  \A d \in Used :
    /\ \A n \in 1..Len(documents[d].versions) :
         <<d, n>> \in DOMAIN objects /\ objects[<<d, n>>] = documents[d].versions[n]
    /\ documents[d].hash = documents[d].versions[Len(documents[d].versions)]
=============================================================================
