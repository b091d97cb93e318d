---------------------------- MODULE RecordProofs ----------------------------
(***************************************************************************)
(* What the smaller components keep in their records, for every value of   *)
(* the constants: stored files, payables, the search index, statements,    *)
(* the units of a scan, the answers of the archive agent, the corrections  *)
(* of accounting results and the totals of an accounting answer.  The      *)
(* components share no state; each part below has an inductive invariant   *)
(* of its own, a lemma per action and the theorem.                         *)
(***************************************************************************)
EXTENDS UploadStore, SearchIndex, StatementExtraction, ArchiveAgent, Payables, Segmentation,
        AccountingCorrections, AccountingAnswers, DataLemmas

-----------------------------------------------------------------------------
(* UploadStore: two uploads may find the same document and the same next version;
   the rows decide which of them writes its file.                              *)

\* What the rows and the upload handlers hold.
Document == [used : {TRUE}, hash : Contents, versions : Seq(Contents), external : ExternalIds \cup {NoId}]
Running == [pc : {"write", "put", "commit"}, doc : DocIds, version : Nat \ {0},
            content : Contents, external : ExternalIds \cup {NoId}]
UpTypeOK ==
  /\ documents \in [DocIds -> Document \cup {NoDoc}]
  /\ uploading \in [Uploads -> Running \cup {Waiting, Ended}]

VersionsOf(d) == IF documents[d].used THEN Len(documents[d].versions) ELSE 0
RowsWritten(u) == uploading[u].pc \in {"put", "commit"}

\* The files of committed versions are what they were committed with.
FilesStored ==
  \A d \in Used :
    /\ documents[d].versions # <<>>
    /\ documents[d].hash = documents[d].versions[Len(documents[d].versions)]
    /\ \A n \in 1..Len(documents[d].versions) :
         <<d, n>> \in DOMAIN objects /\ objects[<<d, n>>] = documents[d].versions[n]

\* An upload that has written its rows holds the version after the latest one.
NextVersion ==
  \A u \in Uploads :
    /\ uploading[u].pc = "write" => uploading[u].version <= VersionsOf(uploading[u].doc) + 1
    /\ RowsWritten(u) => uploading[u].version = VersionsOf(uploading[u].doc) + 1

\* The unique key lets one upload at a time past the rows of a document.
OneWriter ==
  \A u, v \in Uploads : RowsWritten(u) /\ RowsWritten(v) /\ uploading[u].doc = uploading[v].doc => u = v

\* Before the commit the file is in the store, and no other upload replaced it.
FilePut ==
  \A u \in Uploads : uploading[u].pc = "commit" =>
    LET k == <<uploading[u].doc, uploading[u].version>>
    IN  k \in DOMAIN objects /\ objects[k] = uploading[u].content

UpInv == UpTypeOK /\ FilesStored /\ NextVersion /\ OneWriter /\ FilePut

LEMMA DocCases ==
  ASSUME UpTypeOK, NEW d \in DocIds
  PROVE  \/ documents[d].used = FALSE
         \/ documents[d] \in Document /\ documents[d].used
  <1>1. documents[d] \in Document \/ documents[d] = NoDoc
    BY DEF UpTypeOK
  <1>2. CASE documents[d] \in Document
    BY <1>2 DEF Document
  <1>3. NoDoc.used = FALSE
    BY DEF NoDoc
  <1> QED BY <1>1, <1>2, <1>3

LEMMA UploadCases ==
  ASSUME UpTypeOK, NEW u \in Uploads
  PROVE  IF uploading[u].pc \in {"write", "put", "commit"} THEN uploading[u] \in Running
         ELSE uploading[u] \in {Waiting, Ended}
  <1>1. uploading[u] \in Running \/ uploading[u] = Waiting \/ uploading[u] = Ended
    BY DEF UpTypeOK
  <1>2. CASE uploading[u] \in Running
    BY <1>2 DEF Running
  <1>3. Waiting.pc = "waiting" /\ Ended.pc = "ended"
    BY DEF Waiting, Ended
  <1> QED BY <1>1, <1>2, <1>3

LEMMA VersionsNat ==
  ASSUME UpTypeOK, NEW d \in DocIds
  PROVE  VersionsOf(d) \in Nat
  BY DocCases DEF VersionsOf, Document

LEMMA FindKeeps ==
  ASSUME UpInv, NEW u \in Uploads, Find(u)
  PROVE  UpInv'
  <1> PICK c \in Contents, e \in ExternalIds \cup {NoId} :
        /\ uploading[u] = Waiting
        /\ LET same == Existing(e, c)
           IN  \/ /\ same = {}
                  /\ \E d \in DocIds \ Used :
                       uploading' = [uploading EXCEPT ![u] =
                         [pc |-> "write", doc |-> d, version |-> 1, content |-> c, external |-> e]]
               \/ \E d \in same :
                    uploading' = [uploading EXCEPT ![u] =
                      IF documents[d].hash = c THEN Ended
                      ELSE [pc |-> "write", doc |-> d, version |-> Len(documents[d].versions) + 1,
                            content |-> c, external |-> e]]
    BY DEF Find
  <1>1. UNCHANGED <<documents, objects>>
    BY DEF Find
  <1>2. PICK r : /\ uploading' = [uploading EXCEPT ![u] = r]
                 /\ \/ r = Ended
                    \/ r \in Running /\ r.pc = "write" /\ r.version <= VersionsOf(r.doc) + 1
    <2>1. CASE \E d \in DocIds \ Used : uploading' = [uploading EXCEPT ![u] =
                 [pc |-> "write", doc |-> d, version |-> 1, content |-> c, external |-> e]]
      <3> PICK d \in DocIds \ Used : uploading' = [uploading EXCEPT ![u] =
                 [pc |-> "write", doc |-> d, version |-> 1, content |-> c, external |-> e]]
        BY <2>1
      <3> DEFINE r == [pc |-> "write", doc |-> d, version |-> 1, content |-> c, external |-> e]
      <3>1. r \in Running /\ r.pc = "write" /\ r.version = 1 /\ r.doc = d
        BY DEF Running
      <3>2. VersionsOf(d) \in Nat
        BY VersionsNat DEF UpInv
      <3>3. r.version <= VersionsOf(r.doc) + 1
        <4> HIDE DEF r
        <4> QED BY <3>1, <3>2
      <3> QED BY <3>1, <3>3
    <2>2. CASE \E d \in Existing(e, c) : uploading' = [uploading EXCEPT ![u] =
                 IF documents[d].hash = c THEN Ended
                 ELSE [pc |-> "write", doc |-> d, version |-> Len(documents[d].versions) + 1,
                       content |-> c, external |-> e]]
      <3> PICK d \in Existing(e, c) : uploading' = [uploading EXCEPT ![u] =
                 IF documents[d].hash = c THEN Ended
                 ELSE [pc |-> "write", doc |-> d, version |-> Len(documents[d].versions) + 1,
                       content |-> c, external |-> e]]
        BY <2>2
      <3>1. CASE documents[d].hash = c
        BY <3>1
      <3>2. CASE documents[d].hash # c
        <4> DEFINE r == [pc |-> "write", doc |-> d, version |-> Len(documents[d].versions) + 1,
                       content |-> c, external |-> e]
        <4>1. d \in DocIds /\ documents[d].used
          BY DEF Existing, Used
        <4>2. VersionsOf(d) = Len(documents[d].versions)
          BY <4>1 DEF VersionsOf
        <4>3. VersionsOf(d) \in Nat
          BY <4>1, VersionsNat DEF UpInv
        <4>4. r \in Running /\ r.pc = "write" /\ r.version = VersionsOf(d) + 1 /\ r.doc = d
          BY <4>1, <4>2, <4>3 DEF Running
        <4>5. r.version <= VersionsOf(r.doc) + 1
          <5> HIDE DEF r
          <5> QED BY <4>4, <4>3
        <4> QED BY <3>2, <4>4, <4>5
      <3> QED BY <3>1, <3>2
    <2> QED BY <2>1, <2>2
  <1>3. /\ uploading'[u] = r
        /\ \A v \in Uploads \ {u} : uploading'[v] = uploading[v]
        /\ ~RowsWritten(u)'
    BY <1>2 DEF UpInv, UpTypeOK, RowsWritten, Ended
  <1>4. UpTypeOK'
    BY <1>1, <1>2 DEF UpInv, UpTypeOK
  <1>5. FilesStored'
    BY <1>1 DEF UpInv, FilesStored, Used
  <1>6. NextVersion'
    BY <1>1, <1>2, <1>3 DEF UpInv, NextVersion, VersionsOf, RowsWritten, Ended
  <1>7. OneWriter'
    BY <1>3 DEF UpInv, OneWriter, RowsWritten
  <1>8. FilePut'
    BY <1>1, <1>2, <1>3 DEF UpInv, FilePut, RowsWritten
  <1> QED BY <1>4, <1>5, <1>6, <1>7, <1>8 DEF UpInv

LEMMA WriteRowsKeeps ==
  ASSUME UpInv, NEW u \in Uploads, WriteRows(u)
  PROVE  UpInv'
  <1> DEFINE p == uploading[u]
  <1>1. p.pc = "write" /\ UNCHANGED <<documents, objects>>
    BY DEF WriteRows
  <1>2. p \in Running
    BY <1>1, UploadCases DEF UpInv
  <1>3. FilesStored'
    BY <1>1 DEF UpInv, FilesStored, Used
  <1>4. CASE uploading' = [uploading EXCEPT ![u] = Ended]
    BY <1>1, <1>3, <1>4 DEF UpInv, UpTypeOK, NextVersion, VersionsOf, RowsWritten, Ended, OneWriter, FilePut
  <1>5. CASE /\ ~Refused(p)
             /\ <<p.doc, p.version>> \notin Writing
             /\ uploading' = [uploading EXCEPT ![u].pc = "put"]
    <2>1. p.version = VersionsOf(p.doc) + 1
      <3>1. p.version <= VersionsOf(p.doc) + 1 /\ VersionsOf(p.doc) \in Nat /\ p.version \in Nat \ {0}
        BY <1>1, <1>2, VersionsNat DEF UpInv, NextVersion, Running
      <3>2. CASE documents[p.doc].used
        BY <1>5, <3>1, <3>2 DEF Refused, VersionsOf
      <3>3. CASE ~documents[p.doc].used
        BY <3>1, <3>3 DEF VersionsOf
      <3> QED BY <3>2, <3>3
    <2>2. \A v \in Uploads : RowsWritten(v) => uploading[v].doc # p.doc
      <3> SUFFICES ASSUME NEW v \in Uploads, RowsWritten(v), uploading[v].doc = p.doc PROVE FALSE
        OBVIOUS
      <3>1. uploading[v].version = p.version
        BY <2>1 DEF UpInv, NextVersion
      <3> QED BY <3>1, <1>5 DEF Writing, RowsWritten
    <2>3. /\ uploading'[u] = [p EXCEPT !.pc = "put"]
          /\ \A v \in Uploads \ {u} : uploading'[v] = uploading[v]
      BY <1>5 DEF UpInv, UpTypeOK
    <2>4. /\ uploading'[u] \in Running /\ uploading'[u].pc = "put"
          /\ uploading'[u].doc = p.doc /\ uploading'[u].version = p.version
      BY <2>3, <1>2 DEF Running
    <2>5. UpTypeOK'
      BY <1>1, <1>5, <2>3, <2>4 DEF UpInv, UpTypeOK
    <2>6. NextVersion'
      BY <1>1, <2>1, <2>3, <2>4, ZenonT(40) DEF UpInv, NextVersion, VersionsOf, RowsWritten
    <2>7. OneWriter'
      <3>1. \A v \in Uploads : uploading'[v].doc = uploading[v].doc
        BY <2>3, <2>4
      <3>2. \A v \in Uploads : RowsWritten(v)' => v = u \/ RowsWritten(v)
        BY <2>3 DEF RowsWritten
      <3> QED BY <2>2, <3>1, <3>2 DEF UpInv, OneWriter
    <2>8. FilePut'
      BY <1>1, <2>3, <2>4 DEF UpInv, FilePut
    <2> QED BY <1>3, <2>5, <2>6, <2>7, <2>8 DEF UpInv
  <1> QED BY <1>4, <1>5 DEF WriteRows

LEMMA PutKeeps ==
  ASSUME UpInv, NEW u \in Uploads, Put(u)
  PROVE  UpInv'
  <1> DEFINE p == uploading[u]
             k == <<p.doc, p.version>>
  <1>1. /\ p.pc = "put" /\ documents' = documents
        /\ objects' = [x \in DOMAIN objects \cup {k} |-> IF x = k THEN p.content ELSE objects[x]]
        /\ uploading' = [uploading EXCEPT ![u].pc = "commit"]
    BY DEF Put
  <1>2. p \in Running /\ p.doc \in DocIds /\ RowsWritten(u)
    BY <1>1, UploadCases DEF UpInv, RowsWritten, Running
  <1>3. p.version = VersionsOf(p.doc) + 1 /\ VersionsOf(p.doc) \in Nat
    BY <1>2, VersionsNat DEF UpInv, NextVersion
  <1>4. /\ uploading'[u] = [p EXCEPT !.pc = "commit"]
        /\ \A v \in Uploads \ {u} : uploading'[v] = uploading[v]
    BY <1>1 DEF UpInv, UpTypeOK
  <1>5. /\ uploading'[u] \in Running /\ uploading'[u].pc = "commit" /\ uploading'[u].content = p.content
        /\ uploading'[u].doc = p.doc /\ uploading'[u].version = p.version
    BY <1>4, <1>2 DEF Running
  <1>6. UpTypeOK'
    BY <1>1, <1>4, <1>5 DEF UpInv, UpTypeOK
  <1>7. FilesStored'
    <2> SUFFICES ASSUME NEW d \in Used
                 PROVE  \A n \in 1..Len(documents[d].versions) :
                          /\ <<d, n>> \in DOMAIN objects'
                          /\ objects'[<<d, n>>] = documents[d].versions[n]
      BY <1>1, ZenonT(40) DEF UpInv, FilesStored, Used
    <2> TAKE n \in 1..Len(documents[d].versions)
    <2>1. <<d, n>> \in DOMAIN objects /\ objects[<<d, n>>] = documents[d].versions[n]
      BY DEF UpInv, FilesStored
    <2>2. <<d, n>> # k
      <3> SUFFICES ASSUME d = p.doc PROVE n # p.version
        OBVIOUS
      <3>1. VersionsOf(d) = Len(documents[d].versions)
        BY DEF VersionsOf, Used
      <3> QED BY <3>1, <1>3
    <2> QED BY <1>1, <2>1, <2>2
  <1>8. NextVersion'
    BY <1>1, <1>3, <1>4, <1>5, ZenonT(40) DEF UpInv, NextVersion, VersionsOf, RowsWritten
  <1>9. OneWriter'
    <2>1. \A v \in Uploads : uploading'[v].doc = uploading[v].doc
      BY <1>4, <1>5
    <2>2. \A v \in Uploads : RowsWritten(v)' => RowsWritten(v)
      BY <1>2, <1>4 DEF RowsWritten
    <2> QED BY <2>1, <2>2 DEF UpInv, OneWriter
  <1>10. FilePut'
    <2> SUFFICES ASSUME NEW v \in Uploads, uploading'[v].pc = "commit"
                 PROVE  LET q == <<uploading'[v].doc, uploading'[v].version>>
                        IN  q \in DOMAIN objects' /\ objects'[q] = uploading'[v].content
      BY DEF FilePut
    <2>1. CASE v = u
      BY <2>1, <1>1, <1>5
    <2>2. CASE v # u
      <3> DEFINE q == <<uploading[v].doc, uploading[v].version>>
      <3>1. uploading'[v] = uploading[v] /\ q \in DOMAIN objects /\ objects[q] = uploading[v].content
        BY <2>2, <1>4 DEF UpInv, FilePut
      <3>2. uploading[v].doc # p.doc
        BY <2>2, <1>2, <3>1 DEF UpInv, OneWriter, RowsWritten
      <3> QED BY <3>1, <3>2, <1>1
    <2> QED BY <2>1, <2>2
  <1> QED BY <1>6, <1>7, <1>8, <1>9, <1>10 DEF UpInv

LEMMA CommitKeeps ==
  ASSUME UpInv, NEW u \in Uploads, Commit(u)
  PROVE  UpInv'
  <1> DEFINE p == uploading[u]
             older == IF documents[p.doc].used THEN documents[p.doc].versions ELSE <<>>
             new == [used |-> TRUE, hash |-> p.content, versions |-> Append(older, p.content),
                     external |-> IF documents[p.doc].used THEN documents[p.doc].external ELSE p.external]
  <1>1. /\ p.pc = "commit" /\ objects' = objects
        /\ documents' = [documents EXCEPT ![p.doc] = new]
        /\ uploading' = [uploading EXCEPT ![u] = Ended]
    BY DEF Commit
  <1>2. p \in Running /\ p.doc \in DocIds /\ p.content \in Contents /\ RowsWritten(u)
    BY <1>1, UploadCases DEF UpInv, RowsWritten, Running
  <1>3. p.version = VersionsOf(p.doc) + 1 /\ VersionsOf(p.doc) \in Nat
    BY <1>2, VersionsNat DEF UpInv, NextVersion
  <1>4. /\ older \in Seq(Contents) /\ Len(older) = VersionsOf(p.doc)
        /\ new.external \in ExternalIds \cup {NoId}
    <2>1. p.external \in ExternalIds \cup {NoId}
      BY <1>2 DEF Running
    <2>2. CASE documents[p.doc].used
      <3>1. documents[p.doc] \in Document
        BY <2>2, <1>2, DocCases DEF UpInv
      <3> QED BY <2>2, <3>1 DEF VersionsOf, Document
    <2>3. CASE ~documents[p.doc].used
      BY <2>1, <2>3 DEF VersionsOf
    <2> QED BY <2>2, <2>3
  <1>5. /\ new.versions \in Seq(Contents) /\ Len(new.versions) = p.version
        /\ new.versions[p.version] = p.content
        /\ \A n \in 1..VersionsOf(p.doc) : new.versions[n] = older[n]
    <2> HIDE DEF older
    <2> QED BY <1>2, <1>3, <1>4
  <1>6. new \in Document /\ new.used /\ new.hash = p.content
    BY <1>2, <1>4, <1>5 DEF Document
  <1> HIDE DEF new
  <1>7. /\ documents'[p.doc] = new
        /\ \A d \in DocIds \ {p.doc} : documents'[d] = documents[d]
        /\ uploading'[u] = Ended
        /\ \A v \in Uploads \ {u} : uploading'[v] = uploading[v]
    BY <1>1, <1>2 DEF UpInv, UpTypeOK
  <1>8. UpTypeOK'
    BY <1>1, <1>6 DEF UpInv, UpTypeOK
  <1>9. FilesStored'
    <2> SUFFICES ASSUME NEW d \in DocIds, documents'[d].used
                 PROVE  /\ documents'[d].versions # <<>>
                        /\ documents'[d].hash = documents'[d].versions[Len(documents'[d].versions)]
                        /\ \A n \in 1..Len(documents'[d].versions) :
                             /\ <<d, n>> \in DOMAIN objects
                             /\ objects[<<d, n>>] = documents'[d].versions[n]
      BY <1>1 DEF FilesStored, Used
    <2>1. CASE d # p.doc
      BY <2>1, <1>7 DEF UpInv, FilesStored, Used
    <2>2. CASE d = p.doc
      <3>1. documents'[d] = new /\ Len(new.versions) = p.version
        BY <2>2, <1>5, <1>7
      <3>2. p.version # 0 /\ new.versions # <<>>
        BY <1>3, <1>5
      <3>3. ASSUME NEW n \in 1..p.version
            PROVE  <<d, n>> \in DOMAIN objects /\ objects[<<d, n>>] = new.versions[n]
        <4>1. CASE n = p.version
          BY <4>1, <2>2, <1>1, <1>5 DEF UpInv, FilePut
        <4>2. CASE n # p.version
          <5>1. n \in 1..VersionsOf(p.doc)
            BY <4>2, <1>3
          <5>2. documents[d].used /\ older = documents[d].versions /\ n \in 1..Len(documents[d].versions)
            BY <5>1, <2>2 DEF VersionsOf
          <5>3. new.versions[n] = documents[d].versions[n]
            BY <5>1, <5>2, <1>5
          <5> QED BY <5>2, <5>3 DEF UpInv, FilesStored, Used
        <4> QED BY <4>1, <4>2
      <3> QED BY <3>1, <3>2, <3>3, <1>5, <1>6
    <2> QED BY <2>1, <2>2
  <1>10. \A d \in DocIds : VersionsOf(d)' = IF d = p.doc THEN VersionsOf(d) + 1 ELSE VersionsOf(d)
    <2> SUFFICES ASSUME NEW d \in DocIds
                 PROVE  VersionsOf(d)' = IF d = p.doc THEN VersionsOf(d) + 1 ELSE VersionsOf(d)
      OBVIOUS
    <2>1. CASE d = p.doc
      <3>1. VersionsOf(d)' = Len(new.versions)
        BY <2>1, <1>6, <1>7 DEF VersionsOf
      <3> QED BY <2>1, <3>1, <1>3, <1>5
    <2>2. CASE d # p.doc
      BY <2>2, <1>7 DEF VersionsOf
    <2> QED BY <2>1, <2>2
  <1>11. NextVersion'
    <2> SUFFICES ASSUME NEW v \in Uploads
                 PROVE  /\ uploading'[v].pc = "write"
                             => uploading'[v].version <= VersionsOf(uploading[v].doc)' + 1
                        /\ RowsWritten(v)' => uploading'[v].version = VersionsOf(uploading[v].doc)' + 1
      BY DEF NextVersion
    <2>1. CASE v = u
      BY <2>1, <1>7 DEF RowsWritten, Ended
    <2>2. CASE v # u
      <3>1. uploading'[v] = uploading[v]
        BY <2>2, <1>7
      <3>2. CASE RowsWritten(v)
        <4>1. uploading[v].doc \in DocIds \ {p.doc}
          BY <2>2, <3>2, <1>2, UploadCases DEF UpInv, OneWriter, RowsWritten, Running
        <4> PICK d : d = uploading[v].doc
          OBVIOUS
        <4> QED BY <3>1, <3>2, <4>1, <1>7, <1>10 DEF UpInv, NextVersion, RowsWritten, VersionsOf
      <3>3. CASE uploading[v].pc = "write"
        <4>1. /\ uploading[v].doc \in DocIds /\ uploading[v].version \in Nat
              /\ uploading[v].version <= VersionsOf(uploading[v].doc) + 1
          BY <3>3, UploadCases DEF UpInv, NextVersion, Running
        <4> PICK d \in DocIds : d = uploading[v].doc
          BY <4>1
        <4>2. VersionsOf(d) \in Nat /\ VersionsOf(d)' \in {VersionsOf(d), VersionsOf(d) + 1}
          BY <1>10, VersionsNat DEF UpInv
        <4>3. VersionsOf(d)' = VersionsOf(uploading[v].doc)'
          BY <3>1 DEF VersionsOf
        <4> QED BY <3>1, <3>3, <4>1, <4>2, <4>3 DEF RowsWritten
      <3> QED BY <3>1, <3>2, <3>3 DEF RowsWritten
    <2> QED BY <2>1, <2>2
  <1>12. OneWriter' /\ FilePut'
    BY <1>1, <1>7 DEF UpInv, OneWriter, FilePut, RowsWritten, Ended
  <1> QED BY <1>8, <1>9, <1>11, <1>12 DEF UpInv

LEMMA UploadFailsKeeps ==
  ASSUME UpInv, NEW u \in Uploads, UploadFails(u)
  PROVE  UpInv'
  <1>1. UNCHANGED <<documents, objects>> /\ uploading' = [uploading EXCEPT ![u] = Ended]
    BY DEF UploadFails
  <1>2. FilesStored'
    BY <1>1 DEF UpInv, FilesStored, Used
  <1> QED BY <1>1, <1>2 DEF UpInv, UpTypeOK, NextVersion, VersionsOf, RowsWritten, Ended, OneWriter, FilePut

\* However uploads of one document race, fail after the file was put or repeat,
\* each committed version has its own content in the store, and the document the
\* hash of the latest (services.py:106-138).
THEOREM StoredFilesMatchVersions == UpSpec => []StoredFileMatchesVersion
  <1>1. UpInit => UpInv
    BY DEF UpInit, UpInv, UpTypeOK, FilesStored, NextVersion, OneWriter, FilePut, RowsWritten, Used,
           Waiting, NoDoc
  <1>2. UpInv /\ [UpNext]_upVars => UpInv'
    <2> SUFFICES ASSUME UpInv, [UpNext]_upVars PROVE UpInv'
      OBVIOUS
    <2>1. CASE UNCHANGED upVars
      BY <2>1 DEF upVars, UpInv, UpTypeOK, FilesStored, NextVersion, VersionsOf, RowsWritten, OneWriter,
                  FilePut, Used
    <2>2. CASE UpNext
      BY <2>2, FindKeeps, WriteRowsKeeps, PutKeeps, CommitKeeps, UploadFailsKeeps DEF UpNext
    <2> QED BY <2>1, <2>2
  <1>3. UpInv => StoredFileMatchesVersion
    BY DEF UpInv, FilesStored, StoredFileMatchesVersion
  <1> QED BY <1>1, <1>2, <1>3, PTL DEF UpSpec

-----------------------------------------------------------------------------
(* Payables: a task looks for an earlier payable of its bill, extracts, and
   projects what it found to the calendar.                                     *)

\* The rows and what a task holds between its two steps.
Payable == [bill : Bills \cup {None}, duplicate : BillUnits \cup {None}, accepted : BOOLEAN]
Projection == [unit : BillUnits, found : Extraction, original : BillUnits \cup {None}]
PayTypeOK ==
  /\ Filed \subseteq BillUnits
  /\ payables \in [Filed -> Payable]
  /\ filed \in Seq(BillUnits)
  /\ projecting \in [PayWorkers -> Projection \cup {NoTask}]

\* The order of the rows names every payable; the original is found in it.
FiledInOrder == \A o \in Filed : \E i \in DOMAIN filed : filed[i] = o
\* Only a payable that is no duplicate has a reminder.
RemindersAreOriginals == events \subseteq Filed /\ \A o \in events : payables[o].duplicate = None
\* A task that found no original meets no reminder of its bill when it writes.
NoOtherReminder(p) ==
  p # NoTask /\ p.original = None /\ p.found.bill # None
    => \A o \in events \ {p.unit} : payables[o].bill # p.found.bill

PayInv ==
  /\ PayTypeOK /\ FiledInOrder /\ RemindersAreOriginals /\ OneReminderPerBill
  /\ \A w \in PayWorkers : NoOtherReminder(projecting[w])

LEMMA NoOriginal ==
  ASSUME PayInv, NEW u \in BillUnits, NEW x \in Extraction
  PROVE  /\ Original(u, x) \in BillUnits \cup {None}
         /\ Original(u, x) = None /\ x.bill # None
              => \A o \in events \ {u} : payables[o].bill # x.bill
  <1> DEFINE same == {i \in DOMAIN filed : filed[i] # u /\ payables[filed[i]].bill = x.bill
                                            /\ payables[filed[i]].duplicate = None}
  <1>1. Original(u, x) = IF x.bill # None /\ same # {} THEN filed[Min(same)] ELSE None
    BY DEF Original
  <1>2. same \in SUBSET Nat /\ \A i \in same : filed[i] \in BillUnits
    BY DEF PayInv, PayTypeOK
  <1>3. same # {} => filed[Min(same)] \in BillUnits
    <2> HIDE DEF same
    <2> QED BY <1>2, MinIsLeast
  <1>4. ASSUME same = {}, NEW o \in events \ {u} PROVE payables[o].bill # x.bill
    <2> PICK i \in DOMAIN filed : filed[i] = o
      BY DEF PayInv, RemindersAreOriginals, FiledInOrder
    <2> QED BY <1>4 DEF PayInv, RemindersAreOriginals
  <1> HIDE DEF same
  <1> QED BY <1>1, <1>3, <1>4, PayablesAssumption

LEMMA LookKeeps ==
  ASSUME PayInv, NEW w \in PayWorkers, LookForOriginal(w)
  PROVE  PayInv'
  <1> PICK u \in BillUnits \ deleted, x \in Extraction :
        projecting' = [projecting EXCEPT ![w] = [unit |-> u, found |-> x, original |-> Original(u, x)]]
    BY DEF LookForOriginal
  <1> DEFINE p == [unit |-> u, found |-> x, original |-> Original(u, x)]
  <1>1. UNCHANGED <<payables, filed, events, deleted>>
    BY DEF LookForOriginal
  <1>2. p \in Projection /\ p.unit = u /\ p.found = x /\ p.original = Original(u, x)
    BY NoOriginal DEF Projection
  <1>3. NoOtherReminder(p)
    BY <1>2, NoOriginal DEF NoOtherReminder
  <1> HIDE DEF p
  <1>4. projecting' = [projecting EXCEPT ![w] = p]
    BY DEF p
  <1>5. projecting'[w] = p /\ \A v \in PayWorkers \ {w} : projecting'[v] = projecting[v]
    BY <1>4 DEF PayInv, PayTypeOK
  <1>6. PayTypeOK' /\ FiledInOrder' /\ RemindersAreOriginals' /\ OneReminderPerBill'
    BY <1>1, <1>2, <1>4 DEF PayInv, PayTypeOK, FiledInOrder, RemindersAreOriginals, OneReminderPerBill, Filed
  <1>7. ASSUME NEW v \in PayWorkers PROVE NoOtherReminder(projecting[v])'
    <2>1. NoOtherReminder(projecting'[v])
      BY <1>3, <1>5 DEF PayInv
    <2> QED BY <1>1, <2>1 DEF NoOtherReminder
  <1> QED BY <1>6, <1>7 DEF PayInv

LEMMA ProjectKeeps ==
  ASSUME \A v, w \in PayWorkers : v = w,
         PayInv, NEW w \in PayWorkers, Project(w)
  PROVE  PayInv'
  <1> DEFINE p == projecting[w]
             u == p.unit
             new == [bill |-> p.found.bill, duplicate |-> p.original,
                     accepted |-> p.original = None /\ p.found.sound]
  <1>1. /\ p # NoTask
        /\ payables' = [o \in Filed \cup {u} |-> IF o # u THEN payables[o] ELSE new]
        /\ filed' = IF u \in Filed THEN filed ELSE Append(filed, u)
        /\ events' = IF Reminded(p) THEN events \cup {u} ELSE events \ {u}
        /\ projecting' = [projecting EXCEPT ![w] = NoTask]
    BY DEF Project
  <1>2. p \in Projection
    BY <1>1 DEF PayInv, PayTypeOK
  <1>3. /\ u \in BillUnits /\ p.found \in Extraction /\ p.original \in BillUnits \cup {None}
        /\ p.found.bill \in Bills \cup {None}
    BY <1>2 DEF Projection, Extraction
  <1>4. new \in Payable /\ new.bill = p.found.bill /\ new.duplicate = p.original
    BY <1>3 DEF Payable
  <1> HIDE DEF new
  <1>5. /\ Filed' = Filed \cup {u} /\ payables'[u] = new
        /\ \A o \in Filed \ {u} : payables'[o] = payables[o]
    BY <1>1 DEF Filed
  <1>6. PayTypeOK'
    <2>1. Filed' \subseteq BillUnits /\ filed' \in Seq(BillUnits)
      BY <1>1, <1>3, <1>5 DEF PayInv, PayTypeOK
    <2>2. payables' \in [Filed' -> Payable]
      BY <1>1, <1>4, <1>5 DEF PayInv, PayTypeOK
    <2>3. projecting' \in [PayWorkers -> Projection \cup {NoTask}]
      BY <1>1 DEF PayInv, PayTypeOK
    <2> QED BY <2>1, <2>2, <2>3 DEF PayTypeOK
  <1>7. FiledInOrder'
    <2> SUFFICES ASSUME NEW o \in Filed \cup {u} PROVE \E i \in DOMAIN filed' : filed'[i] = o
      BY <1>5 DEF FiledInOrder
    <2>1. CASE o \in Filed
      <3> PICK i \in DOMAIN filed : filed[i] = o
        BY <2>1 DEF PayInv, FiledInOrder
      <3>1. i \in DOMAIN filed' /\ filed'[i] = filed[i]
        BY <1>1, <1>3 DEF PayInv, PayTypeOK
      <3> QED BY <3>1
    <2>2. CASE o \notin Filed
      <3>1. filed' = Append(filed, u) /\ o = u
        BY <1>1, <2>2
      <3>2. Len(filed) + 1 \in DOMAIN filed' /\ filed'[Len(filed) + 1] = u
        BY <3>1, <1>3 DEF PayInv, PayTypeOK
      <3> QED BY <3>1, <3>2
    <2> QED BY <2>1, <2>2
  <1>8. RemindersAreOriginals'
    BY <1>1, <1>4, <1>5 DEF PayInv, RemindersAreOriginals, Reminded
  <1>9. OneReminderPerBill'
    <2> SUFFICES ASSUME NEW a \in events', NEW b \in events', a # b, payables'[a].bill # None
                 PROVE  payables'[a].bill # payables'[b].bill
      BY DEF OneReminderPerBill
    <2>1. a \in Filed' /\ b \in Filed'
      BY <1>8 DEF RemindersAreOriginals
    <2>2. CASE a # u /\ b # u
      <3>1. a \in events /\ b \in events /\ payables'[a] = payables[a] /\ payables'[b] = payables[b]
        BY <1>1, <1>5, <2>1, <2>2
      <3> QED BY <3>1 DEF PayInv, OneReminderPerBill
    <2>3. ASSUME u \in events', NEW o \in events' \ {u}, new.bill # None PROVE payables'[o].bill # new.bill
      <3>1. p.original = None
        BY <1>1, <2>3 DEF Reminded
      <3>2. o \in events /\ o \in Filed \ {u}
        BY <1>1 DEF PayInv, RemindersAreOriginals
      <3> QED BY <3>1, <3>2, <2>3, <1>1, <1>4, <1>5 DEF PayInv, NoOtherReminder
    <2>4. CASE a = u
      BY <2>3, <2>4, <1>5
    <2>5. CASE b = u
      BY <2>3, <2>5, <1>5
    <2> QED BY <2>2, <2>4, <2>5
  <1>10. ASSUME NEW v \in PayWorkers PROVE NoOtherReminder(projecting[v])'
    <2>1. v = w /\ projecting'[v] = NoTask
      BY <1>1 DEF PayInv, PayTypeOK
    <2> QED BY <2>1 DEF NoOtherReminder, NoTask
  <1> QED BY <1>6, <1>7, <1>8, <1>9, <1>10 DEF PayInv

LEMMA ProjectFailsKeeps ==
  ASSUME PayInv, NEW w \in PayWorkers, ProjectFails(w)
  PROVE  PayInv'
  <1>1. /\ projecting' = [projecting EXCEPT ![w] = NoTask]
        /\ UNCHANGED <<payables, filed, events, deleted>>
    BY DEF ProjectFails
  <1>2. PayTypeOK' /\ FiledInOrder' /\ RemindersAreOriginals' /\ OneReminderPerBill'
    BY <1>1 DEF PayInv, PayTypeOK, FiledInOrder, RemindersAreOriginals, OneReminderPerBill, Filed
  <1>3. ASSUME NEW v \in PayWorkers PROVE NoOtherReminder(projecting[v])'
    <2>1. projecting'[v] = projecting[v] \/ projecting'[v] = NoTask
      BY <1>1 DEF PayInv, PayTypeOK
    <2> QED BY <1>1, <2>1 DEF PayInv, NoOtherReminder
  <1> QED BY <1>2, <1>3 DEF PayInv

LEMMA DeleteBillKeeps ==
  ASSUME PayInv, NEW u \in BillUnits, DeleteBillUnit(u)
  PROVE  PayInv'
  <1> DEFINE cleared(o) == IF payables[o].duplicate = u THEN [payables[o] EXCEPT !.duplicate = None]
                           ELSE payables[o]
             at == CHOOSE i \in DOMAIN filed : filed[i] = u
  <1>1. /\ payables' = [o \in Filed \ {u} |-> cleared(o)]
        /\ filed' = IF u \in Filed THEN RemoveAt(filed, at) ELSE filed
        /\ events' = events \ {u}
        /\ UNCHANGED projecting
    BY DEF DeleteBillUnit
  <1>2. \A o \in Filed : /\ cleared(o) \in Payable /\ cleared(o).bill = payables[o].bill
                         /\ payables[o].duplicate = None => cleared(o).duplicate = None
    <2> SUFFICES ASSUME NEW o \in Filed
                 PROVE  /\ cleared(o) \in Payable /\ cleared(o).bill = payables[o].bill
                        /\ payables[o].duplicate = None => cleared(o).duplicate = None
      OBVIOUS
    <2>1. payables[o] \in Payable
      BY DEF PayInv, PayTypeOK
    <2> QED BY <2>1 DEF Payable
  <1> HIDE DEF cleared
  <1>3. Filed' = Filed \ {u} /\ \A o \in Filed \ {u} : payables'[o] = cleared(o)
    BY <1>1 DEF Filed
  <1>4. u \in Filed => at \in DOMAIN filed /\ filed[at] = u
    BY DEF PayInv, FiledInOrder
  <1> HIDE DEF at
  <1>5. PayTypeOK'
    <2>1. filed' \in Seq(BillUnits)
      BY <1>1, <1>4, RemovedFromOrder DEF PayInv, PayTypeOK
    <2> QED BY <1>1, <1>2, <1>3, <2>1 DEF PayInv, PayTypeOK
  <1>6. FiledInOrder'
    <2> SUFFICES ASSUME NEW o \in Filed \ {u} PROVE \E j \in DOMAIN filed' : filed'[j] = o
      BY <1>3 DEF FiledInOrder
    <2> PICK k \in DOMAIN filed : filed[k] = o
      BY DEF PayInv, FiledInOrder
    <2>1. CASE u \in Filed
      <3>1. filed' = RemoveAt(filed, at) /\ at \in DOMAIN filed /\ k \in DOMAIN filed \ {at}
        BY <1>1, <1>4, <2>1
      <3> QED BY <3>1, RemovedFromOrder DEF PayInv, PayTypeOK
    <2>2. CASE u \notin Filed
      BY <1>1, <2>2
    <2> QED BY <2>1, <2>2
  <1>7. RemindersAreOriginals' /\ OneReminderPerBill'
    BY <1>1, <1>2, <1>3 DEF PayInv, RemindersAreOriginals, OneReminderPerBill
  <1>8. \A w \in PayWorkers : NoOtherReminder(projecting[w])'
    BY <1>1, <1>2, <1>3 DEF PayInv, RemindersAreOriginals, NoOtherReminder
  <1> QED BY <1>5, <1>6, <1>7, <1>8 DEF PayInv

\* With one specialist task at a time, the default concurrency, two reminders are
\* never of one bill, in whatever order documents are extracted, extracted again
\* and deleted (payables.py:74, calendar.py:70).
THEOREM BillsAreRemindedOnce ==
  ASSUME \A v, w \in PayWorkers : v = w
  PROVE  PaySpec => []OneReminderPerBill
  <1>1. PayInit => PayInv
    BY DEF PayInit, PayInv, PayTypeOK, Filed, FiledInOrder, RemindersAreOriginals, OneReminderPerBill,
           NoOtherReminder
  <1>2. PayInv /\ [PayNext]_payVars => PayInv'
    <2> SUFFICES ASSUME PayInv, [PayNext]_payVars PROVE PayInv'
      OBVIOUS
    <2>1. CASE UNCHANGED payVars
      BY <2>1 DEF payVars, PayInv, PayTypeOK, Filed, FiledInOrder, RemindersAreOriginals,
                  OneReminderPerBill, NoOtherReminder
    <2>2. CASE PayNext
      BY <2>2, LookKeeps, ProjectKeeps, ProjectFailsKeeps, DeleteBillKeeps DEF PayNext
    <2> QED BY <2>1, <2>2
  <1>3. PayInv => OneReminderPerBill
    BY DEF PayInv
  <1> QED BY <1>1, <1>2, <1>3, PTL DEF PaySpec

-----------------------------------------------------------------------------
(* SearchIndex: refreshes of a document collect, delete and insert in three
   transactions, by the worker or by a request, while it is processed again.    *)

Chunk == [doc : IndexDocs, generation : Nat, part : ChunkParts]
RunState == [stage : {"idle", "collect", "delete", "insert"}, scope : SUBSET IndexDocs, retries : Nat,
             chunks : SUBSET Chunk, old : SUBSET Chunk, mixed : SUBSET IndexDocs]
IndexTypeOK ==
  /\ generation \in [IndexDocs -> Nat]
  /\ finalizing \subseteq IndexDocs
  /\ messages \subseteq [doc : IndexDocs, retries : Nat, of : Nat]
  /\ runs \in [Runs -> RunState]
  /\ rows \subseteq Chunk

\* Why a document may still have rows of an earlier generation.
Sent(d) == \E m \in messages : m.doc = d
Unsettled(d) == d \in finalizing \cup abandoned \cup tangled \/ Sent(d) \/ d \in runs[IndexWorker].scope

\* The residue is gone from what is settled; the property of the runs, with the
\* scopes of requests taken out.
SettledIsCurrent == \A d \in IndexDocs : ~Unsettled(d) => RowsOf({d}) \subseteq Current(d)

\* A run that is alone with a document nobody sent again holds its current chunks,
\* and before it inserts knows every row it has to replace.
RunIsCurrent(r) ==
  \A d \in runs[r].scope \ (runs[r].mixed \cup finalizing) : ~Sent(d) =>
    /\ runs[r].stage \in {"delete", "insert"} => \A c \in runs[r].chunks : c.doc = d => c \in Current(d)
    /\ runs[r].stage = "insert" => RowsOf({d}) \subseteq runs[r].old

RunInScope(r) ==
  /\ \A c \in runs[r].chunks : c.doc \in runs[r].scope
  /\ runs[r].stage = "idle" => runs[r].scope = {}

\* Two runs on one document know that they are mixed.
OverlapNoted == \A r, q \in Runs : r # q => runs[r].scope \cap runs[q].scope \subseteq runs[r].mixed

IndexInv ==
  /\ IndexTypeOK /\ SettledIsCurrent /\ OverlapNoted
  /\ \A r \in Runs : RunIsCurrent(r) /\ RunInScope(r)

LEMMA IdleRunIsRun == IdleRun \in RunState /\ IdleRun.scope = {} /\ IdleRun.chunks = {} /\ IdleRun.stage = "idle"
  BY DEF IdleRun, RunState

LEMMA CollectedChunks ==
  ASSUME IndexTypeOK, NEW scope \in SUBSET IndexDocs
  PROVE  /\ Collected(scope) \subseteq Chunk
         /\ \A c \in Collected(scope) : c.doc \in scope /\ c \in Current(c.doc)
  BY DEF IndexTypeOK, Collected, Current, Chunk

LEMMA RunStays ==
  ASSUME IndexInv, NEW q \in Runs,
         /\ runs'[q].stage = runs[q].stage /\ runs'[q].scope = runs[q].scope
         /\ runs'[q].chunks = runs[q].chunks /\ runs'[q].old = runs[q].old
         /\ runs[q].mixed \subseteq runs'[q].mixed,
         \A d \in runs[q].scope \ (runs'[q].mixed \cup finalizing') : ~(Sent(d)') =>
           d \notin finalizing /\ ~Sent(d) /\ Current(d)' = Current(d) /\ RowsOf({d})' \subseteq RowsOf({d})
  PROVE  RunIsCurrent(q)' /\ RunInScope(q)'
  <1>1. RunIsCurrent(q) /\ RunInScope(q)
    BY DEF IndexInv
  <1>2. RunInScope(q)'
    BY <1>1 DEF RunInScope
  <1>3. RunIsCurrent(q)'
    <2> SUFFICES ASSUME NEW d \in runs[q].scope \ (runs'[q].mixed \cup finalizing'), ~(Sent(d)')
                 PROVE  /\ runs[q].stage \in {"delete", "insert"}
                             => \A c \in runs[q].chunks : c.doc = d => c \in Current(d)'
                        /\ runs[q].stage = "insert" => RowsOf({d})' \subseteq runs[q].old
      BY DEF RunIsCurrent
    <2>1. d \notin finalizing /\ ~Sent(d) /\ Current(d)' = Current(d) /\ RowsOf({d})' \subseteq RowsOf({d})
      OBVIOUS
    <2> QED BY <1>1, <2>1 DEF RunIsCurrent
  <1> QED BY <1>2, <1>3

LEMMA ProcessKeeps ==
  ASSUME IndexInv, NEW d \in IndexDocs, ProcessDocument(d)
  PROVE  IndexInv'
  <1>1. /\ generation' = [generation EXCEPT ![d] = @ + 1] /\ finalizing' = finalizing \cup {d}
        /\ UNCHANGED <<messages, runs, rows, abandoned, tangled>>
    BY DEF ProcessDocument
  <1>2. IndexTypeOK'
    BY <1>1 DEF IndexInv, IndexTypeOK
  <1>3. \A e \in IndexDocs \ {d} : Current(e)' = Current(e)
    BY <1>1 DEF IndexInv, IndexTypeOK, Current
  <1>4. \A e : Sent(e)' <=> Sent(e)
    BY <1>1 DEF Sent
  <1>5. SettledIsCurrent'
    BY <1>1, <1>3, <1>4 DEF IndexInv, SettledIsCurrent, Unsettled, RowsOf
  <1>6. OverlapNoted'
    BY <1>1 DEF IndexInv, OverlapNoted
  <1>7. ASSUME NEW r \in Runs PROVE RunIsCurrent(r)' /\ RunInScope(r)'
    <2>1. runs[r].scope \subseteq IndexDocs
      BY DEF IndexInv, IndexTypeOK, RunState
    <2>2. \A e : RowsOf({e})' = RowsOf({e})
      BY <1>1 DEF RowsOf
    <2> QED BY <2>1, <2>2, <1>1, <1>3, <1>4, RunStays
  <1> QED BY <1>2, <1>5, <1>6, <1>7 DEF IndexInv

LEMMA FinalizedKeeps ==
  ASSUME IndexInv, NEW d \in IndexDocs, Finalized(d)
  PROVE  IndexInv'
  <1>1. /\ finalizing' = finalizing \ {d}
        /\ messages' = messages \cup {[doc |-> d, retries |-> 0, of |-> generation[d]]}
        /\ UNCHANGED <<generation, runs, rows, abandoned, tangled>>
    BY DEF Finalized
  <1>2. IndexTypeOK'
    BY <1>1 DEF IndexInv, IndexTypeOK
  <1>3. Sent(d)' /\ \A e : Sent(e) => Sent(e)'
    <2> DEFINE m == [doc |-> d, retries |-> 0, of |-> generation[d]]
    <2>1. m \in messages' /\ m.doc = d
      BY <1>1
    <2> HIDE DEF m
    <2> QED BY <2>1, <1>1 DEF Sent
  <1>4. \A e : Current(e)' = Current(e) /\ RowsOf({e})' = RowsOf({e})
    BY <1>1 DEF Current, RowsOf
  <1>5. SettledIsCurrent'
    BY <1>1, <1>3, <1>4 DEF IndexInv, SettledIsCurrent, Unsettled
  <1>6. OverlapNoted'
    BY <1>1 DEF IndexInv, OverlapNoted
  <1>7. ASSUME NEW r \in Runs PROVE RunIsCurrent(r)' /\ RunInScope(r)'
    BY <1>1, <1>3, <1>4, RunStays
  <1> QED BY <1>2, <1>5, <1>6, <1>7 DEF IndexInv

LEMMA StartRuns ==
  ASSUME IndexInv, NEW r \in Runs, NEW scope \in SUBSET IndexDocs, NEW retries \in Nat,
         Start(r, scope, retries)
  PROVE  /\ runs' \in [Runs -> RunState]
         /\ runs'[r].stage = "collect" /\ runs'[r].scope = scope /\ runs'[r].chunks = {}
         /\ \A q \in Runs \ {r} :
              /\ runs'[q].stage = runs[q].stage /\ runs'[q].scope = runs[q].scope
              /\ runs'[q].chunks = runs[q].chunks /\ runs'[q].old = runs[q].old
              /\ runs'[q].mixed = runs[q].mixed \cup (scope \cap runs[q].scope)
         /\ OverlapNoted'
  <1> DEFINE new == [IdleRun EXCEPT !.stage = "collect", !.scope = scope, !.retries = retries,
                       !.mixed = UNION {scope \cap runs[p].scope : p \in Runs}]
             other(q) == [runs[q] EXCEPT !.mixed = @ \cup (scope \cap runs[q].scope)]
  <1>1. runs' = [q \in Runs |-> IF q = r THEN new ELSE other(q)]
    BY DEF Start
  <1>2. /\ new \in RunState /\ new.stage = "collect" /\ new.scope = scope /\ new.chunks = {}
        /\ new.mixed = UNION {scope \cap runs[p].scope : p \in Runs}
    BY DEF IdleRun, RunState
  <1>3. ASSUME NEW q \in Runs
        PROVE  /\ other(q) \in RunState /\ other(q).stage = runs[q].stage /\ other(q).scope = runs[q].scope
               /\ other(q).chunks = runs[q].chunks /\ other(q).old = runs[q].old
               /\ other(q).mixed = runs[q].mixed \cup (scope \cap runs[q].scope)
    <2>1. runs[q] \in RunState
      BY DEF IndexInv, IndexTypeOK
    <2> QED BY <2>1 DEF RunState
  <1> HIDE DEF new, other
  <1>4. \A p, q \in Runs : p # q => runs'[p].scope \cap runs'[q].scope \subseteq runs'[p].mixed
    <2> SUFFICES ASSUME NEW p \in Runs, NEW q \in Runs, p # q
                 PROVE  runs'[p].scope \cap runs'[q].scope \subseteq runs'[p].mixed
      OBVIOUS
    <2>1. CASE p = r
      BY <2>1, <1>1, <1>2, <1>3
    <2>2. CASE p # r /\ q = r
      BY <2>2, <1>1, <1>2, <1>3
    <2>3. CASE p # r /\ q # r
      <3>1. runs[p].scope \cap runs[q].scope \subseteq runs[p].mixed
        BY DEF IndexInv, OverlapNoted
      <3> QED BY <2>3, <3>1, <1>1, <1>3
    <2> QED BY <2>1, <2>2, <2>3
  <1> QED BY <1>1, <1>2, <1>3, <1>4 DEF OverlapNoted

LEMMA ReceiveKeeps ==
  ASSUME IndexInv, NEW m \in messages, Receive(m)
  PROVE  IndexInv'
  <1>1. /\ Start(IndexWorker, {m.doc}, m.retries) /\ messages' = messages \ {m}
        /\ UNCHANGED <<generation, finalizing, rows, abandoned, tangled>>
    BY DEF Receive
  <1>2. {m.doc} \in SUBSET IndexDocs /\ m.retries \in Nat /\ IndexWorker \in Runs
    BY DEF IndexInv, IndexTypeOK, Runs
  <1>3. /\ runs' \in [Runs -> RunState]
        /\ runs'[IndexWorker].stage = "collect" /\ runs'[IndexWorker].scope = {m.doc}
        /\ runs'[IndexWorker].chunks = {}
        /\ \A q \in Runs \ {IndexWorker} :
              /\ runs'[q].stage = runs[q].stage /\ runs'[q].scope = runs[q].scope
              /\ runs'[q].chunks = runs[q].chunks /\ runs'[q].old = runs[q].old
              /\ runs'[q].mixed = runs[q].mixed \cup ({m.doc} \cap runs[q].scope)
        /\ OverlapNoted'
    BY <1>1, <1>2, StartRuns, ZenonT(40)
  <1>4. IndexTypeOK'
    BY <1>1, <1>3 DEF IndexInv, IndexTypeOK
  <1>5. \A e : Current(e)' = Current(e) /\ RowsOf({e})' = RowsOf({e})
    BY <1>1 DEF Current, RowsOf
  <1>6. \A e : Sent(e) => Sent(e)' \/ e = m.doc
    BY <1>1 DEF Sent
  <1>7. runs[IndexWorker].scope = {}
    BY <1>1, IdleRunIsRun DEF Start
  <1>8. SettledIsCurrent'
    BY <1>1, <1>3, <1>5, <1>6, <1>7, ZenonT(40) DEF IndexInv, SettledIsCurrent, Unsettled
  <1>9. ASSUME NEW r \in Runs PROVE RunIsCurrent(r)' /\ RunInScope(r)'
    <2>1. CASE r = IndexWorker
      BY <2>1, <1>3 DEF RunIsCurrent, RunInScope
    <2>2. CASE r # IndexWorker
      BY <2>2, <1>1, <1>3, <1>5, <1>6, RunStays
    <2> QED BY <2>1, <2>2
  <1> QED BY <1>3, <1>4, <1>8, <1>9 DEF IndexInv

LEMMA CallApiKeeps ==
  ASSUME IndexInv, NEW r \in ApiRuns, NEW scope \in SUBSET IndexDocs, CallApi(r, scope)
  PROVE  IndexInv'
  <1>1. /\ Start(r, scope, 0)
        /\ UNCHANGED <<generation, finalizing, messages, rows, abandoned, tangled>>
    BY DEF CallApi
  <1>2. r \in Runs
    BY DEF Runs
  <1>3. /\ runs' \in [Runs -> RunState]
        /\ runs'[r].stage = "collect" /\ runs'[r].scope = scope /\ runs'[r].chunks = {}
        /\ \A q \in Runs \ {r} :
              /\ runs'[q].stage = runs[q].stage /\ runs'[q].scope = runs[q].scope
              /\ runs'[q].chunks = runs[q].chunks /\ runs'[q].old = runs[q].old
              /\ runs'[q].mixed = runs[q].mixed \cup (scope \cap runs[q].scope)
        /\ OverlapNoted'
    BY <1>1, <1>2, StartRuns
  <1>4. IndexTypeOK'
    BY <1>1, <1>3 DEF IndexInv, IndexTypeOK
  <1>5. \A e : (Sent(e)' <=> Sent(e)) /\ Current(e)' = Current(e) /\ RowsOf({e})' = RowsOf({e})
    BY <1>1 DEF Sent, Current, RowsOf
  <1>6. runs[IndexWorker].scope \subseteq runs'[IndexWorker].scope
    <2>1. CASE r = IndexWorker
      BY <2>1, <1>1, IdleRunIsRun DEF Start
    <2>2. CASE r # IndexWorker
      BY <2>2, <1>3 DEF Runs
    <2> QED BY <2>1, <2>2
  <1>7. SettledIsCurrent'
    BY <1>1, <1>5, <1>6 DEF IndexInv, SettledIsCurrent, Unsettled
  <1>8. ASSUME NEW q \in Runs PROVE RunIsCurrent(q)' /\ RunInScope(q)'
    <2>1. CASE q = r
      BY <2>1, <1>3 DEF RunIsCurrent, RunInScope
    <2>2. CASE q # r
      BY <2>2, <1>1, <1>3, <1>5, RunStays, ZenonT(40)
    <2> QED BY <2>1, <2>2
  <1> QED BY <1>3, <1>4, <1>7, <1>8 DEF IndexInv

LEMMA CollectKeeps ==
  ASSUME IndexInv, NEW r \in Runs, Collect(r)
  PROVE  IndexInv'
  <1> DEFINE new == [runs[r] EXCEPT !.stage = "delete", !.chunks = Collected(runs[r].scope)]
  <1>1. /\ runs' = [runs EXCEPT ![r] = new]
        /\ UNCHANGED <<generation, finalizing, messages, rows, abandoned, tangled>>
    BY DEF Collect
  <1>2. runs[r] \in RunState /\ runs[r].scope \in SUBSET IndexDocs
    BY DEF IndexInv, IndexTypeOK, RunState
  <1>3. /\ Collected(runs[r].scope) \subseteq Chunk
        /\ \A c \in Collected(runs[r].scope) : c.doc \in runs[r].scope /\ c \in Current(c.doc)
    BY <1>2, CollectedChunks DEF IndexInv
  <1>4. /\ new \in RunState /\ new.stage = "delete" /\ new.chunks = Collected(runs[r].scope)
        /\ new.scope = runs[r].scope /\ new.mixed = runs[r].mixed
    BY <1>2, <1>3 DEF RunState
  <1> HIDE DEF new
  <1>5. runs'[r] = new /\ \A q \in Runs \ {r} : runs'[q] = runs[q]
    BY <1>1 DEF IndexInv, IndexTypeOK
  <1>6. \A q \in Runs : runs'[q].scope = runs[q].scope /\ runs'[q].mixed = runs[q].mixed
    BY <1>4, <1>5
  <1>7. \A e : (Sent(e)' <=> Sent(e)) /\ Current(e)' = Current(e) /\ RowsOf({e})' = RowsOf({e})
    BY <1>1 DEF Sent, Current, RowsOf
  <1>8. IndexTypeOK' /\ OverlapNoted'
    BY <1>1, <1>4, <1>6 DEF IndexInv, IndexTypeOK, OverlapNoted
  <1>9. SettledIsCurrent'
    BY <1>1, <1>6, <1>7 DEF IndexInv, SettledIsCurrent, Unsettled, Runs
  <1>10. ASSUME NEW q \in Runs PROVE RunIsCurrent(q)' /\ RunInScope(q)'
    <2>1. CASE q = r
      BY <2>1, <1>3, <1>4, <1>5, <1>7 DEF RunIsCurrent, RunInScope
    <2>2. CASE q # r
      BY <2>2, <1>1, <1>5, <1>7, RunStays
    <2> QED BY <2>1, <2>2
  <1> QED BY <1>8, <1>9, <1>10 DEF IndexInv

LEMMA DeleteKeeps ==
  ASSUME IndexInv, NEW r \in Runs, Delete(r)
  PROVE  IndexInv'
  <1> DEFINE new == [runs[r] EXCEPT !.stage = "insert", !.old = Deleted(r)]
  <1>1. /\ runs' = [runs EXCEPT ![r] = new] /\ runs[r].stage = "delete"
        /\ UNCHANGED <<generation, finalizing, messages, rows, abandoned, tangled>>
    BY DEF Delete
  <1>2. runs[r] \in RunState /\ runs[r].scope \in SUBSET IndexDocs
    BY DEF IndexInv, IndexTypeOK, RunState
  <1>3. Deleted(r) \subseteq Chunk /\ \A d \in runs[r].scope : RowsOf({d}) \subseteq Deleted(r)
    BY DEF IndexInv, IndexTypeOK, Deleted, RowsOf
  <1>4. /\ new \in RunState /\ new.stage = "insert" /\ new.chunks = runs[r].chunks
        /\ new.old = Deleted(r) /\ new.scope = runs[r].scope /\ new.mixed = runs[r].mixed
    BY <1>2, <1>3 DEF RunState
  <1> HIDE DEF new
  <1>5. runs'[r] = new /\ \A q \in Runs \ {r} : runs'[q] = runs[q]
    BY <1>1 DEF IndexInv, IndexTypeOK
  <1>6. \A q \in Runs : runs'[q].scope = runs[q].scope /\ runs'[q].mixed = runs[q].mixed
    BY <1>4, <1>5
  <1>7. \A e : (Sent(e)' <=> Sent(e)) /\ Current(e)' = Current(e) /\ RowsOf({e})' = RowsOf({e})
    BY <1>1 DEF Sent, Current, RowsOf
  <1>8. IndexTypeOK' /\ OverlapNoted'
    BY <1>1, <1>4, <1>6 DEF IndexInv, IndexTypeOK, OverlapNoted
  <1>9. SettledIsCurrent'
    BY <1>1, <1>6, <1>7 DEF IndexInv, SettledIsCurrent, Unsettled, Runs
  <1>10. ASSUME NEW q \in Runs PROVE RunIsCurrent(q)' /\ RunInScope(q)'
    <2>1. CASE q = r
      <3>1. RunIsCurrent(r) /\ RunInScope(r)
        BY DEF IndexInv
      <3>2. RunInScope(r)'
        BY <3>1, <1>4, <1>5 DEF RunInScope
      <3>3. ASSUME NEW d \in new.scope \ (new.mixed \cup finalizing), ~Sent(d)
            PROVE  /\ \A c \in new.chunks : c.doc = d => c \in Current(d)
                   /\ RowsOf({d}) \subseteq new.old
        BY <3>1, <3>3, <1>1, <1>3, <1>4 DEF RunIsCurrent
      <3>4. RunIsCurrent(r)'
        <4> SUFFICES ASSUME NEW d \in new.scope \ (new.mixed \cup finalizing), ~(Sent(d)')
                     PROVE  /\ \A c \in new.chunks : c.doc = d => c \in Current(d)'
                            /\ RowsOf({d})' \subseteq new.old
          BY <1>1, <1>5 DEF RunIsCurrent
        <4>1. ~Sent(d) /\ Current(d)' = Current(d) /\ RowsOf({d})' = RowsOf({d})
          BY <1>7
        <4> QED BY <3>3, <4>1
      <3> QED BY <2>1, <3>2, <3>4
    <2>2. CASE q # r
      BY <2>2, <1>1, <1>5, <1>7, RunStays
    <2> QED BY <2>1, <2>2
  <1> QED BY <1>8, <1>9, <1>10 DEF IndexInv

LEMMA RunEnds ==
  ASSUME IndexInv, NEW r \in Runs, runs' = [runs EXCEPT ![r] = IdleRun]
  PROVE  /\ runs' \in [Runs -> RunState] /\ runs'[r] = IdleRun
         /\ \A q \in Runs \ {r} : runs'[q] = runs[q]
         /\ OverlapNoted'
  <1>1. runs' \in [Runs -> RunState] /\ runs'[r] = IdleRun /\ \A q \in Runs \ {r} : runs'[q] = runs[q]
    BY IdleRunIsRun DEF IndexInv, IndexTypeOK
  <1>2. OverlapNoted'
    BY <1>1, IdleRunIsRun DEF IndexInv, OverlapNoted
  <1> QED BY <1>1, <1>2

LEMMA InsertKeeps ==
  ASSUME IndexInv, NEW r \in Runs, Insert(r)
  PROVE  IndexInv'
  <1> PICK embedded \in SUBSET runs[r].chunks : rows' = (rows \ runs[r].old) \cup embedded
    BY DEF Insert
  <1>1. /\ runs[r].stage = "insert" /\ runs' = [runs EXCEPT ![r] = IdleRun]
        /\ tangled' = (tangled \ runs[r].scope) \cup runs[r].mixed
        /\ abandoned' = abandoned \ runs[r].scope
        /\ UNCHANGED <<generation, finalizing, messages>>
    BY DEF Insert
  <1>2. runs[r] \in RunState
    BY DEF IndexInv, IndexTypeOK
  <1>3. /\ runs' \in [Runs -> RunState] /\ runs'[r] = IdleRun
        /\ \A q \in Runs \ {r} : runs'[q] = runs[q]
        /\ OverlapNoted'
    BY <1>1, RunEnds
  <1>4. IndexTypeOK'
    BY <1>1, <1>2, <1>3 DEF IndexInv, IndexTypeOK, RunState
  <1>5. \A e : (Sent(e)' <=> Sent(e)) /\ Current(e)' = Current(e)
    BY <1>1 DEF Sent, Current
  <1>6. \A e : e \notin runs[r].scope => RowsOf({e})' \subseteq RowsOf({e})
    BY DEF IndexInv, RowsOf, RunInScope
  <1>7. SettledIsCurrent'
    <2> SUFFICES ASSUME NEW d \in IndexDocs, ~Unsettled(d)' PROVE RowsOf({d})' \subseteq Current(d)
      BY <1>5 DEF SettledIsCurrent
    <2>1. d \notin finalizing /\ ~Sent(d) /\ d \notin runs[r].mixed
      BY <1>1, <1>5 DEF Unsettled
    <2>2. CASE d \in runs[r].scope
      <3>1. RunIsCurrent(r)
        BY DEF IndexInv
      <3>2. /\ \A c \in runs[r].chunks : c.doc = d => c \in Current(d)
            /\ RowsOf({d}) \subseteq runs[r].old
        BY <2>1, <2>2, <3>1, <1>1 DEF RunIsCurrent
      <3> QED BY <3>2 DEF RowsOf
    <2>3. CASE d \notin runs[r].scope
      <3>1. d \notin abandoned \cup tangled
        BY <2>3, <1>1 DEF Unsettled
      <3>2. d \notin runs[IndexWorker].scope
        BY <2>3, <1>3 DEF Unsettled, Runs
      <3> QED BY <2>1, <2>3, <3>1, <3>2, <1>6 DEF IndexInv, SettledIsCurrent, Unsettled
    <2> QED BY <2>2, <2>3
  <1>8. ASSUME NEW q \in Runs PROVE RunIsCurrent(q)' /\ RunInScope(q)'
    <2>1. CASE q = r
      BY <2>1, <1>3, IdleRunIsRun DEF RunIsCurrent, RunInScope
    <2>2. CASE q # r
      <3>1. runs'[q] = runs[q] /\ RunIsCurrent(q) /\ RunInScope(q)
        BY <2>2, <1>3 DEF IndexInv
      <3>2. \A d \in runs[q].scope \ runs[q].mixed : d \notin runs[r].scope
        BY <2>2 DEF IndexInv, OverlapNoted
      <3>3. \A d \in runs[q].scope \ runs[q].mixed : RowsOf({d})' \subseteq RowsOf({d})
        BY <3>2, <1>6
      <3> QED BY <3>1, <3>3, <1>1, <1>5 DEF RunIsCurrent, RunInScope
    <2> QED BY <2>1, <2>2
  <1> QED BY <1>3, <1>4, <1>7, <1>8 DEF IndexInv

LEMMA EmbeddingFailsKeeps ==
  ASSUME IndexInv, NEW r \in Runs, EmbeddingFails(r)
  PROVE  IndexInv'
  <1> DEFINE again == {[doc |-> d, retries |-> runs[r].retries + 1, of |-> generation[d]] : d \in runs[r].scope}
  <1>1. runs' = [runs EXCEPT ![r] = IdleRun] /\ UNCHANGED <<generation, finalizing, rows, tangled>>
    BY DEF EmbeddingFails
  <1>2. \/ r # IndexWorker /\ UNCHANGED <<messages, abandoned>>
        \/ messages' = messages \cup again /\ UNCHANGED abandoned
        \/ abandoned' = abandoned \cup runs[r].scope /\ UNCHANGED messages
    BY DEF EmbeddingFails
  <1>3. /\ runs' \in [Runs -> RunState] /\ runs'[r] = IdleRun
        /\ \A q \in Runs \ {r} : runs'[q] = runs[q]
        /\ OverlapNoted'
    BY <1>1, RunEnds
  <1>4. again \subseteq [doc : IndexDocs, retries : Nat, of : Nat]
    <2>1. runs[r].retries \in Nat /\ runs[r].scope \subseteq IndexDocs
      BY DEF IndexInv, IndexTypeOK, RunState
    <2> QED BY <2>1 DEF IndexInv, IndexTypeOK
  <1>5. IndexTypeOK'
    BY <1>1, <1>2, <1>3, <1>4 DEF IndexInv, IndexTypeOK
  <1>6. \A e : Sent(e) => Sent(e)'
    BY <1>2 DEF Sent
  <1>7. \A e : Current(e)' = Current(e) /\ RowsOf({e})' = RowsOf({e})
    BY <1>1 DEF Current, RowsOf
  <1>8. \A e : Unsettled(e) => Unsettled(e)'
    <2> SUFFICES ASSUME NEW e, Unsettled(e) PROVE Unsettled(e)'
      OBVIOUS
    <2>1. CASE r # IndexWorker \/ e \notin runs[r].scope
      BY <2>1, <1>1, <1>2, <1>3, <1>6 DEF Unsettled, Runs
    <2>2. CASE r = IndexWorker /\ e \in runs[r].scope
      <3>1. CASE messages' = messages \cup again
        <4> DEFINE m == [doc |-> e, retries |-> runs[r].retries + 1, of |-> generation[e]]
        <4>1. m \in again /\ m.doc = e
          BY <2>2
        <4> HIDE DEF m, again
        <4> QED BY <3>1, <4>1 DEF Unsettled, Sent
      <3>2. CASE abandoned' = abandoned \cup runs[r].scope
        BY <2>2, <3>2 DEF Unsettled
      <3> QED BY <2>2, <3>1, <3>2, <1>2
    <2> QED BY <2>1, <2>2
  <1>9. SettledIsCurrent'
    BY <1>7, <1>8 DEF IndexInv, SettledIsCurrent
  <1>10. ASSUME NEW q \in Runs PROVE RunIsCurrent(q)' /\ RunInScope(q)'
    <2>1. CASE q = r
      BY <2>1, <1>3, IdleRunIsRun DEF RunIsCurrent, RunInScope
    <2>2. CASE q # r
      BY <2>2, <1>1, <1>3, <1>6, <1>7, RunStays
    <2> QED BY <2>1, <2>2
  <1> QED BY <1>3, <1>5, <1>9, <1>10 DEF IndexInv

LEMMA WorkerDiesKeeps ==
  ASSUME IndexInv, WorkerDies
  PROVE  IndexInv'
  <1>1. /\ runs' = [runs EXCEPT ![IndexWorker] = IdleRun]
        /\ abandoned' = abandoned \cup runs[IndexWorker].scope
        /\ UNCHANGED <<generation, finalizing, messages, rows, tangled>>
    BY DEF WorkerDies
  <1>2. IndexWorker \in Runs
    BY DEF Runs
  <1>3. /\ runs' \in [Runs -> RunState] /\ runs'[IndexWorker] = IdleRun
        /\ \A q \in Runs \ {IndexWorker} : runs'[q] = runs[q]
        /\ OverlapNoted'
    BY <1>1, <1>2, RunEnds
  <1>4. IndexTypeOK'
    BY <1>1, <1>3 DEF IndexInv, IndexTypeOK
  <1>5. \A e : (Sent(e)' <=> Sent(e)) /\ Current(e)' = Current(e) /\ RowsOf({e})' = RowsOf({e})
    BY <1>1 DEF Sent, Current, RowsOf
  <1>6. SettledIsCurrent'
    BY <1>1, <1>5 DEF IndexInv, SettledIsCurrent, Unsettled
  <1>7. ASSUME NEW q \in Runs PROVE RunIsCurrent(q)' /\ RunInScope(q)'
    <2>1. CASE q = IndexWorker
      BY <2>1, <1>3, IdleRunIsRun DEF RunIsCurrent, RunInScope
    <2>2. CASE q # IndexWorker
      BY <2>2, <1>1, <1>3, <1>5, RunStays
    <2> QED BY <2>1, <2>2
  <1> QED BY <1>3, <1>4, <1>6, <1>7 DEF IndexInv

\* A document that is neither processed nor refreshed any more has only chunks of
\* its present text, whatever run collected before and inserted after the text
\* changed, unless its refresh was given up or ran beside another.
THEOREM SettledDocumentsHaveNoResidue == IndexSpec => []NoResidueOfReprocessing
  <1>1. IndexInit => IndexInv
    <2> SUFFICES ASSUME IndexInit PROVE IndexInv
      OBVIOUS
    <2>1. \A r \in Runs : runs[r] = IdleRun
      BY DEF IndexInit
    <2>2. IndexTypeOK
      BY IdleRunIsRun DEF IndexInit, IndexTypeOK
    <2>3. SettledIsCurrent
      BY DEF IndexInit, SettledIsCurrent, RowsOf
    <2>4. OverlapNoted /\ \A r \in Runs : RunIsCurrent(r) /\ RunInScope(r)
      BY <2>1, IdleRunIsRun DEF OverlapNoted, RunIsCurrent, RunInScope
    <2> QED BY <2>2, <2>3, <2>4 DEF IndexInv
  <1>2. IndexInv /\ [IndexNext]_indexVars => IndexInv'
    <2> SUFFICES ASSUME IndexInv, [IndexNext]_indexVars PROVE IndexInv'
      OBVIOUS
    <2>1. CASE UNCHANGED indexVars
      BY <2>1 DEF indexVars, IndexInv, IndexTypeOK, SettledIsCurrent, Unsettled, OverlapNoted,
                  RunIsCurrent, RunInScope, Sent, RowsOf, Current
    <2>2. CASE IndexNext
      BY <2>2, ProcessKeeps, FinalizedKeeps, ReceiveKeeps, CallApiKeeps, CollectKeeps, DeleteKeeps,
         InsertKeeps, EmbeddingFailsKeeps, WorkerDiesKeeps DEF IndexNext
    <2> QED BY <2>1, <2>2
  <1>3. IndexInv => NoResidueOfReprocessing
    BY DEF IndexInv, SettledIsCurrent, Unsettled, Sent, NoResidueOfReprocessing, Runs
  <1> QED BY <1>1, <1>2, <1>3, PTL DEF IndexSpec

-----------------------------------------------------------------------------
(* StatementExtraction: the score of an extraction.                            *)

\* Without accounts read by a model the score stops at 69, whatever else is known.
LEMMA ConfidentIsRead ==
  ASSUME NEW ts, NEW fs, NEW with \in BOOLEAN, NEW known \in SUBSET {"period", "type", "structured"},
         Confidence(ts, fs, with, known) >= 70
  PROVE  with /\ fs # <<>>
  <1> DEFINE named == Cardinality(known \cap {"period", "type"})
             shaped == Cardinality(known \cap {"structured"})
             sum == 45 + (IF ts # <<>> THEN 20 ELSE 0) + (IF Checks(ts) # {"unknown"} THEN 10 ELSE 0)
                      + 10 * named + 5 * shaped
  <1>1. IsFiniteSet({"period"}) /\ IsFiniteSet({"structured"}) /\ IsFiniteSet({"period"} \cup {"type"})
    BY FS_Singleton, FS_AddElement
  <1>2. IsFiniteSet({"period", "type"})
    <2>1. {"period", "type"} = {"period"} \cup {"type"}
      OBVIOUS
    <2> QED BY <1>1, <2>1
  <1>3. IsFiniteSet(known \cap {"period", "type"}) /\ IsFiniteSet(known \cap {"structured"})
    <2>1. known \cap {"period", "type"} \in SUBSET {"period", "type"}
          /\ known \cap {"structured"} \in SUBSET {"structured"}
      OBVIOUS
    <2> QED BY <1>1, <1>2, <2>1, FS_Subset
  <1>4. named \in Nat /\ shaped \in Nat
    BY <1>3, FS_CardinalityType
  <1>5. Confidence(ts, fs, with, known) = IF ~with \/ fs = <<>> THEN IF sum < 69 THEN sum ELSE 69
                                          ELSE IF sum < 97 THEN sum ELSE 97
    BY DEF Confidence
  <1>6. sum \in Int
    <2> HIDE DEF named, shaped
    <2> QED BY <1>4
  <1> HIDE DEF sum
  <1> QED BY <1>5, <1>6

\* The end of an extraction and the type of what it scores.
StmtInv ==
  /\ provider \in BOOLEAN
  /\ outcome # "pending" => stage = "done"
  /\ AcceptedStatementIsRead

\* No path through tools, agent, corrections and scoring accepts a statement without
\* a model or accounts, or one that fails a check (accounting_statement.py:283,
\* registry.py:118).
THEOREM AcceptedStatementsAreRead == StmtSpec => []AcceptedStatementIsRead
  <1>1. StmtInit => StmtInv
    BY DEF StmtInit, StmtInv, AcceptedStatementIsRead
  <1>2. StmtInv /\ [StmtNext]_stmtVars => StmtInv'
    <2> SUFFICES ASSUME StmtInv, [StmtNext]_stmtVars PROVE StmtInv'
      OBVIOUS
    <2>1. CASE UNCHANGED stmtVars
      BY <2>1 DEF stmtVars, StmtInv, AcceptedStatementIsRead
    <2>2. CASE Conclude
      <3>1. PICK known \in SUBSET {"period", "type", "structured"} :
              outcome' = IF /\ tables # <<>> /\ "fail" \notin Checks(tables)
                            /\ Confidence(tables, accounts, provider, known) >= 70
                         THEN "auto_accepted" ELSE "needs_review"
        BY <2>2 DEF Conclude
      <3>2. stage' = "done" /\ UNCHANGED <<tables, accounts, provider>>
        BY <2>2 DEF Conclude
      <3>3. outcome' = "auto_accepted" => provider /\ accounts # <<>> /\ "fail" \notin Checks(tables)
        BY <3>1, ConfidentIsRead DEF StmtInv
      <3>4. Checks(tables)' = Checks(tables)
        BY <3>2 DEF Checks, Headers, Amount
      <3> QED BY <3>2, <3>3, <3>4 DEF StmtInv, AcceptedStatementIsRead
    <2>3. CASE Parse
      BY <2>3 DEF Parse, StmtInv, AcceptedStatementIsRead
    <2>4. CASE AgentEnds \/ Correct
      BY <2>4 DEF AgentEnds, Correct, StmtInv, AcceptedStatementIsRead
    <2>5. CASE ToolExtract \/ ToolLlmExtract \/ ToolLabel \/ ToolRead
      <3>1. AgentTurn /\ Stay
        BY <2>5 DEF ToolExtract, ToolLlmExtract, ToolLabel, ToolRead
      <3> QED BY <3>1 DEF AgentTurn, Stay, StmtInv, AcceptedStatementIsRead
    <2> QED BY <2>1, <2>2, <2>3, <2>4, <2>5 DEF StmtNext
  <1>3. StmtInv => AcceptedStatementIsRead
    BY DEF StmtInv
  <1> QED BY <1>1, <1>2, <1>3, PTL DEF StmtSpec

-----------------------------------------------------------------------------
(* Segmentation: from decisions on pairs of pages to units, and their review.   *)

\* A decision on two adjacent pages.
CutDecision == [cut : BOOLEAN, confidence : Confidences]
SplitShape ==
  /\ split \in [ocr : {split.ocr}, at : {split.at}, attempt : {split.attempt}, reviews : {split.reviews},
                results : {split.results}, draft : {split.draft}, decisions : {split.decisions},
                units : {split.units}, regulation : {split.regulation}, status : {split.status}]
  /\ Pages \in Nat \ {0}
  /\ split.decisions \in Seq(CutDecision)

\* Before the segments are made there are no units, and at most one decision a pair of pages.
NoUnitsYet ==
  /\ split.at \in {"new", "single", "draft", "review", "merge"} => split.decisions = << >>
  /\ split.at \in {"new", "single", "draft", "review", "merge", "adjudicate"} => split.units = << >>
  /\ split.at = "adjudicate" => Len(split.decisions) \in 0 .. Pages - 1
  /\ split.at = "single" => Pages = 1
  /\ split.at \notin {"finish", "end"} => ~split.regulation

\* An unsure decision or type has marked a unit for review.
UncertainDecisionsAreReviewed(s) ==
  \A p \in DOMAIN s.decisions :
    s.decisions[p].confidence < Threshold => \E i \in DOMAIN s.units : s.units[i].review
UnitShape(u) == u \in [first : 1 .. Pages, last : 1 .. Pages, confidence : {u.confidence},
                       review : {u.review}, type : Confidences \cup {0}]
UncertainTypesAreReviewed(s) ==
  \A i \in DOMAIN s.units : s.units[i].type # 0 => s.units[i].type >= Threshold \/ s.units[i].review
UnitsAreReviewed ==
  split.at \in {"route", "classify", "finish"} =>
    /\ DOMAIN split.units \subseteq Nat
    /\ split.units \in [DOMAIN split.units -> {split.units[i] : i \in DOMAIN split.units}]
    /\ \A i \in DOMAIN split.units : UnitShape(split.units[i])
    /\ UncertainDecisionsAreReviewed(split) /\ UncertainTypesAreReviewed(split)
    /\ split.at = "finish" => \A i \in DOMAIN split.units : split.units[i].type # 0

\* The inductive invariant.
SegInv ==
  /\ SplitShape /\ NoUnitsYet /\ UnitsAreReviewed /\ UnitsFollowDecisions /\ UncertainScansAreReviewed
  /\ split.at # "end" => split.status # "classified"

----

\* The fields of the scan after a step that changes some of them.
LEMMA ResultHasPages ==
  ASSUME NEW ocr \in PagedResults \cup TextResults
  PROVE  ocr.count \in Nat \ {0}
  <1>1. CASE ocr \in TextResults
    BY <1>1, SegmentationAssumption DEF TextResults
  <1>2. CASE ocr \in PagedResults
    <2> PICK n \in 1 .. MaxPages : \E z \in [1 .. n -> 0 .. MaxLines] : ocr = Joined(z)
      BY <1>2 DEF PagedResults
    <2> PICK z \in [1 .. n -> 0 .. MaxLines] : ocr = Joined(z)
      OBVIOUS
    <2>1. ocr.count = Len(z)
      BY DEF Joined
    <2>2. n \in Nat \ {0} /\ DOMAIN z = 1 .. n
      BY SegmentationAssumption
    <2> DEFINE L == 0 .. MaxLines
    <2>3. z \in Seq(L)
      <3> HIDE DEF L
      <3> QED BY <2>2, SeqDef DEF L
    <2>4. Len(z) = n
      BY <2>2, <2>3
    <2> QED BY <2>1, <2>2, <2>4
  <1> QED BY <1>1, <1>2

LEMMA ConfidencesAreNumbers ==
  Confidences \in SUBSET Nat /\ 0 \notin Confidences /\ (\A x \in Confidences : x <= 100) /\ Threshold \in Nat
  <1>1. Confidences \subseteq 1 .. 100 /\ Threshold \in Nat
    BY SegmentationAssumption
  <1>2. ASSUME NEW x \in Confidences PROVE x \in Nat /\ x # 0 /\ x <= 100
    <2>1. x \in 1 .. 100
      BY <1>1
    <2> QED BY <2>1
  <1> QED BY <1>1, <1>2

LEMMA InitSeg ==
  ASSUME SegInit
  PROVE  SegInv
  <1>1. /\ split.decisions = << >> /\ split.units = << >> /\ split.at = "new" /\ split.status = "new"
        /\ ~split.regulation
        /\ Pages = Len(<<1>>)
    BY DEF SegInit, Joined, Pages
  <1>2. split \in [ocr : {split.ocr}, at : {split.at}, attempt : {split.attempt}, reviews : {split.reviews},
                results : {split.results}, draft : {split.draft}, decisions : {split.decisions},
                units : {split.units}, regulation : {split.regulation}, status : {split.status}]
    BY DEF SegInit
  <1>3. Pages \in Nat \ {0}
    BY <1>1
  <1> QED BY <1>1, <1>2, <1>3 DEF SegInv, SplitShape, NoUnitsYet, UnitsAreReviewed, UnitsFollowDecisions,
                       UncertainScansAreReviewed

LEMMA StartKeeps ==
  ASSUME SegInv, StartScan
  PROVE  SegInv'
  <1> PICK ocr \in PagedResults \cup TextResults :
         split' = [split EXCEPT !.ocr = ocr, !.status = "processing",
                                !.at = IF ocr.count > 1 THEN "draft" ELSE "single"]
    BY DEF StartScan
  <1>1. split.at = "new"
    BY DEF StartScan
  <1>2. ocr.count \in Nat \ {0}
    BY ResultHasPages
  <1>3. /\ split'.ocr = ocr /\ split'.status = "processing"
        /\ split'.at = IF ocr.count > 1 THEN "draft" ELSE "single"
        /\ split'.decisions = split.decisions /\ split'.units = split.units /\ split'.regulation = split.regulation
        /\ SplitShape'
    BY <1>2 DEF SegInv, SplitShape, Pages
  <1>4. NoUnitsYet'
    BY <1>1, <1>2, <1>3 DEF SegInv, NoUnitsYet, Pages
  <1>5. split'.units = << >>
    BY <1>1, <1>3 DEF SegInv, NoUnitsYet
  <1> QED BY <1>3, <1>4, <1>5 DEF SegInv, UnitsAreReviewed, UnitsFollowDecisions, UncertainScansAreReviewed

\* The steps before the decisions change neither the result nor decisions nor units.
LEMMA DraftingKeeps ==
  ASSUME SegInv, SplitShape',
         split.at \in {"draft", "review", "merge", "adjudicate", "route", "classify"},
         split'.ocr = split.ocr, split'.decisions = split.decisions, split'.units = split.units, split'.regulation = split.regulation,
         \/ split'.at = "end" /\ split'.status = "failed"
         \/ /\ split.at \in {"draft", "review", "merge"} /\ split'.at \in {"draft", "review", "merge", "adjudicate"}
            /\ split'.status = split.status
  PROVE  SegInv'
  <1>1. Pages' = Pages /\ Pages \in Nat \ {0}
    BY DEF SegInv, SplitShape, Pages
  <1>2. UnitsFollowDecisions'
    BY <1>1 DEF SegInv, UnitsFollowDecisions
  <1>3. CASE split'.at = "end" /\ split'.status = "failed"
    BY <1>2, <1>3 DEF SegInv, NoUnitsYet, UnitsAreReviewed, UncertainScansAreReviewed
  <1>4. CASE /\ split.at \in {"draft", "review", "merge"} /\ split'.at \in {"draft", "review", "merge", "adjudicate"}
             /\ split'.status = split.status
    <2>1. split'.decisions = << >> /\ split'.units = << >>
      BY <1>4 DEF SegInv, NoUnitsYet
    <2>2. Len(split'.decisions) \in 0 .. Pages' - 1
      BY <2>1, <1>1
    <2>3. split.status # "classified"
      BY <1>4 DEF SegInv
    <2> QED BY <1>2, <1>4, <2>1, <2>2, <2>3 DEF SegInv, NoUnitsYet, UnitsAreReviewed, UncertainScansAreReviewed
  <1> QED BY <1>3, <1>4

LEMMA DraftStepsKeep ==
  ASSUME SegInv, DraftWindow \/ ReviewWindow \/ MergeWindows \/ ModelError
  PROVE  SegInv'
  <1>1. ASSUME Fail, split.at \in {"draft", "review", "merge", "adjudicate", "route", "classify"} PROVE SegInv'
    <2>1. /\ split'.at = "end" /\ split'.status = "failed" /\ SplitShape'
          /\ split'.ocr = split.ocr /\ split'.decisions = split.decisions /\ split'.units = split.units /\ split'.regulation = split.regulation
      BY <1>1 DEF Fail, SegInv, SplitShape, Pages
    <2> QED BY <1>1, <2>1, DraftingKeeps
  <1>2. ASSUME NEW k, NextAttempt(k), split.at \in {"draft", "review"} PROVE SegInv'
    <2>1. /\ \/ split'.at = "end" /\ split'.status = "failed"
             \/ split'.at = "draft" /\ split'.status = split.status
          /\ split'.ocr = split.ocr /\ split'.decisions = split.decisions /\ split'.units = split.units /\ split'.regulation = split.regulation
      BY <1>2 DEF NextAttempt, SegInv, SplitShape
    <2>2. SplitShape'
      BY <1>2 DEF NextAttempt, SegInv, SplitShape, Pages
    <2> QED BY <1>2, <2>1, <2>2, DraftingKeeps
  <1>3. CASE DraftWindow
    <2>1. CASE split' = [split EXCEPT !.at = "review", !.reviews = 0]
      <3>1. /\ split.at = "draft" /\ split'.at = "review" /\ split'.status = split.status /\ SplitShape'
            /\ split'.ocr = split.ocr /\ split'.decisions = split.decisions /\ split'.units = split.units /\ split'.regulation = split.regulation
        BY <1>3, <2>1 DEF DraftWindow, SegInv, SplitShape, Pages
      <3> QED BY <3>1, DraftingKeeps
    <2> QED BY <1>2, <1>3, <2>1 DEF DraftWindow
  <1>4. CASE ReviewWindow
    <2>1. ASSUME NEW a, split.at = "review",
                 split' = [split EXCEPT !.results = Append(split.results, a), !.attempt = 0,
                         !.at = IF Len(Append(split.results, a)) = Len(Windows(Pages)) THEN "merge" ELSE "draft"]
          PROVE  SegInv'
      <3>1. /\ split'.at \in {"merge", "draft"} /\ split'.status = split.status
            /\ split'.ocr = split.ocr /\ split'.decisions = split.decisions /\ split'.units = split.units /\ split'.regulation = split.regulation
        BY <2>1 DEF SegInv, SplitShape
      <3>2. SplitShape'
        BY <2>1 DEF SegInv, SplitShape, Pages
      <3> QED BY <2>1, <3>1, <3>2, DraftingKeeps
    <2>2. CASE split.at = "review" /\ split' = [split EXCEPT !.reviews = @ + 1]
      <3>1. /\ split'.at = "review" /\ split'.status = split.status /\ SplitShape'
            /\ split'.ocr = split.ocr /\ split'.decisions = split.decisions /\ split'.units = split.units /\ split'.regulation = split.regulation
        BY <2>2 DEF SegInv, SplitShape, Pages
      <3> QED BY <2>2, <3>1, DraftingKeeps
    <2> QED BY <1>2, <1>4, <2>1, <2>2 DEF ReviewWindow
  <1>5. CASE MergeWindows
    <2>1. ASSUME NEW d, split.at = "merge",
                 split' = [split EXCEPT !.at = "adjudicate", !.results = << >>, !.draft = d]
          PROVE  SegInv'
      <3>1. /\ split'.at = "adjudicate" /\ split'.status = split.status /\ SplitShape'
            /\ split'.ocr = split.ocr /\ split'.decisions = split.decisions /\ split'.units = split.units /\ split'.regulation = split.regulation
        BY <2>1 DEF SegInv, SplitShape, Pages
      <3> QED BY <2>1, <3>1, DraftingKeeps
    <2> QED BY <1>1, <1>5, <2>1 DEF MergeWindows
  <1>6. CASE ModelError
    BY <1>1, <1>6 DEF ModelError
  <1> QED BY <1>3, <1>4, <1>5, <1>6

LEMMA AdjudicateKeeps ==
  ASSUME SegInv, Adjudicate
  PROVE  SegInv'
  <1> PICK cut \in BOOLEAN, c \in Confidences :
         split' = [split EXCEPT !.decisions = Append(@, [cut |-> cut, confidence |-> c])]
    BY DEF Adjudicate
  <1> DEFINE d == [cut |-> cut, confidence |-> c]
  <1>1. d \in CutDecision
    BY DEF CutDecision
  <1> HIDE DEF d
  <1>2. /\ split'.decisions = Append(split.decisions, d) /\ split'.ocr = split.ocr /\ split'.units = split.units /\ split'.regulation = split.regulation
        /\ split'.at = split.at /\ split'.status = split.status
        /\ split' \in [ocr : {split'.ocr}, at : {split'.at}, attempt : {split'.attempt}, reviews : {split'.reviews},
                results : {split'.results}, draft : {split'.draft}, decisions : {split'.decisions},
                units : {split'.units}, regulation : {split'.regulation}, status : {split'.status}]
    BY DEF SegInv, SplitShape, d
  <1>3. split.at = "adjudicate" /\ Len(split.decisions) < Pages - 1 /\ split.units = << >>
    BY DEF Adjudicate, SegInv, NoUnitsYet
  <1>4. split'.decisions \in Seq(CutDecision) /\ Len(split'.decisions) = Len(split.decisions) + 1
    BY <1>1, <1>2 DEF SegInv, SplitShape
  <1>5. Pages' = Pages /\ Pages \in Nat \ {0}
    BY <1>2 DEF SegInv, SplitShape, Pages
  <1>6. SplitShape'
    BY <1>2, <1>4, <1>5 DEF SplitShape
  <1>7. Len(split'.decisions) \in 0 .. Pages' - 1
    BY <1>3, <1>4, <1>5 DEF SegInv, SplitShape
  <1> QED BY <1>2, <1>3, <1>6, <1>7
          DEF SegInv, NoUnitsYet, UnitsAreReviewed, UnitsFollowDecisions, UncertainScansAreReviewed

\* The spans between the cuts: adjacent pages share a run exactly when no cut is between them.
LEMMA RunsAreCut ==
  ASSUME NEW n \in Nat \ {0}, NEW cuts \in SUBSET (1 .. n - 1), NEW r \in PageRuns(n, cuts)
  PROVE  /\ r.first \in 1 .. n /\ r.last \in r.first .. n
         /\ \A p \in cuts : p >= r.first => p >= r.last
         /\ r.last \in cuts \cup {n}
         /\ r \in [first : {r.first}, last : {r.last}]
         /\ r.first \in {1} \cup {p + 1 : p \in cuts}
         /\ \A q \in PageRuns(n, cuts) : q.first = r.first => q = r
  <1> DEFINE ends(f) == {p \in cuts \cup {n} : p >= f}
             run(f) == [first |-> f, last |-> Min(ends(f))]
             F == {1} \cup {p + 1 : p \in cuts}
  <1>1. PageRuns(n, cuts) = {run(f) : f \in F}
    BY DEF PageRuns
  <1> PICK f \in F : r = run(f)
    BY <1>1
  <1>2. f \in 1 .. n
    OBVIOUS
  <1>a. \A p \in cuts \cup {n} : p \in Nat /\ p <= n
    <2> SUFFICES ASSUME NEW p \in cuts PROVE p \in Nat /\ p <= n
      OBVIOUS
    <2>1. p \in 1 .. n - 1
      OBVIOUS
    <2> QED BY <2>1
  <1>3. n \in ends(f) /\ ends(f) \in SUBSET Nat
    <2>1. n >= f
      BY <1>2
    <2> QED BY <1>a, <2>1
  <1>4. Min(ends(f)) \in ends(f) /\ \A p \in ends(f) : Min(ends(f)) <= p
    <2> HIDE DEF ends
    <2> QED BY <1>3, MinIsLeast
  <1>5. r.first = f /\ r.last = Min(ends(f)) /\ r \in [first : {r.first}, last : {r.last}]
    <2> HIDE DEF ends
    <2> QED OBVIOUS
  <1>6. \A q \in PageRuns(n, cuts) : q.first = f => q = r
    <2> HIDE DEF ends, F
    <2> QED BY <1>1
  <1>7. \A p \in cuts : p >= f => p \in ends(f)
    OBVIOUS
  <1>8. r.last \in cuts \cup {n} /\ r.last >= f
    BY <1>4, <1>5
  <1>9. r.last \in r.first .. n
    <2>1. r.last \in Nat /\ r.last <= n
      BY <1>8, <1>a
    <2> QED BY <1>2, <1>5, <1>8, <2>1
  <1> HIDE DEF ends, run
  <1>10. \A p \in cuts : p >= f => p >= r.last
    <2> SUFFICES ASSUME NEW p \in cuts, p >= f PROVE p >= r.last
      OBVIOUS
    <2>1. r.last <= p
      BY <1>4, <1>5, <1>7
    <2> QED BY <2>1, <1>8
  <1> QED BY <1>2, <1>5, <1>6, <1>8, <1>9, <1>10

LEMMA SegmentsAreRuns ==
  ASSUME NEW n \in Nat \ {0}, NEW draft, NEW decisions \in Seq(CutDecision), Len(decisions) = n - 1
  PROVE  LET segments == Segments(n, draft, decisions)
             cuts == {p \in 1 .. n - 1 : decisions[p].cut}
         IN  /\ \A s \in segments : \E r \in PageRuns(n, cuts) : s.first = r.first /\ s.last = r.last
             /\ \A s \in segments : \A t \in segments : s.first = t.first => s = t
             /\ IsFiniteSet(segments)
             /\ \A s \in segments : \A p \in s.first .. s.last :
                  p \in DOMAIN decisions => s.confidence \in Nat /\ s.confidence <= decisions[p].confidence
  <1> DEFINE cuts == {p \in 1 .. n - 1 : decisions[p].cut}
             spans == PageRuns(n, cuts)
             sure(r) == {decisions[p].confidence : p \in r.first .. Min({r.last, n - 1})}
             conf(r) == IF sure(r) = {} THEN draft.overall ELSE Min(sure(r))
             seg(r) == [first |-> r.first, last |-> r.last, confidence |-> conf(r)]
             segments == Segments(n, draft, decisions)
  <1>1. segments = {seg(r) : r \in spans}
    BY DEF Segments, DecidedCuts
  <1>2. cuts \in SUBSET (1 .. n - 1)
    OBVIOUS
  <1>3. ASSUME NEW r \in spans PROVE /\ r.first \in 1 .. n /\ r.last \in r.first .. n
                                    /\ r.first \in {1} \cup {p + 1 : p \in cuts}
                                    /\ \A q \in spans : q.first = r.first => q = r
    <2> HIDE DEF cuts
    <2> QED BY <1>2, RunsAreCut
  <1>4. \A s \in segments : \E r \in spans : s.first = r.first /\ s.last = r.last
    <2> HIDE DEF conf, spans, segments
    <2> QED BY <1>1
  <1>5. \A s \in segments : \A t \in segments : s.first = t.first => s = t
    <2> HIDE DEF conf, spans, segments
    <2> QED BY <1>1, <1>3
  <1>6. IsFiniteSet(segments)
    <2> DEFINE F == {s.first : s \in segments}
               f == [s \in segments |-> s.first]
    <2>1. F \subseteq 1 .. n
      <3> HIDE DEF cuts, segments, spans
      <3> QED BY <1>3, <1>4
    <2>2. IsFiniteSet(F)
      <3> HIDE DEF F
      <3>1. IsFiniteSet(1 .. n)
        BY FS_Interval
      <3> QED BY <2>1, <3>1, FS_Subset
    <2>3. f \in Injection(segments, F)
      <3> HIDE DEF cuts, segments, spans
      <3> QED BY <1>5 DEF Injection, IsInjective
    <2> HIDE DEF F, f, segments
    <2> QED BY <2>2, <2>3, FS_Injection
  <1>7. ASSUME NEW r \in spans, NEW p \in r.first .. r.last, p \in DOMAIN decisions
        PROVE  seg(r).confidence \in Nat /\ seg(r).confidence <= decisions[p].confidence
    <2>1. r.first \in 1 .. n /\ r.last \in r.first .. n
      BY <1>3
    <2>2. p \in 1 .. n - 1
      BY <1>7
    <2> DEFINE last == Min({r.last, n - 1})
    <2>3. last \in {r.last, n - 1} /\ \A x \in {r.last, n - 1} : last <= x
      <3>1. {r.last, n - 1} \in SUBSET Nat /\ {r.last, n - 1} # {}
        BY <2>1
      <3> QED BY <3>1, MinIsLeast
    <2>4. p \in r.first .. last
      <3> HIDE DEF last
      <3> QED BY <2>1, <2>2, <2>3
    <2>5. decisions[p].confidence \in sure(r)
      <3> HIDE DEF last
      <3> QED BY <2>4 DEF last
    <2>6. sure(r) \in SUBSET Nat
      <3> SUFFICES ASSUME NEW q \in r.first .. last PROVE decisions[q].confidence \in Nat
        OBVIOUS
      <3> HIDE DEF last
      <3>1. q \in 1 .. n - 1
        BY <2>1, <2>2, <2>3
      <3>2. decisions[q] \in CutDecision
        BY <3>1
      <3> QED BY <3>2, ConfidencesAreNumbers DEF CutDecision
    <2>7. conf(r) = Min(sure(r)) /\ Min(sure(r)) \in Nat /\ Min(sure(r)) <= decisions[p].confidence
      <3> HIDE DEF sure
      <3> QED BY <2>5, <2>6, MinIsLeast
    <2> HIDE DEF conf
    <2> QED BY <2>7
  <1>8. \A s \in segments : \A p \in s.first .. s.last :
           p \in DOMAIN decisions => s.confidence \in Nat /\ s.confidence <= decisions[p].confidence
    <2> SUFFICES ASSUME NEW s \in segments, NEW p \in s.first .. s.last, p \in DOMAIN decisions
                 PROVE  s.confidence \in Nat /\ s.confidence <= decisions[p].confidence
      OBVIOUS
    <2> PICK r \in spans : s = seg(r)
      <3> HIDE DEF conf, spans, segments
      <3> QED BY <1>1
    <2>1. p \in r.first .. r.last
      <3> HIDE DEF conf
      <3> QED OBVIOUS
    <2> HIDE DEF seg, spans
    <2> QED BY <1>7, <2>1
  <1> HIDE DEF segments
  <1> QED BY <1>4, <1>5, <1>6, <1>8 DEF segments

LEMMA NewUnitsOfSegments ==
  ASSUME NEW segments, \A s \in segments : \A t \in segments : s.first = t.first => s = t
  PROVE  LET units == NewUnits(segments)
         IN  /\ DOMAIN units = {s.first : s \in segments}
             /\ units \in [DOMAIN units -> {units[i] : i \in DOMAIN units}]
             /\ \A s \in segments : units[s.first] = [first |-> s.first, last |-> s.last,
                  confidence |-> s.confidence, review |-> s.confidence < Threshold, type |-> 0]
  <1> DEFINE unit(s) == [first |-> s.first, last |-> s.last, confidence |-> s.confidence,
                         review |-> s.confidence < Threshold, type |-> 0]
             F == {s.first : s \in segments}
             at(f) == CHOOSE s \in segments : s.first = f
             units == NewUnits(segments)
  <1>1. units = [f \in F |-> unit(at(f))]
    BY DEF NewUnits
  <1>2. \A s \in segments : at(s.first) = s
    OBVIOUS
  <1>3. ASSUME NEW s \in segments PROVE units[s.first] = unit(s)
    <2> HIDE DEF unit, units, at
    <2>1. s.first \in F
      OBVIOUS
    <2> QED BY <1>1, <1>2, <2>1
  <1> HIDE DEF unit, units, at
  <1>4. DOMAIN units = F /\ units \in [DOMAIN units -> {units[i] : i \in DOMAIN units}]
    BY <1>1
  <1> QED BY <1>3, <1>4 DEF unit, units

LEMMA OneUnitAPage ==
  ASSUME NEW n \in Nat \ {0}, NEW segments, IsFiniteSet(segments), Covers(segments, n),
         \A s \in segments : \A t \in segments : s.first = t.first => s = t,
         NEW p \in 1 .. n
  PROVE  LET units == NewUnits(segments)
         IN  \E s \in segments :
               /\ p \in s.first .. s.last
               /\ {i \in DOMAIN units : p \in units[i].first .. units[i].last} = {s.first}
               /\ \A t \in segments : p \in t.first .. t.last => t = s
  <1> DEFINE units == NewUnits(segments)
             holding == {s \in segments : p \in s.first .. s.last}
             unitOf == {i \in DOMAIN units : p \in units[i].first .. units[i].last}
  <1>1. Cardinality(holding) = 1
    BY DEF Covers
  <1>2. IsFiniteSet(holding)
    BY FS_Subset
  <1>3. PICK s : holding = {s}
    <2> HIDE DEF holding
    <2> QED BY <1>1, <1>2, FS_Singleton
  <1>4. /\ s \in segments /\ p \in s.first .. s.last
        /\ \A t \in segments : p \in t.first .. t.last => t = s
    BY <1>3
  <1> DEFINE low(t) == t.confidence < Threshold
  <1>a. /\ DOMAIN units = {t.first : t \in segments}
        /\ \A t \in segments : units[t.first] = [first |-> t.first, last |-> t.last,
             confidence |-> t.confidence, review |-> low(t), type |-> 0]
    BY NewUnitsOfSegments
  <1>5. /\ DOMAIN units = {t.first : t \in segments}
        /\ \A t \in segments : units[t.first].first = t.first /\ units[t.first].last = t.last
    <2> HIDE DEF units, low
    <2>1. ASSUME NEW t \in segments
          PROVE  units[t.first].first = t.first /\ units[t.first].last = t.last
      <3> DEFINE u == units[t.first]
      <3>1. u = [first |-> t.first, last |-> t.last, confidence |-> t.confidence, review |-> low(t), type |-> 0]
        BY <1>a
      <3> HIDE DEF u
      <3>2. u.first = t.first /\ u.last = t.last
        BY <3>1
      <3> QED BY <3>2 DEF u
    <2> QED BY <1>a, <2>1
  <1>6. unitOf = {s.first}
    <2>1. s.first \in unitOf
      <3> HIDE DEF units
      <3> QED BY <1>4, <1>5
    <2>2. ASSUME NEW i \in unitOf PROVE i = s.first
      <3> HIDE DEF units
      <3> PICK t \in segments : i = t.first
        BY <1>5
      <3>1. p \in t.first .. t.last
        BY <1>5
      <3>2. t \in holding
        BY <3>1
      <3> QED BY <3>2, <1>3
    <2> HIDE DEF unitOf
    <2> QED BY <2>1, <2>2
  <1> QED BY <1>4, <1>6

\* The invariant after the units are made, from what is known of the segments.
LEMMA SegmentedKeeps ==
  ASSUME SegInv, NEW segments, Segmented(segments), split.at \in {"adjudicate", "single"},
         Len(split.decisions) = Pages - 1,
         IsFiniteSet(segments),
         \A s \in segments : \A t \in segments : s.first = t.first => s = t,
         \A s \in segments : \A p \in s.first .. s.last :
            p \in DOMAIN split.decisions => s.confidence \in Nat /\ s.confidence <= split.decisions[p].confidence,
         \A s \in segments : s.first \in 1 .. Pages /\ s.last \in 1 .. Pages,
         \A s \in segments : \A p \in 1 .. Pages - 1 :
            p \in s.first .. s.last => (p + 1 \in s.first .. s.last <=> ~split.decisions[p].cut)
  PROVE  SegInv'
  <1> DEFINE n == Pages
             units == NewUnits(segments)
  <1>1. CASE ~Covers(segments, Pages)
    <2>1. Fail
      BY <1>1 DEF Segmented
    <2>2. /\ split'.at = "end" /\ split'.status = "failed" /\ SplitShape'
          /\ split'.ocr = split.ocr /\ split'.decisions = split.decisions /\ split'.units = split.units /\ split'.regulation = split.regulation
      BY <2>1 DEF Fail, SegInv, SplitShape, Pages
    <2>3. UnitsFollowDecisions'
      BY <2>2 DEF SegInv, UnitsFollowDecisions, Pages
    <2> QED BY <2>2, <2>3 DEF SegInv, NoUnitsYet, UnitsAreReviewed, UncertainScansAreReviewed
  <1>2. CASE Covers(segments, Pages)
    <2>1. split' = [split EXCEPT !.at = "route", !.units = units, !.status = "segmented"]
      BY <1>2 DEF Segmented
    <2>2. /\ split'.at = "route" /\ split'.status = "segmented"
          /\ split'.units = units /\ split'.ocr = split.ocr /\ split'.decisions = split.decisions
          /\ split'.regulation = split.regulation /\ ~split.regulation /\ SplitShape'
      <3> HIDE DEF units
      <3> QED BY <2>1 DEF SegInv, SplitShape, NoUnitsYet, Pages
    <2>3. n \in Nat \ {0} /\ Pages' = n /\ split.decisions \in Seq(CutDecision) /\ DOMAIN split.decisions = 1 .. n - 1
      BY <2>2 DEF SegInv, SplitShape, Pages
    <2>4. /\ DOMAIN units = {s.first : s \in segments}
          /\ units \in [DOMAIN units -> {units[i] : i \in DOMAIN units}]
          /\ \A s \in segments : units[s.first] = [first |-> s.first, last |-> s.last,
                  confidence |-> s.confidence, review |-> s.confidence < Threshold, type |-> 0]
      BY NewUnitsOfSegments
    <2> DEFINE unitOf(p) == {i \in DOMAIN units : p \in units[i].first .. units[i].last}
    <2>5. ASSUME NEW p \in 1 .. n PROVE \E s \in segments : /\ p \in s.first .. s.last /\ unitOf(p) = {s.first}
                                                /\ \A t \in segments : p \in t.first .. t.last => t = s
      <3> PICK s \in segments :
              /\ p \in s.first .. s.last
              /\ {i \in DOMAIN units : p \in units[i].first .. units[i].last} = {s.first}
              /\ \A t \in segments : p \in t.first .. t.last => t = s
        BY <1>2, <2>3, OneUnitAPage
      <3> HIDE DEF units
      <3> WITNESS s \in segments
      <3> QED OBVIOUS
    <2> HIDE DEF units, unitOf
    <2>6. UnitsFollowDecisions'
      <3>1. ASSUME NEW p \in 1 .. n PROVE Cardinality(unitOf(p)) = 1
        <4> PICK x : unitOf(p) = {x}
          BY <2>5
        <4> QED BY FS_Singleton
      <3>2. ASSUME NEW p \in 1 .. n - 1 PROVE (unitOf(p) = unitOf(p + 1)) <=> ~split.decisions[p].cut
        <4>1. p \in 1 .. n /\ p + 1 \in 1 .. n
          BY <2>3
        <4> PICK s \in segments : p \in s.first .. s.last /\ unitOf(p) = {s.first}
          BY <2>5, <4>1
        <4> PICK t \in segments : /\ p + 1 \in t.first .. t.last /\ unitOf(p + 1) = {t.first}
                                  /\ \A o \in segments : p + 1 \in o.first .. o.last => o = t
          BY <2>5, <4>1
        <4>2. p + 1 \in s.first .. s.last <=> ~split.decisions[p].cut
          OBVIOUS
        <4>3. p + 1 \in s.first .. s.last <=> s.first = t.first
          OBVIOUS
        <4> QED BY <4>2, <4>3
      <3> QED BY <2>2, <2>3, <3>1, <3>2 DEF UnitsFollowDecisions, unitOf
    <2>7. ASSUME NEW i \in DOMAIN units PROVE UnitShape(units[i]) /\ units[i].type = 0 /\ i \in Nat
      <3> PICK s \in segments : i = s.first
        BY <2>4
      <3>1. units[i] = [first |-> s.first, last |-> s.last,
                  confidence |-> s.confidence, review |-> s.confidence < Threshold, type |-> 0]
        BY <2>4
      <3>2. i \in 1 .. Pages /\ s.last \in 1 .. Pages /\ Pages' = Pages
        BY <2>3
      <3> QED BY <3>1, <3>2 DEF UnitShape
    <2>8. UncertainDecisionsAreReviewed(split')
      <3> SUFFICES ASSUME NEW p \in 1 .. n - 1, split.decisions[p].confidence < Threshold
                   PROVE  \E i \in DOMAIN units : units[i].review
        BY <2>2, <2>3 DEF UncertainDecisionsAreReviewed
      <3>1. p \in 1 .. n /\ p \in DOMAIN split.decisions
        BY <2>3
      <3> PICK s \in segments : p \in s.first .. s.last
        BY <2>5, <3>1
      <3>2. s.confidence <= split.decisions[p].confidence /\ s.confidence \in Nat
        BY <3>1
      <3>3. split.decisions[p].confidence \in Nat
        <4>1. split.decisions[p] \in CutDecision
          BY <2>3, <3>1
        <4> QED BY <4>1, ConfidencesAreNumbers DEF CutDecision
      <3>4. s.confidence < Threshold
        BY <3>2, <3>3, SegmentationAssumption
      <3>5. units[s.first].review
        <4> DEFINE low == s.confidence < Threshold
        <4>1. units[s.first] = [first |-> s.first, last |-> s.last,
                confidence |-> s.confidence, review |-> low, type |-> 0]
          BY <2>4
        <4>2. low
          BY <3>4
        <4> HIDE DEF low
        <4>3. units[s.first].review = low
          BY <4>1
        <4> QED BY <4>2, <4>3
      <3> QED BY <2>4, <3>5
    <2>9. UnitsAreReviewed'
      BY <2>2, <2>3, <2>4, <2>7, <2>8 DEF UnitsAreReviewed, UncertainTypesAreReviewed, UnitShape, UncertainDecisionsAreReviewed
    <2>10. NoUnitsYet' /\ UncertainScansAreReviewed' /\ (split'.at # "end" => split'.status # "classified")
      BY <2>2 DEF NoUnitsYet, UncertainScansAreReviewed
    <2> QED BY <2>2, <2>6, <2>9, <2>10 DEF SegInv
  <1> QED BY <1>1, <1>2

LEMMA SegmentKeeps ==
  ASSUME SegInv, Segment
  PROVE  SegInv'
  <1>1. Pages \in Nat \ {0} /\ split.decisions \in Seq(CutDecision)
    BY DEF SegInv, SplitShape
  <1>2. CASE split.at = "adjudicate"
    <2> DEFINE cuts == {p \in 1 .. Pages - 1 : split.decisions[p].cut}
               segments == Segments(Pages, split.draft, split.decisions)
               spans == PageRuns(Pages, cuts)
    <2>1. Len(split.decisions) = Pages - 1 /\ Segmented(segments)
      BY <1>2 DEF Segment
    <2>2. /\ \A s \in segments : \E r \in spans : s.first = r.first /\ s.last = r.last
          /\ \A s \in segments : \A t \in segments : s.first = t.first => s = t
          /\ IsFiniteSet(segments)
          /\ \A s \in segments : \A p \in s.first .. s.last :
               p \in DOMAIN split.decisions => s.confidence \in Nat /\ s.confidence <= split.decisions[p].confidence
      BY <1>1, <2>1, SegmentsAreRuns
    <2>6. cuts \in SUBSET (1 .. Pages - 1) /\ \A p \in 1 .. Pages - 1 : p \in cuts <=> split.decisions[p].cut
      OBVIOUS
    <2> HIDE DEF cuts
    <2>3. ASSUME NEW r \in spans PROVE /\ r.first \in 1 .. Pages /\ r.last \in r.first .. Pages
                                      /\ \A p \in cuts : p >= r.first => p >= r.last
                                      /\ r.last \in cuts \cup {Pages}
                                      /\ \A q \in spans : q.first = r.first => q = r
      BY <1>1, <2>6, RunsAreCut
    <2>7. ASSUME NEW r \in spans PROVE r.last \in cuts \cup {Pages}
      BY <1>1, <2>6, RunsAreCut
    <2> HIDE DEF segments, spans
    <2>4. ASSUME NEW s \in segments, NEW p \in 1 .. Pages - 1, p \in s.first .. s.last
          PROVE  p + 1 \in s.first .. s.last <=> ~split.decisions[p].cut
      <3> PICK r \in spans : s.first = r.first /\ s.last = r.last
        BY <2>2
      <3>1. r.first \in Nat /\ r.last \in Nat /\ p \in Nat /\ r.first <= p /\ p <= r.last
        BY <1>1, <2>3, <2>4
      <3>2. CASE split.decisions[p].cut
        <4>1. p \in cuts /\ p >= r.first
          BY <3>1, <3>2, <2>6
        <4>2. p >= r.last
          BY <4>1, <2>3
        <4> QED BY <4>2, <3>1, <3>2
      <3>3. CASE ~split.decisions[p].cut
        <4>1. p \notin cuts /\ p # Pages
          BY <3>3, <2>6, <1>1
        <4>2. r.last # p
          BY <4>1, <2>7
        <4> QED BY <4>2, <3>1, <3>3
      <3> QED BY <3>2, <3>3
    <2>5. ASSUME NEW s \in segments PROVE s.first \in 1 .. Pages /\ s.last \in 1 .. Pages
      <3> PICK r \in spans : s.first = r.first /\ s.last = r.last
        BY <2>2
      <3>1. r.first \in 1 .. Pages /\ r.last \in r.first .. Pages
        BY <2>3
      <3> QED BY <3>1, <1>1
    <2> QED BY <1>2, <2>1, <2>2, <2>4, <2>5, SegmentedKeeps
  <1>3. CASE split.at = "single"
    <2> DEFINE segment == [first |-> 1, last |-> Pages, confidence |-> Max(Confidences)]
               segments == {segment}
    <2>1. Segmented(segments) /\ Pages = 1 /\ split.decisions = << >>
      BY <1>3 DEF Segment, SegInv, NoUnitsYet
    <2>2. segment.first = 1 /\ segment.last = 1
      BY <2>1
    <2>3. IsFiniteSet(segments)
      BY FS_Singleton
    <2> HIDE DEF segment
    <2> QED BY <1>3, <2>1, <2>2, <2>3, SegmentedKeeps
  <1> QED BY <1>2, <1>3 DEF Segment

\* The units after one of them is classified: the same pages, a type of the unit, no review taken back.
LEMMA ClassifyKeeps ==
  ASSUME SegInv, ClassifyUnit
  PROVE  SegInv'
  <1> DEFINE i == Min(Unclassified)
             was == split.units
             new == split'.units
  <1> PICK c \in Confidences : split' = [split EXCEPT !.units[i] = Classified(@, c)]
    BY DEF ClassifyUnit
  <1>1. split.at = "classify" /\ Unclassified # {}
    BY DEF ClassifyUnit
  <1>2. /\ DOMAIN was \subseteq Nat
        /\ was \in [DOMAIN was -> {was[j] : j \in DOMAIN was}]
        /\ \A j \in DOMAIN was : UnitShape(was[j])
        /\ UncertainDecisionsAreReviewed(split) /\ UncertainTypesAreReviewed(split)
    BY <1>1 DEF SegInv, UnitsAreReviewed
  <1>3. i \in DOMAIN was
    <2>1. Unclassified \in SUBSET Nat /\ Unclassified \subseteq DOMAIN was
      BY <1>2 DEF Unclassified
    <2> QED BY <1>1, <2>1, MinIsLeast
  <1> HIDE DEF i
  <1> DEFINE u == [was[i] EXCEPT !.type = c, !.review = @ \/ c < Threshold]
  <1>4. /\ split'.at = "classify" /\ split'.status = split.status /\ split'.ocr = split.ocr
        /\ split'.decisions = split.decisions /\ split'.regulation = split.regulation /\ ~split.regulation
        /\ new = [was EXCEPT ![i] = Classified(@, c)]
        /\ SplitShape'
    BY <1>1 DEF SegInv, SplitShape, NoUnitsYet, Pages
  <1>5. DOMAIN new = DOMAIN was /\ new[i] = Classified(was[i], c)
        /\ \A j \in DOMAIN was \ {i} : new[j] = was[j]
    BY <1>2, <1>3, <1>4
  <1>6. /\ Classified(was[i], c).first = was[i].first /\ Classified(was[i], c).last = was[i].last
        /\ Classified(was[i], c).type = c /\ UnitShape(Classified(was[i], c))
        /\ Classified(was[i], c).review <=> (was[i].review \/ c < Threshold)
    BY <1>2, <1>3 DEF Classified, UnitShape
  <1> HIDE DEF was, new
  <1>7. \A j \in DOMAIN was : /\ new[j].first = was[j].first /\ new[j].last = was[j].last
                              /\ was[j].review => new[j].review
                              /\ UnitShape(new[j])
    <2> SUFFICES ASSUME NEW j \in DOMAIN was
                 PROVE  /\ new[j].first = was[j].first /\ new[j].last = was[j].last
                        /\ was[j].review => new[j].review
                        /\ UnitShape(new[j])
      OBVIOUS
    <2>1. CASE j = i
      BY <2>1, <1>5, <1>6
    <2>2. CASE j # i
      BY <2>2, <1>2, <1>5
    <2> QED BY <2>1, <2>2
  <1>8. UncertainDecisionsAreReviewed(split')
    BY <1>2, <1>4, <1>5, <1>7 DEF UncertainDecisionsAreReviewed, was, new
  <1>9. UncertainTypesAreReviewed(split')
    <2> SUFFICES ASSUME NEW j \in DOMAIN new, new[j].type # 0
                 PROVE  new[j].type >= Threshold \/ new[j].review
      BY DEF UncertainTypesAreReviewed, new
    <2>1. CASE j = i
      BY <2>1, <1>5, <1>6, SegmentationAssumption
    <2>2. CASE j # i
      BY <2>2, <1>2, <1>5 DEF UncertainTypesAreReviewed, was
    <2> QED BY <2>1, <2>2
  <1>10. new \in [DOMAIN new -> {new[j] : j \in DOMAIN new}]
    BY <1>2, <1>4
  <1>11. UnitsAreReviewed'
    BY <1>2, <1>4, <1>5, <1>7, <1>8, <1>9, <1>10
       DEF UnitsAreReviewed, UncertainDecisionsAreReviewed, UncertainTypesAreReviewed, UnitShape, Pages, new
  <1>12. UnitsFollowDecisions'
    <2> DEFINE unitOf(p) == {j \in DOMAIN was : p \in was[j].first .. was[j].last}
               unitOfNew(p) == {j \in DOMAIN new : p \in new[j].first .. new[j].last}
    <2>1. \A p : unitOfNew(p) = unitOf(p)
      BY <1>5, <1>7
    <2>2. Pages' = Pages /\ was # << >>
      BY <1>3, <1>4 DEF Pages
    <2>3. /\ \A p \in 1 .. Pages : Cardinality(unitOf(p)) = 1
          /\ \A p \in 1 .. Pages - 1 : (unitOf(p) = unitOf(p + 1)) <=> ~split.decisions[p].cut
      BY <1>4, <2>2 DEF SegInv, UnitsFollowDecisions, was
    <2> HIDE DEF unitOf, unitOfNew
    <2>4. /\ \A p \in 1 .. Pages : Cardinality(unitOfNew(p)) = 1
          /\ \A p \in 1 .. Pages - 1 : (unitOfNew(p) = unitOfNew(p + 1)) <=> ~split'.decisions[p].cut
      BY <2>1, <2>3, <1>4
    <2> QED BY <1>4, <2>2, <2>4 DEF UnitsFollowDecisions, unitOfNew, new
  <1>13. NoUnitsYet' /\ UncertainScansAreReviewed' /\ split'.status # "classified"
    BY <1>1, <1>4 DEF SegInv, NoUnitsYet, UncertainScansAreReviewed
  <1> QED BY <1>4, <1>11, <1>12, <1>13 DEF SegInv

\* A step of the scan after classification that leaves its units as they are.
LEMMA EndingKeeps ==
  ASSUME SegInv,
         \/ RouteUnits
         \/ /\ split.at = "classify" /\ Unclassified = {}
            /\ split' = [split EXCEPT !.at = "finish"]
  PROVE  SegInv'
  <1>1. /\ split'.ocr = split.ocr /\ split'.decisions = split.decisions /\ split'.units = split.units
        /\ split'.regulation = split.regulation /\ split'.status = split.status /\ SplitShape'
    BY DEF RouteUnits, SegInv, SplitShape, Pages
  <1>2. UnitsFollowDecisions'
    BY <1>1 DEF SegInv, UnitsFollowDecisions, Pages
  <1>3. CASE RouteUnits
    <2>1. split.at = "route" /\ split'.at = "classify"
      BY <1>3 DEF RouteUnits, SegInv, SplitShape
    <2> QED BY <1>1, <1>2, <2>1 DEF SegInv, NoUnitsYet, UnitsAreReviewed, UncertainScansAreReviewed,
                 UncertainDecisionsAreReviewed, UncertainTypesAreReviewed, UnitShape, Pages
  <1>4. CASE split.at = "classify" /\ Unclassified = {} /\ split' = [split EXCEPT !.at = "finish"]
    <2>1. split.at = "classify" /\ split'.at = "finish"
      BY <1>4 DEF SegInv, SplitShape
    <2>2. \A i \in DOMAIN split.units : split.units[i].type # 0
      BY <1>4 DEF Unclassified
    <2> QED BY <1>1, <1>2, <2>1, <2>2 DEF SegInv, NoUnitsYet, UnitsAreReviewed, UncertainScansAreReviewed,
                 UncertainDecisionsAreReviewed, UncertainTypesAreReviewed, UnitShape, Pages
  <1> QED BY <1>3, <1>4

\* The one unit of a regulation has every page: the first and the last page each are in a unit.
LEMMA RegulationTakesAll ==
  ASSUME SegInv, split.at = "classify", NEW c \in DOMAIN split.units, split.units # << >>
  PROVE  /\ DOMAIN WholeRegulation(c) = {1}
         /\ WholeRegulation(c) \in [{1} -> {WholeRegulation(c)[1]}]
         /\ WholeRegulation(c)[1].first = 1 /\ WholeRegulation(c)[1].last = Pages
         /\ WholeRegulation(c)[1].review /\ WholeRegulation(c)[1].type = Max(Confidences)
         /\ WholeRegulation(c)[1] \in [first : {1}, last : {Pages}, confidence : {WholeRegulation(c)[1].confidence},
                                  review : {TRUE}, type : {Max(Confidences)}]
  <1> DEFINE was == split.units
             first == Min({u.first : u \in Range(was)})
             last == Max({u.last : u \in Range(was)})
             sure == Max({u.confidence : u \in Range(was)})
             unit == [was[c] EXCEPT !.first = first, !.last = last, !.confidence = sure,
                                    !.review = TRUE, !.type = Max(Confidences)]
  <1>1. \A i \in DOMAIN was : UnitShape(was[i])
    BY DEF SegInv, UnitsAreReviewed
  <1>2. Pages \in Nat \ {0}
    BY DEF SegInv, SplitShape
  <1>3. ASSUME NEW p \in 1 .. Pages PROVE \E i \in DOMAIN was : p \in was[i].first .. was[i].last
    <2> DEFINE units == {i \in DOMAIN was : p \in was[i].first .. was[i].last}
    <2>1. Cardinality(units) = 1
      BY DEF SegInv, UnitsFollowDecisions
    <2>2. Cardinality({}) = 0
      BY FS_EmptySet
    <2> HIDE DEF units
    <2>3. units # {}
      BY <2>1, <2>2
    <2> QED BY <2>3 DEF units
  <1>4. first = 1
    <2> DEFINE S == {u.first : u \in Range(was)}
    <2>1. \A x \in S : x \in 1 .. Pages
      BY <1>1 DEF Range, UnitShape
    <2>2. S \in SUBSET Nat
      BY <2>1
    <2>3. PICK i \in DOMAIN was : 1 \in was[i].first .. was[i].last
      BY <1>2, <1>3
    <2>4. was[i].first \in S /\ was[i].first \in 1 .. Pages /\ was[i].last \in 1 .. Pages
      BY <1>1 DEF Range, UnitShape
    <2>5. was[i].first = 1
      BY <2>3, <2>4
    <2>6. Min(S) \in S /\ Min(S) <= 1
      <3> HIDE DEF S
      <3> QED BY <2>2, <2>4, <2>5, MinIsLeast
    <2>7. Min(S) \in 1 .. Pages
      BY <2>1, <2>6
    <2> QED BY <2>6, <2>7
  <1>5. last = Pages
    <2> DEFINE S == {u.last : u \in Range(was)}
    <2>1. \A x \in S : x \in 1 .. Pages
      BY <1>1 DEF Range, UnitShape
    <2>2. S \in SUBSET Nat /\ \A x \in S : x <= Pages
      BY <2>1
    <2>3. PICK i \in DOMAIN was : Pages \in was[i].first .. was[i].last
      BY <1>2, <1>3
    <2>4. was[i].last \in S /\ was[i].first \in 1 .. Pages /\ was[i].last \in 1 .. Pages
      BY <1>1 DEF Range, UnitShape
    <2>5. was[i].last = Pages
      BY <1>2, <2>3, <2>4
    <2>6. Max(S) \in S /\ Pages <= Max(S)
      <3> HIDE DEF S
      <3> QED BY <1>2, <2>2, <2>4, <2>5, MaxIsGreatest
    <2>7. Max(S) \in 1 .. Pages
      BY <2>1, <2>6
    <2> QED BY <1>2, <2>6, <2>7
  <1>6. UnitShape(was[c])
    BY <1>1
  <1>7. WholeRegulation(c) = [f \in {first} |-> unit]
    BY DEF WholeRegulation
  <1> HIDE DEF first, last, sure, was
  <1>8. /\ unit.first = first /\ unit.last = last /\ unit.review = TRUE /\ unit.type = Max(Confidences)
        /\ unit \in [first : {first}, last : {last}, confidence : {unit.confidence}, review : {TRUE},
                     type : {Max(Confidences)}]
    BY <1>6 DEF UnitShape
  <1> HIDE DEF unit
  <1>9. WholeRegulation(c) = [f \in {1} |-> unit] /\ WholeRegulation(c)[1] = unit
    BY <1>4, <1>7
  <1> QED BY <1>4, <1>5, <1>8, <1>9

\* The units consolidated: one of all pages, up for review whatever the decisions and the types were.
LEMMA RegulationKeeps ==
  ASSUME SegInv, split.at = "classify", Unclassified = {}, NEW c \in DOMAIN split.units, split.units # << >>,
         split' = [split EXCEPT !.at = "finish", !.units = WholeRegulation(c), !.regulation = TRUE]
  PROVE  SegInv'
  <1> DEFINE new == WholeRegulation(c)
  <1>1. /\ DOMAIN new = {1} /\ new \in [{1} -> {new[1]}] /\ new[1].first = 1 /\ new[1].last = Pages
        /\ new[1].review /\ new[1].type = Max(Confidences)
        /\ new[1] \in [first : {1}, last : {Pages}, confidence : {new[1].confidence},
                       review : {TRUE}, type : {Max(Confidences)}]
    BY RegulationTakesAll
  <1> HIDE DEF new
  <1>2. /\ split'.ocr = split.ocr /\ split'.decisions = split.decisions /\ split'.units = new
        /\ split'.regulation = TRUE /\ split'.status = split.status /\ split'.at = "finish" /\ SplitShape'
    BY DEF SegInv, SplitShape, Pages, new
  <1>3. Pages' = Pages /\ Pages \in Nat \ {0} /\ split.status # "classified"
    BY <1>2 DEF SegInv, SplitShape, Pages
  <1>4. Max(Confidences) \in Confidences \cup {0} /\ Max(Confidences) # 0
    <2>1. split.units[c].type \in Confidences \cup {0} /\ split.units[c].type # 0
      BY DEF SegInv, UnitsAreReviewed, UnitShape, Unclassified
    <2>2. PICK k \in Confidences : TRUE
      BY <2>1
    <2>3. Max(Confidences) \in Confidences
      BY <2>2, ConfidencesAreNumbers, MaxIsGreatest
    <2> QED BY <2>3, ConfidencesAreNumbers
  <1>5. \A p \in 1 .. Pages : {i \in DOMAIN new : p \in new[i].first .. new[i].last} = {1}
    BY <1>1, <1>3
  <1>6. UnitsFollowDecisions'
    <2> DEFINE unitOf(p) == {i \in DOMAIN new : p \in new[i].first .. new[i].last}
    <2>1. \A p \in 1 .. Pages : unitOf(p) = {1}
      BY <1>5
    <2> HIDE DEF unitOf
    <2>2. \A p \in 1 .. Pages : Cardinality(unitOf(p)) = 1
      BY <2>1, FS_Singleton
    <2>3. ASSUME NEW p \in 1 .. Pages - 1 PROVE unitOf(p) = unitOf(p + 1)
      <3>1. p \in 1 .. Pages /\ p + 1 \in 1 .. Pages
        BY <1>3
      <3> QED BY <2>1, <3>1
    <2>4. \E i \in unitOf(1) : new[i].review
      BY <1>1, <1>3, <2>1
    <2> QED BY <1>2, <1>3, <2>2, <2>3, <2>4 DEF UnitsFollowDecisions, unitOf
  <1>7. UnitsAreReviewed'
    <2>1. new[1] \in [first : 1 .. Pages', last : 1 .. Pages', confidence : {new[1].confidence},
                        review : {new[1].review}, type : Confidences \cup {0}]
      <3>1. 1 \in 1 .. Pages' /\ Pages \in 1 .. Pages'
        BY <1>3
      <3>2. new[1].review = TRUE
        BY <1>1
      <3> QED BY <1>1, <1>4, <3>1, <3>2
    <2>2. UncertainDecisionsAreReviewed(split') /\ UncertainTypesAreReviewed(split')
      BY <1>1, <1>2 DEF UncertainDecisionsAreReviewed, UncertainTypesAreReviewed
    <2> QED BY <1>1, <1>2, <1>4, <2>1, <2>2
            DEF UnitsAreReviewed, UnitShape, UncertainDecisionsAreReviewed, UncertainTypesAreReviewed
  <1> QED BY <1>2, <1>3, <1>6, <1>7 DEF SegInv, NoUnitsYet, UncertainScansAreReviewed

LEMMA ExtractEntitiesKeeps ==
  ASSUME SegInv, ExtractEntities
  PROVE  SegInv'
  <1>1. CASE split' = [split EXCEPT !.at = "finish"]
    BY <1>1, EndingKeeps DEF ExtractEntities
  <1>2. ASSUME Cardinality(DOMAIN split.units) >= 2, NEW c \in DOMAIN split.units,
               split' = [split EXCEPT !.at = "finish", !.units = WholeRegulation(c), !.regulation = TRUE]
        PROVE  SegInv'
    <2>1. split.units # << >>
      OBVIOUS
    <2>2. split.at = "classify" /\ Unclassified = {}
      BY DEF ExtractEntities
    <2> QED BY <1>2, <2>1, <2>2, RegulationKeeps
  <1> QED BY <1>1, <1>2 DEF ExtractEntities

LEMMA FinishKeeps ==
  ASSUME SegInv, FinishScan
  PROVE  SegInv'
  <1>1. /\ split'.ocr = split.ocr /\ split'.decisions = split.decisions /\ split'.units = split.units
        /\ split'.regulation = split.regulation /\ SplitShape'
    BY DEF FinishScan, SegInv, SplitShape, Pages
  <1>2. /\ split.at = "finish" /\ split'.at = "end"
        /\ split'.status = IF \E i \in DOMAIN split.units : split.units[i].review
                           THEN "needs_review" ELSE "classified"
    BY DEF FinishScan, SegInv, SplitShape
  <1>3. UnitsFollowDecisions'
    BY <1>1, <1>2 DEF SegInv, UnitsFollowDecisions, Pages
  <1>4. UncertainScansAreReviewed'
    <2> SUFFICES ASSUME \A i \in DOMAIN split.units : ~split.units[i].review
                 PROVE  /\ \A p \in DOMAIN split.decisions : split.decisions[p].confidence >= Threshold
                        /\ \A i \in DOMAIN split.units : split.units[i].type >= Threshold
      BY <1>1, <1>2 DEF UncertainScansAreReviewed
    <2>1. /\ UncertainDecisionsAreReviewed(split) /\ UncertainTypesAreReviewed(split)
          /\ \A i \in DOMAIN split.units : split.units[i].type # 0
      BY <1>2 DEF SegInv, UnitsAreReviewed
    <2>2. ASSUME NEW p \in DOMAIN split.decisions PROVE split.decisions[p].confidence >= Threshold
      <3>1. split.decisions[p] \in CutDecision
        BY DEF SegInv, SplitShape
      <3>2. split.decisions[p].confidence \in Nat
        BY <3>1, ConfidencesAreNumbers DEF CutDecision
      <3>3. ~(split.decisions[p].confidence < Threshold)
        BY <2>1 DEF UncertainDecisionsAreReviewed
      <3> QED BY <3>2, <3>3, SegmentationAssumption
    <2> QED BY <2>1, <2>2 DEF UncertainTypesAreReviewed
  <1> QED BY <1>1, <1>2, <1>3, <1>4 DEF NoUnitsYet, UnitsAreReviewed, SegInv

LEMMA SegInvHolds == SegSpec => []SegInv
  <1>1. SegInv /\ [SegNext]_segVars => SegInv'
    <2> SUFFICES ASSUME SegInv, [SegNext]_segVars PROVE SegInv'
      OBVIOUS
    <2>1. CASE UNCHANGED segVars
      BY <2>1 DEF segVars, SegInv, SplitShape, NoUnitsYet, UnitsAreReviewed, UncertainDecisionsAreReviewed,
         UncertainTypesAreReviewed, UnitShape, UnitsFollowDecisions, UncertainScansAreReviewed, Pages
    <2>2. CASE SegNext
      BY <2>2, StartKeeps, DraftStepsKeep, AdjudicateKeeps, SegmentKeeps, ClassifyKeeps, EndingKeeps,
            ExtractEntitiesKeeps, FinishKeeps DEF SegNext
    <2> QED BY <2>1, <2>2
  <1> QED BY <1>1, InitSeg, PTL DEF SegSpec

\* The units are a partition of the pages into runs, cut exactly where a decision
\* cuts: overlapping windows and merged drafts lose, double and reorder no page.
\* Only a condominium regulation is put together again, all of it and for review.
THEOREM UnitsKeepToDecisions == SegSpec => []UnitsFollowDecisions
  <1>1. SegInv => UnitsFollowDecisions
    BY DEF SegInv
  <1> QED BY <1>1, SegInvHolds, PTL

\* A scan is called classified only when every decision and every type was sure:
\* a doubt of the segmentation survives the classification of the units.
THEOREM UncertaintyIsReviewed == SegSpec => []UncertainScansAreReviewed
  <1>1. SegInv => UncertainScansAreReviewed
    BY DEF SegInv
  <1> QED BY <1>1, SegInvHolds, PTL

-----------------------------------------------------------------------------
(* Segmentation: the lines of the pages.                                        *)

\* Of borders that do not fall, exactly one pair of neighbours has x in between.
LEMMA OneBetween ==
  ASSUME NEW n \in Nat \ {0}, NEW border \in [1 .. n + 1 -> Nat],
         \A p \in 1 .. n : border[p] <= border[p + 1],
         NEW x \in Nat, border[1] < x, x <= border[n + 1]
  PROVE  Cardinality({p \in 1 .. n : border[p] < x /\ x <= border[p + 1]}) = 1
  <1> DEFINE S == {p \in 1 .. n : x <= border[p + 1]}
             Rising == {q \in 0 .. n + 1 : \A p \in 1 .. q : border[p] <= border[q]}
             between == {p \in 1 .. n : border[p] < x /\ x <= border[p + 1]}
  <1>1. \A p \in 1 .. n : p \in 1 .. n + 1 /\ p + 1 \in 1 .. n + 1 /\ border[p] \in Nat /\ border[p + 1] \in Nat
    OBVIOUS
  <1>2. PICK m \in S : \A p \in S : m <= p
    <2>1. n \in S /\ S \in SUBSET Nat
      OBVIOUS
    <2> HIDE DEF S
    <2> QED BY <2>1, LeastExists
  <1>3. m \in between
    <2>1. CASE m = 1
      <3>1. m \in 1 .. n /\ x <= border[m + 1] /\ border[m] < x
        BY <2>1
      <3> QED BY <3>1
    <2>2. CASE m # 1
      <3>a. m - 1 \in 1 .. n /\ (m - 1) + 1 = m /\ ~(m <= m - 1)
        BY <2>2
      <3>b. m - 1 \notin S
        <4> HIDE DEF S
        <4> QED BY <1>2, <3>a
      <3>1. m - 1 \in 1 .. n /\ m - 1 \notin S /\ (m - 1) + 1 = m
        BY <3>a, <3>b
      <3>2. ~(x <= border[m])
        BY <3>1
      <3>3. border[m] < x
        BY <1>1, <3>2
      <3> QED BY <3>3
    <2> QED BY <2>1, <2>2
  <1>4. \A q \in 0 .. n + 1 : q \in Rising
    <2>1. 0 \in Rising
      OBVIOUS
    <2>2. ASSUME NEW q \in 1 .. n + 1, q - 1 \in Rising PROVE q \in Rising
      <3> SUFFICES ASSUME NEW p \in 1 .. q PROVE border[p] <= border[q]
        OBVIOUS
      <3>1. CASE p = q
        BY <3>1
      <3>2. CASE p # q
        <4>1. p \in 1 .. q - 1 /\ q - 1 \in 1 .. n /\ (q - 1) + 1 = q /\ p \in 1 .. n + 1
          BY <3>2
        <4>2. border[p] <= border[q - 1] /\ border[q - 1] <= border[q]
          BY <2>2, <4>1
        <4>3. border[p] \in Nat /\ border[q - 1] \in Nat /\ border[q] \in Nat
          BY <4>1, <1>1
        <4> QED BY <4>2, <4>3
      <3> QED BY <3>1, <3>2
    <2>3. n + 1 \in Nat
      OBVIOUS
    <2> HIDE DEF Rising
    <2> QED BY <2>1, <2>2, <2>3, UpTo
  <1>5. ASSUME NEW p \in between, NEW q \in between, p < q PROVE FALSE
    <2>1. p + 1 \in 1 .. q /\ q \in 0 .. n + 1
      BY <1>5
    <2>2. border[p + 1] <= border[q]
      BY <1>4, <2>1
    <2>3. q \in 1 .. n /\ p \in 1 .. n /\ border[p + 1] \in Nat /\ border[q] \in Nat
      BY <1>1, <1>5, <2>1
    <2> QED BY <2>2, <2>3
  <1>6. between = {m}
    <2>1. \A p \in between : p = m
      <3> SUFFICES ASSUME NEW p \in between PROVE p = m
        OBVIOUS
      <3>1. p \in Nat /\ m \in Nat
        OBVIOUS
      <3>2. ~(p < m) /\ ~(m < p)
        BY <1>3, <1>5
      <3> QED BY <3>1, <3>2
    <2> HIDE DEF between
    <2> QED BY <1>3, <2>1
  <1> HIDE DEF between
  <1>7. Cardinality(between) = 1
    BY <1>6, FS_Singleton
  <1> QED BY <1>7 DEF between

\* The lines before a page are counted page by page.
LEMMA LinesCounted ==
  ASSUME NEW sizes, Len(sizes) \in Nat, \A q \in 1 .. Len(sizes) : sizes[q] \in Nat
  PROVE  /\ LinesBefore(sizes, 1) = 0 /\ \A p \in 1 .. Len(sizes) + 1 : LinesBefore(sizes, p) \in Nat
         /\ \A p \in 1 .. Len(sizes) : LinesBefore(sizes, p + 1) = Add(LinesBefore(sizes, p), sizes[p])
  <1> DEFINE n == Len(sizes)
             Rec(f) == f = [q \in 0 .. n |-> IF q = 0 THEN 0 ELSE Add(f[q - 1], sizes[q])]
             before == CHOOSE f : Rec(f)
  <1>1. \A q \in 1 .. Len(sizes) : \A k \in Nat : Add(k, sizes[q]) \in Nat
    BY DEF Add
  <1>2. \A m \in Nat : m = Len(sizes) =>
           \E f : f = [q \in 0 .. m |-> IF q = 0 THEN 0 ELSE Add(f[q - 1], sizes[q])]
    <2> SUFFICES ASSUME NEW m \in Nat, m = Len(sizes)
                 PROVE  \E f : f = [q \in 0 .. m |-> IF q = 0 THEN 0 ELSE Add(f[q - 1], sizes[q])]
      OBVIOUS
    <2> DEFINE step == [x \in (1 .. m) \X Nat |-> Add(x[2], sizes[x[1]])]
    <2>1. step \in [(1 .. m) \X Nat -> Nat]
          /\ \A q \in 1 .. m : \A k \in Nat : step[<<q, k>>] = Add(k, sizes[q])
      BY <1>1
    <2> HIDE DEF step
    <2>2. PICK f \in [0 .. m -> Nat] : IsRecursion(f, m, 0, step)
      BY <2>1, RecursionExists
    <2>3. f[0] = 0 /\ \A q \in 1 .. m : f[q] = step[<<q, f[q - 1]>>]
      BY <2>2 DEF IsRecursion
    <2>4. ASSUME NEW q \in 0 .. m PROVE f[q] = IF q = 0 THEN 0 ELSE Add(f[q - 1], sizes[q])
      <3>1. CASE q = 0
        BY <2>3, <3>1
      <3>2. CASE q # 0
        <4>1. q \in 1 .. m /\ q - 1 \in 0 .. m
          BY <3>2
        <4>2. f[q - 1] \in Nat
          BY <4>1
        <4> QED BY <2>1, <2>3, <3>2, <4>1, <4>2
      <3> QED BY <3>1, <3>2
    <2>5. f = [q \in 0 .. m |-> f[q]]
      OBVIOUS
    <2> QED BY <2>4, <2>5
  <1>3. Rec(before)
    <2>1. \E f : Rec(f)
      BY <1>2
    <2> HIDE DEF Rec
    <2> QED BY <2>1
  <1> HIDE DEF before
  <1>4. n \in Nat /\ \A q \in 1 .. n : \A k \in Nat : Add(k, sizes[q]) \in Nat
    BY <1>1
  <1> HIDE DEF n
  <1>5. before[0] = 0 /\ \A q \in 1 .. n : before[q] = Add(before[q - 1], sizes[q])
    <2>1. \A q \in 0 .. n : before[q] = IF q = 0 THEN 0 ELSE Add(before[q - 1], sizes[q])
      BY <1>3
    <2>2. 0 \in 0 .. n /\ \A q \in 1 .. n : q \in 0 .. n /\ q # 0
      BY <1>4
    <2> HIDE DEF Rec
    <2> QED BY <2>1, <2>2
  <1> DEFINE P == {q \in 0 .. n : before[q] \in Nat}
  <1>6. 0 \in P /\ \A q \in 1 .. n : q - 1 \in P => q \in P
    <2>1. 0 \in 0 .. n /\ \A q \in 1 .. n : q \in 0 .. n
      BY <1>4
    <2>2. 0 \in P
      BY <1>5, <2>1
    <2>3. ASSUME NEW q \in 1 .. n, q - 1 \in P PROVE q \in P
      <3>1. before[q - 1] \in Nat
        BY <2>3
      <3>2. before[q] \in Nat
        BY <1>4, <1>5, <3>1
      <3> QED BY <2>1, <3>2
    <2> QED BY <2>2, <2>3
  <1>7. \A q \in 0 .. n : q \in P
    <2> HIDE DEF P
    <2> QED BY <1>4, <1>6, UpTo
  <1>8. \A q \in 0 .. n : before[q] \in Nat
    BY <1>7
  <1>9. \A p : LinesBefore(sizes, p) = before[p - 1]
    BY DEF LinesBefore, before, Rec, n
  <1> HIDE DEF Rec, P
  <1>10. LinesBefore(sizes, 1) = 0
    <2>1. 1 - 1 = 0
      OBVIOUS
    <2> QED BY <1>5, <1>9, <2>1
  <1>11. ASSUME NEW p \in 1 .. n + 1 PROVE LinesBefore(sizes, p) \in Nat
    <2>1. p - 1 \in 0 .. n
      BY <1>4
    <2> QED BY <1>8, <1>9, <2>1
  <1>12. ASSUME NEW p \in 1 .. n PROVE LinesBefore(sizes, p + 1) = Add(LinesBefore(sizes, p), sizes[p])
    <2>1. (p + 1) - 1 = p
      BY <1>4
    <2> QED BY <1>5, <1>9, <2>1
  <1> QED BY <1>10, <1>11, <1>12 DEF n

\* An engine that gives the sizes of its pages.
LEMMA PagedLines ==
  ASSUME NEW sizes, Len(sizes) \in Nat \ {0}, \A q \in 1 .. Len(sizes) : sizes[q] \in Nat, sizes # << >>,
         NEW l \in (1 .. Joined(sizes).lines) \ JoinLines(Joined(sizes))
  PROVE  Cardinality({p \in 1 .. Joined(sizes).count : l \in PageLines(Joined(sizes))[p]}) = 1
  <1> DEFINE n == Len(sizes)
             border == [p \in 1 .. n + 1 |-> LinesBefore(sizes, p)]
             ocr == Joined(sizes)
  <1>1. n \in Nat \ {0} /\ \A q \in 1 .. n : sizes[q] \in Nat
    OBVIOUS
  <1>2. ocr.count = n /\ ocr.sizes = sizes /\ ocr.lines = LinesBefore(sizes, n + 1) - 1
    BY DEF Joined
  <1>3. /\ LinesBefore(sizes, 1) = 0 /\ \A p \in 1 .. n + 1 : LinesBefore(sizes, p) \in Nat
        /\ \A p \in 1 .. n : LinesBefore(sizes, p + 1) = Add(LinesBefore(sizes, p), sizes[p])
    BY LinesCounted
  <1>4. l \in 1 .. ocr.lines /\ l \notin JoinLines(ocr)
    OBVIOUS
  <1> HIDE DEF n, ocr
  <1>5. border \in [1 .. n + 1 -> Nat] /\ \A p \in 1 .. n + 1 : border[p] = LinesBefore(sizes, p)
    BY <1>3
  <1> HIDE DEF border
  <1>6. ASSUME NEW p \in 1 .. n
        PROVE  /\ p \in 1 .. n + 1 /\ p + 1 \in 1 .. n + 1 /\ border[p] \in Nat /\ border[p + 1] \in Nat
               /\ sizes[p] = 0 => border[p + 1] = border[p]
               /\ sizes[p] # 0 => border[p + 1] = border[p] + sizes[p] + 1
    <2>1. p \in 1 .. n + 1 /\ p + 1 \in 1 .. n + 1
      BY <1>1
    <2>2. border[p] \in Nat /\ border[p + 1] \in Nat
      BY <1>5, <2>1
    <2>3. border[p + 1] = Add(border[p], sizes[p])
      BY <1>3, <1>5, <2>1
    <2> QED BY <2>1, <2>2, <2>3 DEF Add
  <1>7. \A p \in 1 .. n : border[p] <= border[p + 1]
    BY <1>1, <1>6
  <1>8. l \in Nat /\ 1 <= l /\ l + 1 \in Nat /\ border[1] = 0 /\ 1 \in 1 .. n + 1 /\ n + 1 \in 1 .. n + 1
        /\ border[n + 1] \in Nat /\ l <= border[n + 1] - 1
    BY <1>1, <1>2, <1>3, <1>4, <1>5
  <1>9. border[1] < l + 1 /\ l + 1 <= border[n + 1]
    BY <1>8
  <1>10. Cardinality({p \in 1 .. n : border[p] < l + 1 /\ l + 1 <= border[p + 1]}) = 1
    BY <1>1, <1>5, <1>7, <1>8, <1>9, OneBetween
  <1>11. PageLines(ocr) = [p \in 1 .. n |-> LinesBefore(sizes, p) + 1 .. LinesBefore(sizes, p) + sizes[p]]
    BY <1>2 DEF PageLines
  <1>12. ASSUME NEW p \in 1 .. n
         PROVE  l \in PageLines(ocr)[p] <=> border[p] < l + 1 /\ l + 1 <= border[p + 1]
    <2>1. PageLines(ocr)[p] = border[p] + 1 .. border[p] + sizes[p]
      BY <1>5, <1>6, <1>11
    <2>2. l # border[p]
      <3>1. CASE p = 1
        BY <1>8, <3>1
      <3>2. CASE p # 1
        <4>1. p \in 2 .. n
          BY <1>1, <3>2
        <4>2. border[p] > 0 => border[p] \in JoinLines(ocr)
          BY <1>2, <1>5, <1>6, <4>1 DEF JoinLines
        <4> QED BY <1>4, <1>6, <1>8, <4>2
      <3> QED BY <3>1, <3>2
    <2> DEFINE b == border[p]
               k == sizes[p]
    <2>5. b \in Nat /\ k \in Nat /\ l \in Nat /\ l # b /\ PageLines(ocr)[p] = b + 1 .. b + k
          /\ (k = 0 => border[p + 1] = b) /\ (k # 0 => border[p + 1] = b + k + 1)
      BY <1>1, <1>6, <1>8, <2>1, <2>2
    <2> HIDE DEF b, k
    <2>6. border[p] = b
      BY DEF b
    <2>3. CASE k = 0
      BY <2>3, <2>5, <2>6
    <2>4. CASE k # 0
      BY <2>4, <2>5, <2>6
    <2> QED BY <2>3, <2>4
  <1>13. {p \in 1 .. n : l \in PageLines(ocr)[p]} = {p \in 1 .. n : border[p] < l + 1 /\ l + 1 <= border[p + 1]}
    BY <1>12
  <1>14. Cardinality({p \in 1 .. ocr.count : l \in PageLines(ocr)[p]}) = 1
    BY <1>2, <1>10, <1>13
  <1> QED BY <1>14 DEF ocr

\* A text whose lines are dealt out evenly, the rest to the last page.
LEMMA EvenLines ==
  ASSUME NEW ocr, ocr.sizes = << >>, NEW n \in Nat \ {0}, ocr.count = n, NEW lines \in Nat, ocr.lines = lines,
         NEW l \in 1 .. lines
  PROVE  Cardinality({p \in 1 .. n : l \in PageLines(ocr)[p]}) = 1
  <1> DEFINE q == PerPage(ocr)
  <1>1. q \in Nat \ {0}
    <2> DEFINE k == lines \div n
    <2>1. k \in Nat
      OBVIOUS
    <2> HIDE DEF k
    <2>2. \E m \in {1, k} : \A x \in {1, k} : m >= x
      <3>1. CASE k >= 1
        BY <2>1, <3>1
      <3>2. CASE ~(k >= 1)
        BY <2>1, <3>2
      <3> QED BY <3>1, <3>2
    <2>3. Max({1, k}) \in {1, k} /\ Max({1, k}) >= 1
      BY <2>2 DEF Max
    <2>4. q = Max({1, k})
      BY DEF PerPage, k
    <2> HIDE DEF q
    <2> QED BY <2>1, <2>3, <2>4
  <1> DEFINE last == IF lines >= (n - 1) * q THEN lines ELSE (n - 1) * q
             border == [p \in 1 .. n + 1 |-> IF p = n + 1 THEN last ELSE (p - 1) * q]
  <1>2. PageLines(ocr) = [p \in 1 .. n |->
          (p - 1) * q + 1 .. (IF p = n THEN lines ELSE Min({p * q, lines}))]
    BY DEF PageLines, SplitEvenly
  <1> HIDE DEF q
  <1>3. \A p \in 1 .. n : (p - 1) * q \in Nat /\ p * q \in Nat /\ (p - 1) * q <= p * q
    <2> SUFFICES ASSUME NEW p \in 1 .. n PROVE (p - 1) * q \in Nat /\ p * q \in Nat /\ (p - 1) * q <= p * q
      OBVIOUS
    <2>1. p \in Nat /\ p - 1 \in Nat /\ q \in Nat
      BY <1>1
    <2>2. (p - 1) * q \in Nat /\ p * q \in Nat
      BY <2>1
    <2>3. p * q = (p - 1) * q + q
      BY <2>1
    <2> QED BY <2>1, <2>2, <2>3
  <1>4. n \in 1 .. n /\ (n - 1) * q \in Nat /\ last \in Nat /\ last >= (n - 1) * q /\ last >= lines
        /\ (last = lines \/ (last = (n - 1) * q /\ last > lines))
    <2>1. n \in 1 .. n
      OBVIOUS
    <2>2. (n - 1) * q \in Nat
      BY <1>3, <2>1
    <2> DEFINE k == (n - 1) * q
    <2>3. k \in Nat /\ last = IF lines >= k THEN lines ELSE k
      BY <2>2
    <2> HIDE DEF k, last
    <2>4. last \in Nat /\ last >= k /\ last >= lines /\ (last = lines \/ (last = k /\ last > lines))
      BY <2>3
    <2> QED BY <2>1, <2>2, <2>4 DEF k
  <1> HIDE DEF last
  <1>5. border \in [1 .. n + 1 -> Nat]
    <2> SUFFICES ASSUME NEW p \in 1 .. n + 1 PROVE (IF p = n + 1 THEN last ELSE (p - 1) * q) \in Nat
      OBVIOUS
    <2>1. p # n + 1 => p \in 1 .. n
      OBVIOUS
    <2> QED BY <1>3, <1>4, <2>1
  <1>6. border[n + 1] = last /\ \A p \in 1 .. n : border[p] = (p - 1) * q
    OBVIOUS
  <1>7. \A p \in 1 .. n : p # n => p + 1 \in 1 .. n /\ (p + 1) - 1 = p
    OBVIOUS
  <1>8. \A p \in 1 .. n : p # n => border[p + 1] = p * q
    BY <1>6, <1>7
  <1> HIDE DEF border
  <1>9. \A p \in 1 .. n : border[p] <= border[p + 1]
    <2> SUFFICES ASSUME NEW p \in 1 .. n PROVE border[p] <= border[p + 1]
      OBVIOUS
    <2>1. CASE p = n
      BY <1>4, <1>6, <2>1
    <2>2. CASE p # n
      BY <1>3, <1>6, <1>8, <2>2
    <2> QED BY <2>1, <2>2
  <1>10. border[1] = 0 /\ l \in Nat /\ border[1] < l /\ l <= lines /\ l <= border[n + 1]
    <2>1. 1 \in 1 .. n /\ (1 - 1) * q = 0
      BY <1>1
    <2>2. border[1] = 0
      BY <1>6, <2>1
    <2> QED BY <1>4, <1>6, <2>2
  <1>11. Cardinality({p \in 1 .. n : border[p] < l /\ l <= border[p + 1]}) = 1
    BY <1>5, <1>9, <1>10, OneBetween
  <1>12. ASSUME NEW p \in 1 .. n PROVE l \in PageLines(ocr)[p] <=> border[p] < l /\ l <= border[p + 1]
    <2>1. CASE p = n
      <3>1. PageLines(ocr)[p] = (p - 1) * q + 1 .. lines
        BY <1>2, <2>1
      <3>2. border[p] = (p - 1) * q /\ border[p + 1] = last /\ (p - 1) * q \in Nat
        BY <1>3, <1>6, <2>1
      <3> DEFINE k == (p - 1) * q
      <3>3. k \in Nat /\ border[p] = k /\ PageLines(ocr)[p] = k + 1 .. lines
        BY <3>1, <3>2
      <3> HIDE DEF k
      <3> QED BY <1>4, <1>10, <3>2, <3>3
    <2>2. CASE p # n
      <3> DEFINE k == (p - 1) * q
                 e == p * q
      <3>1. k \in Nat /\ e \in Nat /\ border[p] = k /\ border[p + 1] = e
        BY <1>3, <1>6, <1>8, <2>2
      <3>2. PageLines(ocr)[p] = k + 1 .. Min({e, lines})
        BY <1>2, <2>2
      <3> HIDE DEF k, e
      <3>3. Min({e, lines}) \in {e, lines} /\ Min({e, lines}) <= e /\ Min({e, lines}) <= lines
        <4>1. {e, lines} \in SUBSET Nat /\ {e, lines} # {}
          BY <3>1
        <4> QED BY <4>1, MinIsLeast
      <3> QED BY <1>10, <3>1, <3>2, <3>3
    <2> QED BY <2>1, <2>2
  <1>13. {p \in 1 .. n : l \in PageLines(ocr)[p]} = {p \in 1 .. n : border[p] < l /\ l <= border[p + 1]}
    BY <1>12
  <1> QED BY <1>11, <1>13

OcrInv ==
  split.ocr \in {Joined(<<1>>)} \cup PagedResults \cup TextResults

\* The result of the scan unit is what StartScan has loaded.
LEMMA ResultStays ==
  ASSUME SegInv, OcrInv, SegNext
  PROVE  OcrInv'
  <1>1. CASE StartScan
    <2> PICK ocr \in PagedResults \cup TextResults :
           split' = [split EXCEPT !.ocr = ocr, !.status = "processing",
                                  !.at = IF ocr.count > 1 THEN "draft" ELSE "single"]
      BY <1>1 DEF StartScan
    <2>1. split'.ocr = ocr
      BY DEF SegInv, SplitShape
    <2> QED BY <2>1 DEF OcrInv
  <1>2. CASE split'.ocr = split.ocr
    BY <1>2 DEF OcrInv
  <1>3. ASSUME Fail PROVE split'.ocr = split.ocr
    BY <1>3 DEF Fail, SegInv, SplitShape
  <1>4. ASSUME NEW k, NextAttempt(k) PROVE split'.ocr = split.ocr
    BY <1>4 DEF NextAttempt, SegInv, SplitShape
  <1>5. CASE DraftWindow
    BY <1>2, <1>4, <1>5 DEF DraftWindow, SegInv, SplitShape
  <1>6. CASE ReviewWindow
    <2>1. CASE \E results, at : split' = [split EXCEPT !.results = results, !.attempt = 0, !.at = at]
      BY <1>2, <2>1 DEF SegInv, SplitShape
    <2>2. CASE split' = [split EXCEPT !.reviews = @ + 1]
      BY <1>2, <2>2 DEF SegInv, SplitShape
    <2>3. CASE \E k : NextAttempt(k)
      BY <1>2, <1>4, <2>3
    <2> QED BY <1>6, <2>1, <2>2, <2>3 DEF ReviewWindow
  <1>7. CASE MergeWindows
    <2>1. CASE Fail
      BY <1>2, <1>3, <2>1
    <2>2. CASE \E draft : split' = [split EXCEPT !.at = "adjudicate", !.results = << >>, !.draft = draft]
      BY <1>2, <2>2 DEF SegInv, SplitShape
    <2> QED BY <1>7, <2>1, <2>2 DEF MergeWindows
  <1>8. CASE Adjudicate
    <2>1. \E decisions : split' = [split EXCEPT !.decisions = decisions]
      BY <1>8 DEF Adjudicate
    <2> QED BY <1>2, <2>1 DEF SegInv, SplitShape
  <1>9. CASE Segment
    <2>1. ASSUME NEW segments, Segmented(segments) PROVE split'.ocr = split.ocr
      <3>1. CASE Fail
        BY <1>3, <3>1
      <3>2. CASE \E units : split' = [split EXCEPT !.at = "route", !.units = units, !.status = "segmented"]
        BY <3>2 DEF SegInv, SplitShape
      <3> QED BY <2>1, <3>1, <3>2 DEF Segmented
    <2> QED BY <1>2, <1>9, <2>1 DEF Segment
  <1>10. CASE RouteUnits \/ ExtractEntities
    BY <1>2, <1>10 DEF RouteUnits, ExtractEntities, SegInv, SplitShape
  <1>11. CASE ClassifyUnit
    <2>1. \E units : split' = [split EXCEPT !.units = units]
      BY <1>11 DEF ClassifyUnit
    <2> QED BY <1>2, <2>1 DEF SegInv, SplitShape
  <1>12. CASE FinishScan
    <2>1. \E status : split' = [split EXCEPT !.at = "end", !.status = status]
      BY <1>12 DEF FinishScan
    <2> QED BY <1>2, <2>1 DEF SegInv, SplitShape
  <1>13. CASE ModelError
    BY <1>2, <1>3, <1>13 DEF ModelError
  <1> QED BY <1>1, <1>5, <1>6, <1>7, <1>8, <1>9, <1>10, <1>11, <1>12, <1>13 DEF SegNext

\* Every line of the text is on one page, whatever the engine gave: sizes of pages,
\* some of them empty, or a text whose lines do not divide evenly.
THEOREM LinesStayOnTheirPage == SegSpec => []LinesKeepTheirPage
  <1>1. SegInit => OcrInv
    BY DEF SegInit, OcrInv
  <1>2. SegInv /\ OcrInv /\ [SegNext]_segVars => OcrInv'
    <2> SUFFICES ASSUME SegInv, OcrInv, [SegNext]_segVars PROVE OcrInv'
      OBVIOUS
    <2>1. CASE UNCHANGED segVars
      BY <2>1 DEF segVars, OcrInv
    <2> QED BY <2>1, ResultStays
  <1>3. OcrInv => LinesKeepTheirPage
    <2> SUFFICES ASSUME OcrInv PROVE LinesKeepTheirPage
      OBVIOUS
    <2> DEFINE ocr == split.ocr
    <2> SUFFICES ASSUME NEW l \in (1 .. ocr.lines) \ JoinLines(ocr)
                 PROVE  Cardinality({p \in 1 .. ocr.count : l \in PageLines(ocr)[p]}) = 1
      BY DEF LinesKeepTheirPage, Pages
    <2>1. CASE ocr \in TextResults
      <3>1. ocr.count \in Nat \ {0} /\ ocr.lines \in Nat /\ ocr.sizes = << >>
        BY <2>1, SegmentationAssumption DEF TextResults
      <3> HIDE DEF ocr
      <3> QED BY <3>1, EvenLines
    <2>2. ASSUME NEW sizes \in Seq(Nat), sizes # << >>, ocr = Joined(sizes)
          PROVE  Cardinality({p \in 1 .. ocr.count : l \in PageLines(ocr)[p]}) = 1
      <3>1. Len(sizes) \in Nat \ {0} /\ \A q \in 1 .. Len(sizes) : sizes[q] \in Nat
        BY <2>2, LenProperties, ElementOfSeq
      <3> HIDE DEF ocr
      <3>2. l \in (1 .. Joined(sizes).lines) \ JoinLines(Joined(sizes))
        BY <2>2
      <3>3. Cardinality({p \in 1 .. Joined(sizes).count : l \in PageLines(Joined(sizes))[p]}) = 1
        BY <2>2, <3>1, <3>2, PagedLines
      <3> QED BY <2>2, <3>3
    <2>3. CASE ocr \in PagedResults
      <3> PICK n \in 1 .. MaxPages : \E z \in [1 .. n -> 0 .. MaxLines] : ocr = Joined(z)
        BY <2>3 DEF PagedResults
      <3> PICK z \in [1 .. n -> 0 .. MaxLines] : ocr = Joined(z)
        OBVIOUS
      <3> HIDE DEF ocr
      <3>1. n \in Nat \ {0} /\ z \in [1 .. n -> Nat]
        BY SegmentationAssumption
      <3>2. z \in Seq(Nat)
        BY <3>1, SeqDef
      <3>3. 1 \in DOMAIN z
        BY <3>1
      <3> QED BY <2>2, <3>2, <3>3
    <2>4. CASE ocr = Joined(<<1>>)
      <3>1. <<1>> \in Seq(Nat) /\ <<1>> # << >>
        OBVIOUS
      <3> HIDE DEF ocr
      <3> QED BY <2>2, <2>4, <3>1
    <2> QED BY <2>1, <2>2, <2>3, <2>4 DEF OcrInv
  <1>4. SegSpec => []OcrInv
    BY <1>1, <1>2, SegInvHolds, PTL DEF SegSpec
  <1> QED BY <1>3, <1>4, PTL

-----------------------------------------------------------------------------
(* ArchiveAgent: the trace of tool calls and the citations of the answer.       *)

\* What the trace and the answer of a run are made of.
Statuses == {"ok", "vision_not_allowed_by_user", "repeated_tool_skipped", "tool_budget_exhausted"}
StepTools == ToolNames \cup {"automatic_retrieve_evidence"}
Stages == {"retrieve", "read", "loop", "forced", "answered", "incomplete", "closed"}
AgentCall == [tool : StepTools, arg : AgentPages \cup Queries \cup {0}]
ReadCall(call) == call.tool \in ToolNames /\ (call.tool \in Reading => call.arg \in AgentPages)
Step == [tool : StepTools, arg : AgentPages \cup Queries \cup {0}, ran : BOOLEAN, error : BOOLEAN,
         page : Nat, text : BOOLEAN, status : Statuses]
Final == [answer : BOOLEAN, reasoning : BOOLEAN, negative : BOOLEAN, cites : SUBSET Ranges,
          page : AgentPages \cup {0}]
AgentTypeOK ==
  /\ chat \in [stage : Stages, allowVision : BOOLEAN, left : Seq(AgentPages), pages : {chat.pages},
               blocks : {chat.blocks}, trace : Seq(Step), seen : {chat.seen}, budget : {chat.budget},
               step : {chat.step}, blocked : {chat.blocked}, visions : {chat.visions},
               final : Final, stored : {"none", "answered", "incomplete"}]

\* A step that read a page without error ran, on the page it was asked for.
Honest(s) == s.tool \in Reading /\ ~s.error /\ s.page # 0 => s.ran /\ s.arg = s.page
TraceIsHonest(trace) == \A i \in DOMAIN trace : Honest(trace[i])

\* What an answer that passes the validation has behind it.
Cited(trace, final) ==
  IF final.cites = {} THEN final.negative
  ELSE \A c \in final.cites : \E i \in DOMAIN trace :
         trace[i].ran /\ ~trace[i].error /\ trace[i].text /\ trace[i].arg \in c.from .. c.to

\* The inductive invariant.
AgentInv ==
  /\ AgentTypeOK
  /\ TraceIsHonest(chat.trace)
  /\ chat.stage = "answered" => Cited(chat.trace, chat.final)
  /\ chat.stored = "answered" => chat.stage = "answered"

Output == [ran : BOOLEAN, error : BOOLEAN, page : Nat, text : BOOLEAN, status : Statuses]

LEMMA BlankFields ==
  /\ Blank \in Output /\ Blank.ran /\ ~Blank.error /\ Blank.page = 0
  /\ Raised \in Output /\ Raised.error
  /\ \A status \in Statuses : SkippedOutput(status) \in Output /\ SkippedOutput(status).page = 0
  <1>1. Blank \in Output /\ Blank.ran /\ ~Blank.error /\ Blank.page = 0
    BY DEF Blank, Output, Statuses
  <1>2. Raised \in Output /\ Raised.error
    BY <1>1 DEF Raised, Output
  <1>3. ASSUME NEW status \in Statuses
        PROVE  SkippedOutput(status) \in Output /\ SkippedOutput(status).page = 0
    BY <1>1 DEF SkippedOutput, Output, Statuses
  <1> QED BY <1>1, <1>2, <1>3

LEMMA StepFields ==
  ASSUME NEW call \in AgentCall, NEW out \in Output
  PROVE  /\ TraceStep(call, out) \in Step
         /\ (call.tool \in Reading /\ ~out.error /\ out.page # 0 => out.ran /\ call.arg = out.page)
              => Honest(TraceStep(call, out))
  BY DEF TraceStep, Step, Output, AgentCall, Honest

LEMMA OutputsAreHonest ==
  ASSUME NEW call \in AgentCall, ReadCall(call), NEW allow \in BOOLEAN, NEW out \in Outputs(call, allow)
  PROVE  TraceStep(call, out) \in Step /\ Honest(TraceStep(call, out))
  <1>1. CASE out = [SkippedOutput("vision_not_allowed_by_user") EXCEPT !.ran = TRUE]
    <2> DEFINE skipped == SkippedOutput("vision_not_allowed_by_user")
    <2>1. skipped \in Output /\ skipped.page = 0
      BY BlankFields DEF Statuses
    <2> HIDE DEF skipped
    <2>2. out \in Output /\ out.page = 0
      BY <1>1, <2>1 DEF Output, skipped
    <2> QED BY <2>2, StepFields
  <1>2. CASE out = Raised \/ (call.tool \notin Reading /\ out = Blank)
    BY <1>2, BlankFields, StepFields
  <1>3. CASE call.tool \in Reading /\ \E t \in BOOLEAN : out = [Blank EXCEPT !.page = call.arg, !.text = t]
    <2>1. call.arg \in AgentPages /\ call.arg \in Nat
      BY <1>3, AgentAssumption DEF ReadCall
    <2>2. out \in Output /\ out.ran /\ out.page = call.arg
      BY <1>3, <2>1, BlankFields DEF Output
    <2> QED BY <2>2, StepFields
  <1> QED BY <1>1, <1>2, <1>3 DEF Outputs

LEMMA SkipsAreHonest ==
  ASSUME NEW call \in AgentCall, NEW status \in Statuses
  PROVE  TraceStep(call, SkippedOutput(status)) \in Step /\ Honest(TraceStep(call, SkippedOutput(status)))
  BY BlankFields, StepFields

LEMMA AppendHonest ==
  ASSUME NEW trace \in Seq(Step), TraceIsHonest(trace), NEW s \in Step, Honest(s)
  PROVE  Append(trace, s) \in Seq(Step) /\ TraceIsHonest(Append(trace, s))
  BY DEF TraceIsHonest

LEMMA CallsAreCalls ==
  ASSUME NEW call \in Calls
  PROVE  call \in AgentCall /\ ReadCall(call)
  <1>1. PageTools \subseteq ToolNames /\ Reading \subseteq PageTools
    BY DEF ToolNames, PageTools, Reading, ToolCategory
  <1>2. CASE call \in {[tool |-> t, arg |-> a] : t \in PageTools, a \in AgentPages}
    BY <1>1, <1>2 DEF AgentCall, ReadCall, StepTools
  <1>3. CASE call \in {[tool |-> t, arg |-> q] : t \in ToolNames \ PageTools, q \in Queries}
    BY <1>1, <1>3 DEF AgentCall, ReadCall, StepTools
  <1> QED BY <1>2, <1>3 DEF Calls

LEMMA FinalIsFinal ==
  ASSUME NEW a \in BOOLEAN, NEW r \in BOOLEAN, NEW n \in BOOLEAN, NEW c \in SUBSET Ranges,
         NEW p \in AgentPages \cup {0}
  PROVE  [answer |-> a, reasoning |-> r, negative |-> n, cites |-> c, page |-> p] \in Final
  BY DEF Final

LEMMA FinalsAreFinals ==
  ASSUME NEW proposed \in Finals
  PROVE  Normalize(proposed) \in Final
  <1>1. proposed \in Final
    <2>1. Citations \subseteq SUBSET Ranges
      BY DEF Citations, Ranges
    <2>2. CASE proposed \in {[answer |-> a, reasoning |-> ~a, negative |-> n, cites |-> c, page |-> 0] :
                               a \in BOOLEAN, n \in BOOLEAN, c \in Citations}
      <3> PICK a \in BOOLEAN, n \in BOOLEAN, c \in Citations :
             proposed = [answer |-> a, reasoning |-> ~a, negative |-> n, cites |-> c, page |-> 0]
        BY <2>2
      <3>1. (~a) \in BOOLEAN
        OBVIOUS
      <3> QED BY <2>1, <3>1, FinalIsFinal
    <2>3. CASE proposed \in {[answer |-> TRUE, reasoning |-> FALSE, negative |-> FALSE,
                               cites |-> {}, page |-> p] : p \in AgentPages}
      <3> PICK p \in AgentPages :
             proposed = [answer |-> TRUE, reasoning |-> FALSE, negative |-> FALSE, cites |-> {}, page |-> p]
        BY <2>3
      <3> QED BY FinalIsFinal
    <2> QED BY <2>2, <2>3 DEF Finals
  <1>2. proposed.page # 0 => [from |-> proposed.page, to |-> proposed.page] \in Ranges
    BY <1>1 DEF Final, Ranges
  <1> QED BY <1>1, <1>2 DEF Normalize, Final

LEMMA GroundedIsRead ==
  ASSUME NEW trace \in Seq(Step), TraceIsHonest(trace), NEW c \in Ranges, Grounded(trace, c)
  PROVE  \E i \in DOMAIN trace :
           trace[i].ran /\ ~trace[i].error /\ trace[i].text /\ trace[i].arg \in c.from .. c.to
  <1> DEFINE reads == {i \in DOMAIN trace : /\ trace[i].tool \in Reading /\ ~trace[i].error
                                            /\ trace[i].page \in c.from .. c.to}
  <1>1. reads # {} /\ trace[Min(reads)].text
    BY DEF Grounded
  <1>2. reads \in SUBSET Nat
    OBVIOUS
  <1>3. Min(reads) \in reads
    BY <1>1, <1>2, MinIsLeast
  <1> PICK i \in reads : i = Min(reads)
    BY <1>3
  <1>4. c.from \in Nat \ {0} /\ trace[i].page # 0
    <2>1. c.from \in AgentPages /\ c.to \in AgentPages
      BY DEF Ranges
    <2>2. c.from \in Nat \ {0} /\ c.to \in Nat
      BY <2>1, AgentAssumption
    <2>3. trace[i].page \in c.from .. c.to
      OBVIOUS
    <2> DEFINE a == c.from
               b == c.to
               p == trace[i].page
    <2>4. a \in Nat \ {0} /\ b \in Nat /\ p \in a .. b
      BY <2>2, <2>3
    <2> HIDE DEF a, b, p
    <2>5. p # 0
      BY <2>4
    <2> QED BY <2>2, <2>5 DEF p
  <1> QED BY <1>1, <1>4 DEF TraceIsHonest, Honest

LEMMA ValidIsCited ==
  ASSUME NEW trace \in Seq(Step), TraceIsHonest(trace), NEW final \in Final, ValidFinal(final, trace)
  PROVE  Cited(trace, final)
  BY GroundedIsRead DEF ValidFinal, SupportedNegative, Cited, Final

LEMMA PreparationKeeps ==
  ASSUME AgentInv, AutoRetrieve \/ AutoRead \/ OpenLoop
  PROVE  AgentInv'
  <1>1. /\ chat.trace \in Seq(Step) /\ chat.left \in Seq(AgentPages)
        /\ chat.stored = "none" \/ chat.stored = "incomplete" \/ chat.stage = "answered"
    BY DEF AgentInv, AgentTypeOK
  <1>2. ASSUME AutoRetrieve PROVE AgentInv'
    <2> DEFINE fails == TraceStep([tool |-> "automatic_retrieve_evidence", arg |-> 0], Raised)
    <2>1. CASE chat' = [chat EXCEPT !.stage = "loop", !.trace = <<fails>>]
      <3>1. fails \in Step /\ Honest(fails)
        <4> DEFINE call == [tool |-> "automatic_retrieve_evidence", arg |-> 0]
        <4>1. call \in AgentCall /\ call.tool \notin Reading
          BY DEF AgentCall, StepTools, Reading
        <4> HIDE DEF call
        <4>2. TraceStep(call, Raised) \in Step /\ Honest(TraceStep(call, Raised))
          BY <4>1, BlankFields, StepFields
        <4> QED BY <4>2 DEF call
      <3> HIDE DEF fails
      <3>2. <<fails>> \in Seq(Step) /\ TraceIsHonest(<<fails>>)
        BY <3>1 DEF TraceIsHonest
      <3>3. chat'.stage = "loop" /\ chat'.trace = <<fails>> /\ chat'.stored = chat.stored
        BY <2>1 DEF AgentInv, AgentTypeOK
      <3>4. AgentTypeOK'
        BY <2>1, <3>2 DEF AgentInv, AgentTypeOK, Stages
      <3> QED BY <1>1, <1>2, <3>2, <3>3, <3>4 DEF AgentInv, AutoRetrieve
    <2>2. CASE \E found \in SeqOf(AgentPages, 2), q \in Queries :
                 chat' = [chat EXCEPT !.stage = "read", !.left = found,
                     !.seen = {[tool |-> "retrieve_evidence", arg |-> q]},
                     !.trace = <<TraceStep([tool |-> "retrieve_evidence", arg |-> q], Blank)>>]
      <3> PICK found \in SeqOf(AgentPages, 2), q \in Queries :
                 chat' = [chat EXCEPT !.stage = "read", !.left = found,
                     !.seen = {[tool |-> "retrieve_evidence", arg |-> q]},
                     !.trace = <<TraceStep([tool |-> "retrieve_evidence", arg |-> q], Blank)>>]
        BY <2>2
      <3> DEFINE call == [tool |-> "retrieve_evidence", arg |-> q]
                 first == TraceStep(call, Blank)
      <3>1. call \in AgentCall /\ call.tool \notin Reading
        BY DEF AgentCall, StepTools, ToolNames, ToolCategory, Reading
      <3>2. found \in Seq(AgentPages)
        <4> PICK m \in 0..2 : found \in [1..m -> AgentPages]
          BY DEF SeqOf
        <4> QED OBVIOUS
      <3>3. chat' = [chat EXCEPT !.stage = "read", !.left = found, !.seen = {call}, !.trace = <<first>>]
        OBVIOUS
      <3> HIDE DEF call
      <3>4. first \in Step /\ Honest(first)
        BY <3>1, BlankFields, StepFields
      <3> HIDE DEF first
      <3>5. <<first>> \in Seq(Step) /\ TraceIsHonest(<<first>>)
        BY <3>4 DEF TraceIsHonest
      <3>6. chat'.stage = "read" /\ chat'.trace = <<first>> /\ chat'.stored = chat.stored
        BY <3>3 DEF AgentInv, AgentTypeOK
      <3>7. AgentTypeOK'
        BY <3>2, <3>3, <3>5 DEF AgentInv, AgentTypeOK, Stages
      <3> QED BY <1>1, <1>2, <3>5, <3>6, <3>7 DEF AgentInv, AutoRetrieve
    <2> QED BY <1>2, <2>1, <2>2 DEF AutoRetrieve
  <1>3. ASSUME AutoRead PROVE AgentInv'
    <2> DEFINE call == [tool |-> "get_page_text", arg |-> Head(chat.left)]
               rest == [chat EXCEPT !.left = Tail(@), !.pages = @ \cup {call.arg}]
    <2>1. chat.stage = "read" /\ chat.left # <<>>
      BY <1>3 DEF AutoRead
    <2>2. Head(chat.left) \in AgentPages /\ Tail(chat.left) \in Seq(AgentPages)
      BY <1>1, <2>1
    <2>3. call \in AgentCall /\ ReadCall(call)
      BY <2>2 DEF AgentCall, StepTools, ReadCall, ToolNames, ToolCategory
    <2>4. \/ chat' = rest
          \/ \E out \in Outputs(call, FALSE) :
               chat' = [rest EXCEPT !.trace = Append(@, TraceStep(call, out)),
                           !.seen = IF out.error THEN @ ELSE @ \cup {call},
                           !.blocks = IF out.error THEN @ ELSE @ + 1]
      BY <1>3 DEF AutoRead
    <2> HIDE DEF call
    <2>5. /\ rest \in [stage : Stages, allowVision : BOOLEAN, left : Seq(AgentPages), pages : {rest.pages},
               blocks : {rest.blocks}, trace : Seq(Step), seen : {rest.seen}, budget : {rest.budget},
               step : {rest.step}, blocked : {rest.blocked}, visions : {rest.visions},
               final : Final, stored : {"none", "answered", "incomplete"}]
          /\ rest.trace = chat.trace /\ rest.stage = chat.stage /\ rest.stored = chat.stored
      BY <2>2 DEF AgentInv, AgentTypeOK
    <2> HIDE DEF rest
    <2>6. CASE chat' = rest
      <3>1. AgentTypeOK'
        BY <2>5, <2>6 DEF AgentTypeOK
      <3> QED BY <1>1, <2>1, <2>5, <2>6, <3>1 DEF AgentInv
    <2>7. CASE \E out \in Outputs(call, FALSE) :
               chat' = [rest EXCEPT !.trace = Append(@, TraceStep(call, out)),
                           !.seen = IF out.error THEN @ ELSE @ \cup {call},
                           !.blocks = IF out.error THEN @ ELSE @ + 1]
      <3> PICK out \in Outputs(call, FALSE) :
               chat' = [rest EXCEPT !.trace = Append(@, TraceStep(call, out)),
                           !.seen = IF out.error THEN @ ELSE @ \cup {call},
                           !.blocks = IF out.error THEN @ ELSE @ + 1]
        BY <2>7
      <3>1. TraceStep(call, out) \in Step /\ Honest(TraceStep(call, out))
        BY <2>3, OutputsAreHonest
      <3> DEFINE trace == Append(chat.trace, TraceStep(call, out))
      <3>2. trace \in Seq(Step) /\ TraceIsHonest(trace)
        BY <1>1, <3>1, AppendHonest DEF AgentInv
      <3>3. chat'.trace = trace /\ chat'.stage = "read" /\ chat'.stored = chat.stored
        BY <2>1, <2>5
      <3> HIDE DEF trace
      <3>4. AgentTypeOK'
        BY <2>5, <3>2, <3>3 DEF AgentTypeOK
      <3> QED BY <1>1, <2>1, <3>2, <3>3, <3>4 DEF AgentInv
    <2> QED BY <2>4, <2>6, <2>7
  <1>4. ASSUME OpenLoop PROVE AgentInv'
    <2>1. chat' = [chat EXCEPT !.stage = "loop", !.left = <<>>, !.budget = BudgetFromTrace(chat.trace)]
          /\ chat.stage = "read"
      BY <1>4 DEF OpenLoop
    <2>2. chat'.stage = "loop" /\ chat'.trace = chat.trace /\ chat'.stored = chat.stored
      BY <2>1 DEF AgentInv, AgentTypeOK
    <2>3. AgentTypeOK'
      <3>1. PICK b : chat' = [chat EXCEPT !.stage = "loop", !.left = <<>>, !.budget = b]
        BY <2>1
      <3>2. <<>> \in Seq(AgentPages) /\ "loop" \in Stages
        BY DEF Stages
      <3> QED BY <3>1, <3>2 DEF AgentInv, AgentTypeOK
    <2> QED BY <1>1, <2>1, <2>2, <2>3 DEF AgentInv
  <1> QED BY <1>2, <1>3, <1>4

LEMMA UseToolKeeps ==
  ASSUME AgentInv, NEW call \in Calls, UseTool(call)
  PROVE  AgentInv'
  <1> DEFINE over == OverBudget(chat.budget, call.tool)
             outs == IF call \in chat.seen THEN {SkippedOutput("repeated_tool_skipped")}
                     ELSE IF over THEN {SkippedOutput("tool_budget_exhausted")}
                     ELSE Outputs(call, chat.allowVision)
             skip == call \in chat.seen \/ over
  <1>1. PICK out \in outs :
           chat' = [chat EXCEPT !.step = @ + 1, !.seen = @ \cup {call},
                      !.budget = IF call \in chat.seen THEN @ ELSE Consume(@, call.tool),
                      !.trace = Append(@, TraceStep(call, out)),
                      !.visions = IF call.tool = "request_page_vision" /\ out = Blank
                                  THEN @ \cup {call.arg} ELSE @,
                      !.blocked = IF skip THEN @ + 1 ELSE 0,
                      !.stage = IF skip /\ chat.blocked = 1 THEN "forced" ELSE @]
    BY DEF UseTool
  <1>2. chat.stage = "loop" /\ chat.allowVision \in BOOLEAN /\ chat.trace \in Seq(Step)
    BY DEF UseTool, InLoop, AgentInv, AgentTypeOK
  <1>3. call \in AgentCall /\ ReadCall(call)
    BY CallsAreCalls
  <1>4. TraceStep(call, out) \in Step /\ Honest(TraceStep(call, out))
    BY <1>2, <1>3, OutputsAreHonest, SkipsAreHonest DEF Statuses
  <1> DEFINE trace == Append(chat.trace, TraceStep(call, out))
  <1>5. trace \in Seq(Step) /\ TraceIsHonest(trace)
    BY <1>2, <1>4, AppendHonest DEF AgentInv
  <1> HIDE DEF over, outs, skip
  <1>6. chat'.trace = trace /\ chat'.stage \in {"loop", "forced"} /\ chat'.stored = chat.stored
    BY <1>1, <1>2 DEF AgentInv, AgentTypeOK
  <1> HIDE DEF trace
  <1>7. AgentTypeOK'
    BY <1>1, <1>2, <1>5, <1>6 DEF AgentInv, AgentTypeOK, Stages
  <1> QED BY <1>2, <1>5, <1>6, <1>7 DEF AgentInv

LEMMA FinalKeeps ==
  ASSUME AgentInv, NEW final \in Final, ValidFinal(final, chat.trace), chat.stage \in {"loop", "forced"},
         NEW n, \/ chat' = [chat EXCEPT !.step = n, !.final = final, !.stage = "answered"]
                \/ chat' = [chat EXCEPT !.final = final, !.stage = "answered"]
  PROVE  AgentInv'
  <1>1. chat.trace \in Seq(Step)
    BY DEF AgentInv, AgentTypeOK
  <1>2. Cited(chat.trace, final)
    BY <1>1, ValidIsCited DEF AgentInv
  <1>3. chat'.trace = chat.trace /\ chat'.final = final /\ chat'.stage = "answered"
    BY DEF AgentInv, AgentTypeOK
  <1>4. AgentTypeOK'
    BY ZenonT(40) DEF AgentInv, AgentTypeOK, Stages
  <1> QED BY <1>2, <1>3, <1>4 DEF AgentInv

LEMMA ChatEndingKeeps ==
  ASSUME AgentInv,
         \/ \E final \in Finals : ProposeFinal(final)
         \/ ModelFails \/ OutOfSteps \/ ForceFinal \/ Persist \/ Disconnect
  PROVE  AgentInv'
  <1>1. CASE /\ UNCHANGED <<chat.trace, chat.final, chat.stored>>
             /\ chat'.stage = chat.stage \/ (chat.stored # "answered" /\ chat'.stage # "answered")
             /\ AgentTypeOK'
    BY <1>1 DEF AgentInv, Cited, TraceIsHonest
  <1>2. CASE \E final \in Finals : ProposeFinal(final)
    <2> PICK proposed \in Finals : ProposeFinal(proposed)
      BY <1>2
    <2>1. Normalize(proposed) \in Final /\ chat.stage = "loop"
      BY FinalsAreFinals DEF ProposeFinal, InLoop
    <2>2. CASE ValidFinal(Normalize(proposed), chat.trace)
      <3>1. chat' = [chat EXCEPT !.step = @ + 1, !.final = Normalize(proposed), !.stage = "answered"]
        BY <2>2 DEF ProposeFinal
      <3> QED BY <2>1, <2>2, <3>1, FinalKeeps
    <2>3. CASE chat' = [chat EXCEPT !.step = @ + 1]
      BY <1>1, <2>3 DEF AgentInv, AgentTypeOK
    <2> QED BY <2>2, <2>3 DEF ProposeFinal
  <1>3. CASE ForceFinal
    <2>1. CASE chat' = [chat EXCEPT !.stage = "incomplete"]
      BY <1>1, <1>3, <2>1 DEF ForceFinal, AgentInv, AgentTypeOK, Stages
    <2>2. CASE \E proposed \in Finals :
                 /\ ValidFinal(Normalize(proposed), chat.trace)
                 /\ chat' = [chat EXCEPT !.final = Normalize(proposed), !.stage = "answered"]
      BY <1>3, <2>2, FinalsAreFinals, FinalKeeps DEF ForceFinal
    <2> QED BY <1>3, <2>1, <2>2 DEF ForceFinal
  <1>4. CASE ModelFails
    BY <1>1, <1>4 DEF ModelFails, InLoop, AgentInv, AgentTypeOK, Stages
  <1>5. CASE OutOfSteps
    BY <1>1, <1>5 DEF OutOfSteps, AgentInv, AgentTypeOK, Stages
  <1>6. CASE Disconnect
    BY <1>1, <1>6 DEF Disconnect, AgentInv, AgentTypeOK, Stages
  <1>7. CASE Persist
    <2>1. chat.stage \in {"answered", "incomplete"} /\ chat' = [chat EXCEPT !.stored = chat.stage]
      BY <1>7 DEF Persist
    <2>2. /\ UNCHANGED <<chat.trace, chat.final, chat.stage>> /\ chat'.stored = chat.stage
          /\ AgentTypeOK'
      BY <2>1 DEF AgentInv, AgentTypeOK
    <2> QED BY <2>2 DEF AgentInv, Cited, TraceIsHonest
  <1> QED BY <1>2, <1>3, <1>4, <1>5, <1>6, <1>7

LEMMA AgentInvHolds == AgentSpec => []AgentInv
  <1>1. AgentInit => AgentInv
    <2> SUFFICES ASSUME AgentInit PROVE AgentInv
      OBVIOUS
    <2> PICK v \in BOOLEAN :
          chat = [stage |-> "retrieve", allowVision |-> v, left |-> <<>>, pages |-> {}, blocks |-> 0,
                  trace |-> <<>>, seen |-> {}, budget |-> NoCalls, step |-> 0, blocked |-> 0,
                  visions |-> {}, final |-> NoFinal, stored |-> "none"]
      BY DEF AgentInit
    <2>1. NoFinal \in Final
      BY FinalIsFinal DEF NoFinal
    <2>2. AgentTypeOK
      BY <2>1 DEF AgentTypeOK, Stages
    <2> QED BY <2>2 DEF AgentInv, TraceIsHonest
  <1>2. AgentInv /\ [AgentNext]_agentVars => AgentInv'
    <2> SUFFICES ASSUME AgentInv, [AgentNext]_agentVars PROVE AgentInv'
      OBVIOUS
    <2>1. CASE UNCHANGED agentVars
      BY <2>1 DEF agentVars, AgentInv, AgentTypeOK, TraceIsHonest, Cited
    <2>2. CASE AgentNext
      BY <2>2, PreparationKeeps, UseToolKeeps, ChatEndingKeeps DEF AgentNext
    <2> QED BY <2>1, <2>2
  <1> QED BY <1>1, <1>2, PTL DEF AgentSpec

\* An answer is stored only with citations of pages that a tool really read and
\* found text on, or as a negative one: skipped, refused and failed calls leave
\* steps in the trace that support nothing.
THEOREM AnswersCiteReadPages == AgentSpec => []CitedPagesWereRead
  <1>1. AgentInv => CitedPagesWereRead
    BY DEF AgentInv, Cited, CitedPagesWereRead, Ran
  <1> QED BY <1>1, AgentInvHolds, PTL

-----------------------------------------------------------------------------
(* ArchiveAgent: the budget of tool calls.                                    *)

\* The calls of a trace that really ran, by their tools.
RanWith(trace, k, S) == {i \in 1 .. k : trace[i].tool \in S /\ trace[i].ran /\ ~trace[i].error}
RanIn(trace, S) == RanWith(trace, Len(trace), S)
Kinds == {"search", "read", "specialist", "vision"}
Of(c) == {t \in ToolNames : ToolCategory[t] = c}
Budget == [total : Nat, used : [Kinds -> Nat]]

\* The budget has paid for what a trace used, and is within the limits.
Paid(trace, b) ==
  /\ b \in Budget
  /\ Cardinality(RanIn(trace, ToolNames)) <= b.total /\ b.total <= MaxToolCalls
  /\ \A c \in Kinds : Cardinality(RanIn(trace, Of(c))) <= b.used[c] /\ b.used[c] <= Limit[c]

\* The preparation makes one search and at most so many readings.
Automatic(blocks) == [search |-> 1, read |-> blocks, specialist |-> 0, vision |-> 0]
Prepared(trace, blocks) ==
  /\ blocks \in 0 .. AutoPages
  /\ \A i \in DOMAIN trace : trace[i].ran /\ trace[i].tool \in CountedAtStart
  /\ Cardinality(RanIn(trace, ToolNames)) <= 1 + blocks
  /\ \A c \in Kinds : Cardinality(RanIn(trace, Of(c))) <= Automatic(blocks)[c]

Remembered(trace, seen) ==
  \A i \in DOMAIN trace : trace[i].ran /\ ~trace[i].error => [tool |-> trace[i].tool, arg |-> trace[i].arg] \in seen
EachOnce(trace) ==
  \A i, j \in DOMAIN trace :
    i # j /\ trace[i].ran /\ ~trace[i].error /\ trace[j].ran /\ ~trace[j].error
      => trace[i].tool # trace[j].tool \/ trace[i].arg # trace[j].arg

\* The inductive invariant of the budget.
EffortInv ==
  /\ Remembered(chat.trace, chat.seen) /\ EachOnce(chat.trace)
  /\ chat.stage = "retrieve" => chat.trace = <<>> /\ chat.budget = NoCalls /\ chat.blocks = 0 /\ chat.pages = {}
  /\ chat.stage = "read" =>
       /\ Prepared(chat.trace, chat.blocks)
       /\ \A i \in DOMAIN chat.trace : chat.trace[i].tool = "get_page_text" => chat.trace[i].arg \in chat.pages
  /\ chat.stage \notin {"retrieve", "read"} => Paid(chat.trace, chat.budget)

LEMMA KindsOfTools ==
  /\ DOMAIN Limit = Kinds /\ \A c \in Kinds : Limit[c] \in Nat
  /\ \A t \in ToolNames : ToolCategory[t] \in Kinds
  /\ CountedAtStart \subseteq ToolNames
  /\ ToolCategory["retrieve_evidence"] = "search" /\ ToolCategory["get_page_text"] = "read"
  /\ NoCalls \in Budget /\ NoCalls.total = 0 /\ \A c \in Kinds : NoCalls.used[c] = 0
  /\ "automatic_retrieve_evidence" \notin ToolNames
  <1>1. DOMAIN Limit = Kinds /\ \A c \in Kinds : Limit[c] \in Nat
    BY BudgetAssumption DEF Limit, Kinds
  <1>2. NoCalls \in Budget /\ NoCalls.total = 0 /\ \A c \in Kinds : NoCalls.used[c] = 0
    BY <1>1 DEF NoCalls, Budget
  <1>3. /\ CountedAtStart \subseteq ToolNames /\ "automatic_retrieve_evidence" \notin ToolNames
        /\ ToolCategory["retrieve_evidence"] = "search" /\ ToolCategory["get_page_text"] = "read"
    BY DEF CountedAtStart, ToolNames, ToolCategory
  <1>4. \A t \in ToolNames : ToolCategory[t] \in Kinds
    BY DEF ToolNames, ToolCategory, Kinds
  <1> QED BY <1>1, <1>2, <1>3, <1>4

\* Counting the calls that ran, one step of the trace after the other.
LEMMA CountedTo ==
  ASSUME NEW trace, NEW k \in Nat, NEW S
  PROVE  /\ Cardinality(RanWith(trace, k, S)) \in Nat
         /\ Cardinality(RanWith(trace, k + 1, S)) = Cardinality(RanWith(trace, k, S))
              + IF trace[k + 1].tool \in S /\ trace[k + 1].ran /\ ~trace[k + 1].error THEN 1 ELSE 0
  <1> DEFINE before == RanWith(trace, k, S)
             now == RanWith(trace, k + 1, S)
             s == trace[k + 1]
  <1>1. IsFiniteSet(before)
    <2>1. IsFiniteSet(1 .. k)
      BY FS_Interval
    <2> QED BY <2>1, FS_Subset DEF RanWith
  <1>2. Cardinality(before) \in Nat
    BY <1>1, FS_CardinalityType
  <1>3. CASE s.tool \in S /\ s.ran /\ ~s.error
    <2>1. now = before \cup {k + 1} /\ k + 1 \notin before
      BY <1>3 DEF RanWith
    <2> HIDE DEF now, before
    <2>2. Cardinality(now) = Cardinality(before) + 1
      BY <1>1, <2>1, FS_AddElement
    <2> QED BY <1>2, <1>3, <2>2 DEF now, before
  <1>4. CASE ~(s.tool \in S /\ s.ran /\ ~s.error)
    <2>1. now = before
      BY <1>4 DEF RanWith
    <2> HIDE DEF now, before
    <2>2. Cardinality(now) = Cardinality(before) + 0
      BY <1>2, <2>1
    <2> QED BY <1>2, <1>4, <2>2 DEF now, before
  <1> QED BY <1>3, <1>4

LEMMA CountedWith ==
  ASSUME NEW trace \in Seq(Step), NEW s \in Step, NEW S
  PROVE  /\ Cardinality(RanIn(trace, S)) \in Nat
         /\ Cardinality(RanIn(Append(trace, s), S)) = Cardinality(RanIn(trace, S))
              + IF s.tool \in S /\ s.ran /\ ~s.error THEN 1 ELSE 0
  <1> DEFINE longer == Append(trace, s)
             n == Len(trace)
  <1>1. n \in Nat /\ Len(longer) = n + 1 /\ longer[n + 1] = s /\ \A i \in 1 .. n : longer[i] = trace[i]
    BY AppendProperties, LenProperties
  <1> HIDE DEF longer, n
  <1>2. RanWith(longer, n, S) = RanWith(trace, n, S)
    BY <1>1 DEF RanWith
  <1>3. /\ Cardinality(RanWith(longer, n, S)) \in Nat
        /\ Cardinality(RanWith(longer, n + 1, S)) = Cardinality(RanWith(longer, n, S))
             + IF longer[n + 1].tool \in S /\ longer[n + 1].ran /\ ~longer[n + 1].error THEN 1 ELSE 0
    BY <1>1, CountedTo
  <1>4. RanIn(longer, S) = RanWith(longer, n + 1, S) /\ RanIn(trace, S) = RanWith(trace, n, S)
    BY <1>1 DEF RanIn, n
  <1>5. /\ Cardinality(RanIn(trace, S)) \in Nat
        /\ Cardinality(RanIn(longer, S)) = Cardinality(RanIn(trace, S))
             + IF s.tool \in S /\ s.ran /\ ~s.error THEN 1 ELSE 0
    BY <1>1, <1>2, <1>3, <1>4
  <1> QED BY <1>5 DEF longer

LEMMA NothingRan ==
  ASSUME NEW trace, NEW k \in Nat, NEW S, \A i \in 1 .. k : trace[i].error \/ trace[i].tool \notin S
  PROVE  Cardinality(RanWith(trace, k, S)) = 0
  <1>1. RanWith(trace, k, S) = {}
    BY DEF RanWith
  <1> QED BY <1>1, FS_EmptySet

\* Consume counts a call unless the budget is used up.
LEMMA Consumed ==
  ASSUME NEW b \in Budget, NEW tool \in ToolNames
  PROVE  /\ Consume(b, tool) \in Budget
         /\ OverBudget(b, tool) => Consume(b, tool) = b
         /\ ~OverBudget(b, tool) =>
              /\ Consume(b, tool).total = b.total + 1 /\ Consume(b, tool).total <= MaxToolCalls
              /\ b.used[ToolCategory[tool]] < Limit[ToolCategory[tool]]
              /\ \A c \in Kinds : Consume(b, tool).used[c] =
                                    b.used[c] + IF ToolCategory[tool] = c THEN 1 ELSE 0
  <1>1. ToolCategory[tool] \in Kinds /\ Limit[ToolCategory[tool]] \in Nat /\ MaxToolCalls \in Nat
    BY KindsOfTools, BudgetAssumption
  <1> DEFINE k == ToolCategory[tool]
             used == [b.used EXCEPT ![k] = @ + 1]
  <1>2. b.total \in Nat /\ b.used \in [Kinds -> Nat]
    BY DEF Budget
  <1>3. used \in [Kinds -> Nat] /\ \A c \in Kinds : used[c] = b.used[c] + IF k = c THEN 1 ELSE 0
    BY <1>1, <1>2
  <1>4. b.used[k] \in Nat /\ (~(b.total >= MaxToolCalls) => b.total + 1 <= MaxToolCalls)
        /\ (~(b.used[k] >= Limit[k]) => b.used[k] < Limit[k])
    BY <1>1, <1>2
  <1>5. Consume(b, tool) = IF OverBudget(b, tool) THEN b ELSE [total |-> b.total + 1, used |-> used]
    BY DEF Consume
  <1>6. OverBudget(b, tool) <=> b.total >= MaxToolCalls \/ b.used[k] >= Limit[k]
    BY DEF OverBudget
  <1> HIDE DEF used, k
  <1>7. CASE OverBudget(b, tool)
    BY <1>5, <1>7
  <1>8. CASE ~OverBudget(b, tool)
    <2>1. Consume(b, tool) = [total |-> b.total + 1, used |-> used]
      BY <1>5, <1>8
    <2>2. Consume(b, tool) \in Budget /\ Consume(b, tool).total = b.total + 1 /\ Consume(b, tool).used = used
      BY <1>2, <1>3, <2>1 DEF Budget
    <2>3. b.total + 1 <= MaxToolCalls /\ b.used[k] < Limit[k]
      BY <1>4, <1>6, <1>8
    <2>4. b.used[ToolCategory[tool]] < Limit[ToolCategory[tool]]
      BY <2>3 DEF k
    <2>5. \A c \in Kinds : used[c] = b.used[c] + IF ToolCategory[tool] = c THEN 1 ELSE 0
      BY <1>3 DEF k
    <2> QED BY <1>8, <2>2, <2>3, <2>4, <2>5
  <1> QED BY <1>7, <1>8

\* BudgetFromTrace pays step by step.
LEMMA BudgetUnfolds ==
  ASSUME NEW trace, Len(trace) \in Nat, \A i \in 1 .. Len(trace) : trace[i].tool \in ToolNames \/ trace[i].error
  PROVE  \E f \in [0 .. Len(trace) -> Budget] :
           /\ f[0] = NoCalls /\ \A i \in 1 .. Len(trace) : f[i] = PayFor(f[i - 1], trace[i])
           /\ BudgetFromTrace(trace) = f[Len(trace)]
  <1> DEFINE n == Len(trace)
             Rec(f) == f = [k \in 0 .. n |-> IF k = 0 THEN NoCalls ELSE PayFor(f[k - 1], trace[k])]
             after == CHOOSE f : Rec(f)
  <1>1. \A i \in 1 .. Len(trace) : \A b \in Budget : PayFor(b, trace[i]) \in Budget
    BY Consumed DEF PayFor
  <1>2. NoCalls \in Budget
    BY KindsOfTools
  <1>3. \A m \in Nat : m = Len(trace) =>
           \E f : f = [k \in 0 .. m |-> IF k = 0 THEN NoCalls ELSE PayFor(f[k - 1], trace[k])]
    <2> SUFFICES ASSUME NEW m \in Nat, m = Len(trace)
                 PROVE  \E f : f = [k \in 0 .. m |-> IF k = 0 THEN NoCalls ELSE PayFor(f[k - 1], trace[k])]
      OBVIOUS
    <2> DEFINE step == [x \in (1 .. m) \X Budget |-> PayFor(x[2], trace[x[1]])]
    <2>1. step \in [(1 .. m) \X Budget -> Budget]
          /\ \A k \in 1 .. m : \A p \in Budget : step[<<k, p>>] = PayFor(p, trace[k])
      BY <1>1
    <2> HIDE DEF step
    <2>2. PICK f \in [0 .. m -> Budget] : IsRecursion(f, m, NoCalls, step)
      BY <1>2, <2>1, RecursionExists
    <2>3. f[0] = NoCalls /\ \A k \in 1 .. m : f[k] = step[<<k, f[k - 1]>>]
      BY <2>2 DEF IsRecursion
    <2>4. ASSUME NEW k \in 0 .. m PROVE f[k] = IF k = 0 THEN NoCalls ELSE PayFor(f[k - 1], trace[k])
      <3>1. CASE k = 0
        BY <2>3, <3>1
      <3>2. CASE k # 0
        <4>1. k \in 1 .. m /\ k - 1 \in 0 .. m
          BY <3>2
        <4>2. f[k - 1] \in Budget
          BY <4>1
        <4> QED BY <2>1, <2>3, <3>2, <4>1, <4>2
      <3> QED BY <3>1, <3>2
    <2>5. f = [k \in 0 .. m |-> f[k]]
      OBVIOUS
    <2> QED BY <2>4, <2>5
  <1>4. Rec(after)
    <2>1. \E f : Rec(f)
      BY <1>3
    <2> HIDE DEF Rec
    <2> QED BY <2>1
  <1> HIDE DEF after
  <1>5. n \in Nat /\ \A k \in 1 .. n : \A p \in Budget : PayFor(p, trace[k]) \in Budget
    BY <1>1
  <1> HIDE DEF n
  <1>6. after[0] = NoCalls /\ \A k \in 1 .. n : after[k] = PayFor(after[k - 1], trace[k])
    <2>1. \A k \in 0 .. n : after[k] = IF k = 0 THEN NoCalls ELSE PayFor(after[k - 1], trace[k])
      BY <1>4
    <2>2. 0 \in 0 .. n /\ \A k \in 1 .. n : k \in 0 .. n /\ k # 0
      BY <1>5
    <2> HIDE DEF Rec
    <2> QED BY <2>1, <2>2
  <1>7. DOMAIN after = 0 .. n
    BY <1>4
  <1>8. after = [k \in 0 .. n |-> after[k]]
    BY <1>4
  <1> DEFINE P == {k \in 0 .. n : after[k] \in Budget}
  <1>9. 0 \in P /\ \A k \in 1 .. n : k - 1 \in P => k \in P
    <2>1. 0 \in 0 .. n /\ \A k \in 1 .. n : k \in 0 .. n
      BY <1>5
    <2> QED BY <1>2, <1>5, <1>6, <2>1
  <1>10. \A k \in 0 .. n : k \in P
    <2> HIDE DEF P
    <2> QED BY <1>5, <1>9, UpTo
  <1>11. after \in [0 .. n -> Budget]
    <2>1. \A k \in 0 .. n : after[k] \in Budget
      BY <1>10
    <2> HIDE DEF Rec, P
    <2> QED BY <1>8, <2>1
  <1>12. BudgetFromTrace(trace) = after[n]
    BY DEF BudgetFromTrace, after, Rec, n
  <1> HIDE DEF Rec, P
  <1>13. \E f \in [0 .. n -> Budget] :
           /\ f[0] = NoCalls /\ \A i \in 1 .. n : f[i] = PayFor(f[i - 1], trace[i])
           /\ BudgetFromTrace(trace) = f[n]
    BY <1>6, <1>11, <1>12
  <1> QED BY <1>13 DEF n

LEMMA AutomaticFits ==
  ASSUME NEW blocks \in 0 .. AutoPages
  PROVE  /\ 1 + blocks <= MaxToolCalls
         /\ \A c \in Kinds : Automatic(blocks)[c] \in Nat /\ Automatic(blocks)[c] <= Limit[c]
  <1>1. 1 + blocks <= MaxToolCalls /\ blocks \in Nat /\ blocks <= ReadLimit
    BY BudgetAssumption
  <1> QED BY <1>1, BudgetAssumption DEF Automatic, Limit, Kinds

\* What was prepared is paid for in full.
LEMMA PreparedIsPaid ==
  ASSUME NEW trace \in Seq(Step), NEW blocks, Prepared(trace, blocks)
  PROVE  Paid(trace, BudgetFromTrace(trace))
  <1> DEFINE n == Len(trace)
             Count(k, S) == Cardinality(RanWith(trace, k, S))
  <1>1. n \in Nat /\ DOMAIN trace = 1 .. n
    BY LenProperties
  <1>2. ASSUME NEW i \in 1 .. n PROVE trace[i].tool \in CountedAtStart /\ trace[i].tool \in ToolNames /\ trace[i].ran
    BY <1>1, KindsOfTools DEF Prepared
  <1>3. ASSUME NEW S, NEW k \in 0 .. n PROVE Count(k, S) \in Nat /\ Count(k, S) <= Cardinality(RanIn(trace, S))
    <2>1. IsFiniteSet(RanIn(trace, S))
      <3>1. IsFiniteSet(1 .. n)
        BY <1>1, FS_Interval
      <3> QED BY <3>1, FS_Subset DEF RanIn, RanWith
    <2>2. RanWith(trace, k, S) \subseteq RanIn(trace, S)
      BY <1>1 DEF RanIn, RanWith
    <2> QED BY <1>1, <2>1, <2>2, FS_Subset, FS_CardinalityType
  <1>4. PICK f \in [0 .. n -> Budget] :
           /\ f[0] = NoCalls /\ \A i \in 1 .. n : f[i] = PayFor(f[i - 1], trace[i])
           /\ BudgetFromTrace(trace) = f[n]
    BY <1>1, <1>2, BudgetUnfolds
  <1> DEFINE P == {k \in 0 .. n : f[k].total = Count(k, ToolNames) /\ \A c \in Kinds : f[k].used[c] = Count(k, Of(c))}
  <1>5. 0 \in P
    <2>1. \A S : Count(0, S) = 0
      <3> SUFFICES ASSUME NEW S PROVE Count(0, S) = 0
        OBVIOUS
      <3> QED BY NothingRan
    <2> QED BY <1>1, <1>4, <2>1, KindsOfTools
  <1>6. ASSUME NEW k \in 1 .. n, k - 1 \in P PROVE k \in P
    <2> DEFINE t == trace[k].tool
               b == f[k - 1]
    <2>1. k - 1 \in 0 .. n /\ k - 1 \in Nat /\ (k - 1) + 1 = k /\ k \in 0 .. n
      BY <1>1
    <2>2. b \in Budget /\ b.total = Count(k - 1, ToolNames) /\ \A c \in Kinds : b.used[c] = Count(k - 1, Of(c))
      BY <1>6, <2>1
    <2>3. f[k] = PayFor(b, trace[k])
      BY <1>4
    <2>4. \A S : /\ Count(k - 1, S) \in Nat
                 /\ Count(k, S) = Count(k - 1, S)
                      + IF trace[k].tool \in S /\ trace[k].ran /\ ~trace[k].error THEN 1 ELSE 0
      BY <2>1, CountedTo
    <2>5. t \in CountedAtStart /\ t \in ToolNames /\ trace[k].ran /\ ToolCategory[t] \in Kinds
      BY <1>2, KindsOfTools
    <2>6. \A c \in Kinds : t \in Of(c) <=> ToolCategory[t] = c
      BY <2>5 DEF Of
    <2>7. CASE trace[k].error
      <3>1. f[k] = b
        BY <2>3, <2>7 DEF PayFor
      <3>2. \A S : Count(k, S) = Count(k - 1, S)
        BY <2>4, <2>7
      <3> HIDE DEF Count
      <3> QED BY <2>1, <2>2, <3>1, <3>2
    <2>8. CASE ~trace[k].error
      <3>1. f[k] = Consume(b, t)
        BY <2>3, <2>5, <2>8 DEF PayFor
      <3>2. \A S : t \in S => Count(k, S) = Count(k - 1, S) + 1
        BY <2>4, <2>5, <2>8
      <3>3. \A S : t \notin S => Count(k, S) = Count(k - 1, S)
        BY <2>4
      <3>4. Count(k, ToolNames) <= 1 + blocks /\ Count(k, Of(ToolCategory[t])) <= Automatic(blocks)[ToolCategory[t]]
        <4>1. \A S : Count(k, S) \in Nat /\ Count(k, S) <= Cardinality(RanIn(trace, S))
          BY <1>3, <2>1
        <4>2. \A S : Cardinality(RanIn(trace, S)) \in Nat
          <5> SUFFICES ASSUME NEW S PROVE Cardinality(RanIn(trace, S)) \in Nat
            OBVIOUS
          <5> QED BY <1>1, CountedTo DEF RanIn
        <4>3. /\ blocks \in Nat /\ Automatic(blocks)[ToolCategory[t]] \in Nat
              /\ Cardinality(RanIn(trace, ToolNames)) <= 1 + blocks
              /\ Cardinality(RanIn(trace, Of(ToolCategory[t]))) <= Automatic(blocks)[ToolCategory[t]]
          BY <2>5, AutomaticFits, BudgetAssumption DEF Prepared
        <4> HIDE DEF Count
        <4> QED BY <4>1, <4>2, <4>3
      <3>5. ~OverBudget(b, t)
        <4>1. 1 + blocks <= MaxToolCalls /\ blocks \in Nat /\ MaxToolCalls \in Nat
          BY AutomaticFits, BudgetAssumption DEF Prepared
        <4>2. Automatic(blocks)[ToolCategory[t]] <= Limit[ToolCategory[t]]
              /\ Automatic(blocks)[ToolCategory[t]] \in Nat /\ Limit[ToolCategory[t]] \in Nat
          BY <2>5, AutomaticFits, KindsOfTools DEF Prepared
        <4>3. Count(k - 1, ToolNames) + 1 <= 1 + blocks
              /\ Count(k - 1, Of(ToolCategory[t])) + 1 <= Automatic(blocks)[ToolCategory[t]]
              /\ Count(k - 1, ToolNames) \in Nat /\ Count(k - 1, Of(ToolCategory[t])) \in Nat
          BY <2>4, <2>5, <2>6, <3>2, <3>4
        <4> HIDE DEF Count, t
        <4> DEFINE all == b.total
                   used == b.used[ToolCategory[t]]
                   most == Limit[ToolCategory[t]]
        <4>4. all \in Nat /\ all + 1 <= 1 + blocks
          BY <2>2, <4>3
        <4>5. used \in Nat /\ used + 1 <= Automatic(blocks)[ToolCategory[t]]
          BY <2>2, <2>5, <4>3
        <4> HIDE DEF all, used, most
        <4>6. ~(all >= MaxToolCalls)
          BY <4>1, <4>4
        <4>7. most \in Nat /\ Automatic(blocks)[ToolCategory[t]] <= most /\ Automatic(blocks)[ToolCategory[t]] \in Nat
          BY <4>2 DEF most
        <4>8. ~(used >= most)
          BY <4>5, <4>7
        <4> QED BY <4>6, <4>8 DEF OverBudget, all, used, most
      <3>6. f[k].total = b.total + 1
            /\ \A c \in Kinds : f[k].used[c] = b.used[c] + IF ToolCategory[t] = c THEN 1 ELSE 0
        BY <2>2, <2>5, <3>1, <3>5, Consumed
      <3>7. f[k].total = Count(k, ToolNames)
        BY <2>2, <2>5, <3>2, <3>6
      <3>8. ASSUME NEW c \in Kinds PROVE f[k].used[c] = Count(k, Of(c))
        <4>1. b.used[c] = Count(k - 1, Of(c)) /\ Count(k - 1, Of(c)) \in Nat
          BY <2>2, <2>4
        <4>2. CASE ToolCategory[t] = c
          <5>1. Count(k, Of(c)) = Count(k - 1, Of(c)) + 1
            BY <2>6, <3>2, <4>2
          <5> QED BY <3>6, <4>1, <4>2, <5>1
        <4>3. CASE ToolCategory[t] # c
          <5>1. Count(k, Of(c)) = Count(k - 1, Of(c))
            BY <2>6, <3>3, <4>3
          <5> QED BY <3>6, <4>1, <4>3, <5>1
        <4> QED BY <4>2, <4>3
      <3> QED BY <2>1, <3>7, <3>8
    <2> QED BY <2>7, <2>8
  <1>7. n \in P
    <2>1. n \in 0 .. n
      BY <1>1
    <2> HIDE DEF P
    <2> QED BY <1>1, <1>5, <1>6, <2>1, UpTo
  <1>8. f[n] \in Budget /\ f[n].total = Cardinality(RanIn(trace, ToolNames))
        /\ \A c \in Kinds : f[n].used[c] = Cardinality(RanIn(trace, Of(c)))
    BY <1>1, <1>7 DEF RanIn
  <1>9. /\ 1 + blocks <= MaxToolCalls /\ blocks \in Nat
        /\ \A c \in Kinds : /\ Automatic(blocks)[c] \in Nat /\ Limit[c] \in Nat
                            /\ Automatic(blocks)[c] <= Limit[c]
    BY AutomaticFits, KindsOfTools DEF Prepared
  <1>10. f[n].total \in Nat /\ f[n].total <= MaxToolCalls /\ MaxToolCalls \in Nat
    BY <1>8, <1>9, BudgetAssumption DEF Prepared, Budget
  <1>11. ASSUME NEW c \in Kinds PROVE f[n].used[c] \in Nat /\ f[n].used[c] <= Limit[c]
    <2>1. f[n].used[c] \in Nat
      BY <1>8 DEF Budget
    <2>2. Cardinality(RanIn(trace, Of(c))) <= Automatic(blocks)[c]
      BY DEF Prepared
    <2> QED BY <1>8, <1>9, <2>1, <2>2
  <1>12. Cardinality(RanIn(trace, ToolNames)) <= f[n].total /\ f[n].total <= MaxToolCalls
    BY <1>8, <1>10
  <1>13. \A c \in Kinds : Cardinality(RanIn(trace, Of(c))) <= f[n].used[c] /\ f[n].used[c] <= Limit[c]
    BY <1>8, <1>11
  <1>14. BudgetFromTrace(trace) = f[n]
    BY <1>4
  <1> HIDE DEF n, P
  <1> QED BY <1>8, <1>12, <1>13, <1>14 DEF Paid

\* A step that did not run, or that failed, changes no count; one that ran is new.
LEMMA StepAdded ==
  ASSUME NEW trace \in Seq(Step), NEW s \in Step, NEW seen, NEW more,
         Remembered(trace, seen), EachOnce(trace), seen \subseteq more,
         s.ran /\ ~s.error => [tool |-> s.tool, arg |-> s.arg] \in more,
         s.ran /\ ~s.error => \A i \in DOMAIN trace :
           trace[i].ran /\ ~trace[i].error => trace[i].tool # s.tool \/ trace[i].arg # s.arg
  PROVE  Remembered(Append(trace, s), more) /\ EachOnce(Append(trace, s))
  <1> DEFINE longer == Append(trace, s)
             n == Len(trace)
  <1>1. n \in Nat /\ DOMAIN longer = 1 .. n + 1 /\ longer[n + 1] = s /\ DOMAIN trace = 1 .. n
        /\ \A i \in 1 .. n : longer[i] = trace[i]
    BY AppendProperties, LenProperties
  <1> HIDE DEF longer, n
  <1>2. \A i \in 1 .. n + 1 : i \in 1 .. n \/ i = n + 1
    BY <1>1
  <1>3. Remembered(longer, more)
    BY <1>1, <1>2 DEF Remembered
  <1>4. EachOnce(longer)
    <2> SUFFICES ASSUME NEW i \in 1 .. n + 1, NEW j \in 1 .. n + 1, i # j, longer[i].ran, ~longer[i].error,
                        longer[j].ran, ~longer[j].error
                 PROVE  longer[i].tool # longer[j].tool \/ longer[i].arg # longer[j].arg
      BY <1>1 DEF EachOnce
    <2>1. CASE i \in 1 .. n /\ j \in 1 .. n
      BY <1>1, <2>1 DEF EachOnce
    <2>2. CASE i = n + 1
      BY <1>1, <1>2, <2>2
    <2>3. CASE j = n + 1
      BY <1>1, <1>2, <2>3
    <2> QED BY <1>2, <2>1, <2>2, <2>3
  <1> QED BY <1>3, <1>4 DEF longer

LEMMA RetrieveEffort ==
  ASSUME AgentInv, EffortInv, AutoRetrieve
  PROVE  EffortInv'
  <1>1. /\ chat.stage = "retrieve" /\ chat.trace = <<>> /\ chat.budget = NoCalls
        /\ chat.blocks = 0 /\ chat.pages = {}
    BY DEF AutoRetrieve, EffortInv
  <1>2. ASSUME NEW s \in Step
        PROVE  \A S : Cardinality(RanIn(<<s>>, S)) = IF s.tool \in S /\ s.ran /\ ~s.error THEN 1 ELSE 0
    <2> SUFFICES ASSUME NEW S
                 PROVE  Cardinality(RanIn(<<s>>, S)) = IF s.tool \in S /\ s.ran /\ ~s.error THEN 1 ELSE 0
      OBVIOUS
    <2> DEFINE none == <<>>
    <2>1. none \in Seq(Step) /\ Append(none, s) = <<s>> /\ Len(none) = 0
      OBVIOUS
    <2>2. Cardinality(RanIn(none, S)) = 0
      <3>1. Cardinality(RanWith(none, 0, S)) = 0
        <4>1. \A i \in 1 .. 0 : none[i].error \/ none[i].tool \notin S
          OBVIOUS
        <4> HIDE DEF none
        <4> QED BY <4>1, NothingRan
      <3> QED BY <2>1, <3>1 DEF RanIn
    <2> HIDE DEF none
    <2>3. Cardinality(RanIn(Append(none, s), S)) = Cardinality(RanIn(none, S))
              + IF s.tool \in S /\ s.ran /\ ~s.error THEN 1 ELSE 0
      BY <2>1, CountedWith
    <2> QED BY <2>1, <2>2, <2>3
  <1>3. CASE chat' = [chat EXCEPT !.stage = "loop",
                        !.trace = <<TraceStep([tool |-> "automatic_retrieve_evidence", arg |-> 0], Raised)>>]
    <2> DEFINE call == [tool |-> "automatic_retrieve_evidence", arg |-> 0]
               s == TraceStep(call, Raised)
    <2>1. call \in AgentCall
      BY DEF AgentCall, StepTools
    <2>2. s \in Step /\ s.error
      BY <2>1, BlankFields, StepFields DEF TraceStep
    <2>3. chat'.stage = "loop" /\ chat'.trace = <<s>> /\ chat'.budget = NoCalls /\ chat'.seen = chat.seen
      BY <1>1, <1>3 DEF AgentInv, AgentTypeOK
    <2> HIDE DEF s, call
    <2>4. \A S : Cardinality(RanIn(<<s>>, S)) = 0
      BY <1>2, <2>2
    <2>5. Paid(<<s>>, NoCalls)
      BY <2>4, KindsOfTools, BudgetAssumption DEF Paid
    <2>6. Remembered(<<s>>, chat.seen) /\ EachOnce(<<s>>)
      BY <2>2 DEF Remembered, EachOnce
    <2> QED BY <2>3, <2>5, <2>6 DEF EffortInv
  <1>4. CASE \E found \in SeqOf(AgentPages, 2), q \in Queries :
               chat' = [chat EXCEPT !.stage = "read", !.left = found,
                     !.seen = {[tool |-> "retrieve_evidence", arg |-> q]},
                     !.trace = <<TraceStep([tool |-> "retrieve_evidence", arg |-> q], Blank)>>]
    <2> PICK found \in SeqOf(AgentPages, 2), q \in Queries :
               chat' = [chat EXCEPT !.stage = "read", !.left = found,
                     !.seen = {[tool |-> "retrieve_evidence", arg |-> q]},
                     !.trace = <<TraceStep([tool |-> "retrieve_evidence", arg |-> q], Blank)>>]
      BY <1>4
    <2> DEFINE call == [tool |-> "retrieve_evidence", arg |-> q]
               s == TraceStep(call, Blank)
    <2>1. call \in AgentCall
      BY DEF AgentCall, StepTools, ToolNames, ToolCategory
    <2>2. s \in Step /\ s.tool = "retrieve_evidence" /\ s.arg = q /\ s.ran
      BY <2>1, BlankFields, StepFields DEF TraceStep
    <2>3. chat'.stage = "read" /\ chat'.trace = <<s>> /\ chat'.seen = {call} /\ chat'.blocks = 0
      BY <1>1 DEF AgentInv, AgentTypeOK
    <2> HIDE DEF s
    <2>4. Remembered(<<s>>, {call}) /\ EachOnce(<<s>>)
      BY <2>2 DEF Remembered, EachOnce
    <2> HIDE DEF call
    <2>5. \A S : Cardinality(RanIn(<<s>>, S)) \in {0, 1}
      BY <1>2, <2>2
    <2>6. \A c \in Kinds : c # "search" => Cardinality(RanIn(<<s>>, Of(c))) = 0
      BY <1>2, <2>2, KindsOfTools DEF Of
    <2>7. Prepared(<<s>>, 0)
      <3>1. \A c \in Kinds : Cardinality(RanIn(<<s>>, Of(c))) <= Automatic(0)[c]
        BY <2>5, <2>6 DEF Automatic, Kinds
      <3>2. 0 \in 0 .. AutoPages
        BY BudgetAssumption
      <3>3. \A i \in DOMAIN <<s>> : <<s>>[i].ran /\ <<s>>[i].tool \in CountedAtStart
        BY <2>2 DEF CountedAtStart
      <3>4. Cardinality(RanIn(<<s>>, ToolNames)) <= 1 + 0
        BY <2>5
      <3> QED BY <3>1, <3>2, <3>3, <3>4 DEF Prepared
    <2>8. \A i \in DOMAIN <<s>> : <<s>>[i].tool # "get_page_text"
      BY <2>2
    <2> QED BY <2>3, <2>4, <2>7, <2>8 DEF EffortInv
  <1> QED BY <1>3, <1>4 DEF AutoRetrieve

LEMMA AutoReadEffort ==
  ASSUME AgentInv, EffortInv, AutoRead
  PROVE  EffortInv'
  <1> DEFINE call == [tool |-> "get_page_text", arg |-> Head(chat.left)]
             rest == [chat EXCEPT !.left = Tail(@), !.pages = @ \cup {call.arg}]
  <1>1. /\ chat.stage = "read" /\ chat.left # <<>> /\ chat.blocks < AutoPages
        /\ chat.trace \in Seq(Step) /\ chat.left \in Seq(AgentPages)
    BY DEF AutoRead, AgentInv, AgentTypeOK
  <1>2. Head(chat.left) \in AgentPages
    BY <1>1
  <1>3. call \in AgentCall /\ ReadCall(call) /\ call.tool = "get_page_text" /\ call.tool \in Reading
    BY <1>2 DEF AgentCall, StepTools, ReadCall, ToolNames, ToolCategory, Reading
  <1>4. \/ chat' = rest
        \/ /\ call.arg \notin chat.pages
           /\ \E out \in Outputs(call, FALSE) :
               chat' = [rest EXCEPT !.trace = Append(@, TraceStep(call, out)),
                           !.seen = IF out.error THEN @ ELSE @ \cup {call},
                           !.blocks = IF out.error THEN @ ELSE @ + 1]
    BY DEF AutoRead
  <1>5. /\ Remembered(chat.trace, chat.seen) /\ EachOnce(chat.trace) /\ Prepared(chat.trace, chat.blocks)
        /\ \A i \in DOMAIN chat.trace : chat.trace[i].tool = "get_page_text" => chat.trace[i].arg \in chat.pages
    BY <1>1 DEF EffortInv
  <1> DEFINE arg == call.arg
  <1>6. call = [tool |-> "get_page_text", arg |-> arg]
    OBVIOUS
  <1> HIDE DEF call
  <1>7. /\ rest.trace = chat.trace /\ rest.stage = "read" /\ rest.seen = chat.seen
        /\ rest.blocks = chat.blocks /\ rest.pages = chat.pages \cup {arg}
        /\ rest = [rest EXCEPT !.stage = "read"] /\ DOMAIN rest = DOMAIN chat
    BY <1>1 DEF AgentInv, AgentTypeOK
  <1>8. {"trace", "stage", "seen", "blocks", "pages"} \subseteq DOMAIN rest
    BY DEF AgentInv, AgentTypeOK
  <1> HIDE DEF rest, arg
  <1>9. CASE chat' = rest
    BY <1>5, <1>7, <1>9 DEF EffortInv
  <1>10. CASE /\ arg \notin chat.pages
              /\ \E out \in Outputs(call, FALSE) :
                   chat' = [rest EXCEPT !.trace = Append(@, TraceStep(call, out)),
                           !.seen = IF out.error THEN @ ELSE @ \cup {call},
                           !.blocks = IF out.error THEN @ ELSE @ + 1]
    <2> PICK out \in Outputs(call, FALSE) :
                   chat' = [rest EXCEPT !.trace = Append(@, TraceStep(call, out)),
                           !.seen = IF out.error THEN @ ELSE @ \cup {call},
                           !.blocks = IF out.error THEN @ ELSE @ + 1]
      BY <1>10
    <2> DEFINE s == TraceStep(call, out)
               trace == Append(chat.trace, s)
               blocks == IF out.error THEN chat.blocks ELSE chat.blocks + 1
               seen == IF out.error THEN chat.seen ELSE chat.seen \cup {call}
    <2>1. s \in Step
      BY <1>3, OutputsAreHonest
    <2>2. /\ s.tool = "get_page_text" /\ s.arg = arg /\ s.ran /\ (s.error <=> out.error)
      <3>1. out.ran = TRUE /\ out.error \in BOOLEAN
        <4>1. ToolCategory["get_page_text"] # "vision"
          BY KindsOfTools
        <4>2. out = Raised \/ \E t \in BOOLEAN : out = [Blank EXCEPT !.page = call.arg, !.text = t]
          BY <1>3, <4>1 DEF Outputs
        <4> QED BY <4>2 DEF Raised, Blank
      <3> QED BY <1>6, <3>1 DEF TraceStep
    <2>3. /\ chat'.trace = trace /\ chat'.stage = "read" /\ chat'.seen = seen /\ chat'.blocks = blocks
          /\ chat'.pages = chat.pages \cup {arg}
      BY <1>7, <1>8
    <2> HIDE DEF s
    <2>4. Remembered(trace, seen) /\ EachOnce(trace)
      <3>1. \A i \in DOMAIN chat.trace : chat.trace[i].tool # s.tool \/ chat.trace[i].arg # s.arg
        BY <1>5, <1>10, <2>2
      <3>2. s.ran /\ ~s.error => [tool |-> s.tool, arg |-> s.arg] \in seen
        BY <1>6, <2>2
      <3>3. chat.seen \subseteq seen
        OBVIOUS
      <3> HIDE DEF seen
      <3> QED BY <1>1, <1>5, <2>1, <3>1, <3>2, <3>3, StepAdded
    <2>5. Prepared(trace, blocks)
      <3>1. chat.blocks \in 0 .. AutoPages /\ blocks \in 0 .. AutoPages
        BY <1>1, <1>5, BudgetAssumption DEF Prepared
      <3>2. \A i \in DOMAIN trace : trace[i].ran /\ trace[i].tool \in CountedAtStart
        <4>1. "get_page_text" \in CountedAtStart
          BY DEF CountedAtStart
        <4>2. \A i \in DOMAIN trace : (i \in DOMAIN chat.trace /\ trace[i] = chat.trace[i]) \/ trace[i] = s
          BY <1>1, <2>1
        <4> HIDE DEF trace
        <4> QED BY <1>5, <2>2, <4>1, <4>2 DEF Prepared
      <3>3. \A S : /\ Cardinality(RanIn(chat.trace, S)) \in Nat
                   /\ Cardinality(RanIn(trace, S)) = Cardinality(RanIn(chat.trace, S))
                        + IF s.tool \in S /\ s.ran /\ ~s.error THEN 1 ELSE 0
        BY <1>1, <2>1, CountedWith
      <3> HIDE DEF trace
      <3>4. Cardinality(RanIn(trace, ToolNames)) <= 1 + blocks
        <4>1. Cardinality(RanIn(chat.trace, ToolNames)) <= 1 + chat.blocks
          BY <1>5 DEF Prepared
        <4> QED BY <2>2, <3>1, <3>3, <4>1
      <3>5. ASSUME NEW c \in Kinds PROVE Cardinality(RanIn(trace, Of(c))) <= Automatic(blocks)[c]
        <4>1. Cardinality(RanIn(chat.trace, Of(c))) <= Automatic(chat.blocks)[c]
          BY <1>5 DEF Prepared
        <4>2. "get_page_text" \in Of(c) => c = "read"
          BY KindsOfTools DEF Of
        <4>3. CASE c = "read"
          <5>1. Automatic(blocks)[c] = blocks /\ Automatic(chat.blocks)[c] = chat.blocks
            BY <4>3 DEF Automatic
          <5> QED BY <2>2, <3>1, <3>3, <4>1, <5>1
        <4>4. CASE c # "read"
          <5>1. Automatic(blocks)[c] = Automatic(chat.blocks)[c]
            BY <4>4 DEF Automatic, Kinds
          <5>2. Cardinality(RanIn(trace, Of(c))) = Cardinality(RanIn(chat.trace, Of(c)))
            BY <2>2, <3>3, <4>2, <4>4
          <5> QED BY <4>1, <5>1, <5>2
        <4> QED BY <4>3, <4>4
      <3> QED BY <3>1, <3>2, <3>4, <3>5 DEF Prepared
    <2>6. \A i \in DOMAIN trace : trace[i].tool = "get_page_text" => trace[i].arg \in chat.pages \cup {arg}
      <3>1. \A i \in DOMAIN trace : (i \in DOMAIN chat.trace /\ trace[i] = chat.trace[i]) \/ trace[i] = s
        BY <1>1, <2>1
      <3> HIDE DEF trace
      <3> QED BY <1>5, <2>2, <3>1
    <2> HIDE DEF trace, blocks, seen
    <2> QED BY <2>3, <2>4, <2>5, <2>6 DEF EffortInv
  <1> QED BY <1>4, <1>9, <1>10 DEF arg

LEMMA UseToolEffort ==
  ASSUME AgentInv, EffortInv, NEW call \in Calls, UseTool(call)
  PROVE  EffortInv'
  <1> DEFINE over == OverBudget(chat.budget, call.tool)
             outs == IF call \in chat.seen THEN {SkippedOutput("repeated_tool_skipped")}
                     ELSE IF over THEN {SkippedOutput("tool_budget_exhausted")}
                     ELSE Outputs(call, chat.allowVision)
             skip == call \in chat.seen \/ over
             budget == IF call \in chat.seen THEN chat.budget ELSE Consume(chat.budget, call.tool)
  <1>1. PICK out \in outs :
           chat' = [chat EXCEPT !.step = @ + 1, !.seen = @ \cup {call},
                      !.budget = IF call \in chat.seen THEN @ ELSE Consume(@, call.tool),
                      !.trace = Append(@, TraceStep(call, out)),
                      !.visions = IF call.tool = "request_page_vision" /\ out = Blank
                                  THEN @ \cup {call.arg} ELSE @,
                      !.blocked = IF skip THEN @ + 1 ELSE 0,
                      !.stage = IF skip /\ chat.blocked = 1 THEN "forced" ELSE @]
    BY DEF UseTool
  <1>2. chat.stage = "loop" /\ chat.allowVision \in BOOLEAN /\ chat.trace \in Seq(Step)
    BY DEF UseTool, InLoop, AgentInv, AgentTypeOK
  <1>3. call \in AgentCall /\ ReadCall(call) /\ call = [tool |-> call.tool, arg |-> call.arg] /\ call.tool \in ToolNames
    BY CallsAreCalls DEF AgentCall, ReadCall
  <1>4. TraceStep(call, out) \in Step
    BY <1>2, <1>3, OutputsAreHonest, SkipsAreHonest DEF Statuses
  <1> DEFINE s == TraceStep(call, out)
             trace == Append(chat.trace, s)
  <1>5. s.tool = call.tool /\ s.arg = call.arg /\ s.ran = out.ran
    BY DEF TraceStep
  <1>6. skip => ~s.ran
    <2>1. skip => out = SkippedOutput("repeated_tool_skipped") \/ out = SkippedOutput("tool_budget_exhausted")
      OBVIOUS
    <2>2. skip => out.ran = FALSE
      BY <2>1 DEF SkippedOutput, Blank
    <2> HIDE DEF s, skip
    <2> QED BY <1>5, <2>2
  <1>7. call \in chat.seen => skip
    OBVIOUS
  <1>8. /\ chat'.trace = trace /\ chat'.stage \in {"loop", "forced"} /\ chat'.seen = chat.seen \cup {call}
        /\ chat'.budget = budget
    BY <1>1, <1>2 DEF AgentInv, AgentTypeOK
  <1>9. Remembered(chat.trace, chat.seen) /\ EachOnce(chat.trace) /\ Paid(chat.trace, chat.budget)
    BY <1>2 DEF EffortInv
  <1> DEFINE more == chat.seen \cup {call}
  <1>10. Remembered(trace, more) /\ EachOnce(trace)
    <2>1. s.ran /\ ~s.error => \A i \in DOMAIN chat.trace :
            chat.trace[i].ran /\ ~chat.trace[i].error
              => chat.trace[i].tool # s.tool \/ chat.trace[i].arg # s.arg
      <3> HIDE DEF s, skip
      <3> QED BY <1>3, <1>5, <1>6, <1>7, <1>9 DEF Remembered
    <2>2. s.ran /\ ~s.error => [tool |-> s.tool, arg |-> s.arg] \in more
      <3> HIDE DEF s
      <3> QED BY <1>3, <1>5
    <2>3. chat.seen \subseteq more
      OBVIOUS
    <2> HIDE DEF more, s
    <2> QED BY <1>2, <1>4, <1>9, <2>1, <2>2, <2>3, StepAdded DEF s
  <1>11. Paid(trace, budget)
    <2>1. \A S : /\ Cardinality(RanIn(chat.trace, S)) \in Nat
                 /\ Cardinality(RanIn(trace, S)) = Cardinality(RanIn(chat.trace, S))
                      + IF s.tool \in S /\ s.ran /\ ~s.error THEN 1 ELSE 0
      <3> HIDE DEF s
      <3> QED BY <1>2, <1>4, CountedWith DEF s
    <2>2. chat.budget \in Budget
      BY <1>9 DEF Paid
    <2> HIDE DEF trace, s
    <2>3. CASE skip
      <3>1. budget = chat.budget
        BY <1>3, <2>2, <2>3, Consumed
      <3>2. \A S : Cardinality(RanIn(trace, S)) = Cardinality(RanIn(chat.trace, S))
        BY <1>6, <2>1, <2>3
      <3> HIDE DEF budget
      <3> QED BY <1>9, <3>1, <3>2 DEF Paid
    <2>4. CASE ~skip
      <3>1. budget = Consume(chat.budget, call.tool) /\ ~over
        BY <2>4
      <3>2. /\ budget \in Budget /\ budget.total = chat.budget.total + 1 /\ budget.total <= MaxToolCalls
            /\ chat.budget.used[ToolCategory[call.tool]] < Limit[ToolCategory[call.tool]]
            /\ \A c \in Kinds : budget.used[c] = chat.budget.used[c] + IF ToolCategory[call.tool] = c THEN 1 ELSE 0
        BY <1>3, <2>2, <3>1, Consumed
      <3> HIDE DEF budget, over, skip
      <3>3. chat.budget.total \in Nat /\ MaxToolCalls \in Nat
            /\ \A c \in Kinds : chat.budget.used[c] \in Nat /\ Limit[c] \in Nat
        BY <2>2, KindsOfTools, BudgetAssumption DEF Budget
      <3>4. Cardinality(RanIn(trace, ToolNames)) <= budget.total
        <4>1. Cardinality(RanIn(chat.trace, ToolNames)) <= chat.budget.total
          BY <1>9 DEF Paid
        <4> QED BY <2>1, <3>2, <3>3, <4>1
      <3>5. ASSUME NEW c \in Kinds
            PROVE  Cardinality(RanIn(trace, Of(c))) <= budget.used[c] /\ budget.used[c] <= Limit[c]
        <4>1. Cardinality(RanIn(chat.trace, Of(c))) <= chat.budget.used[c] /\ chat.budget.used[c] <= Limit[c]
          BY <1>9 DEF Paid
        <4>2. s.tool \in Of(c) => ToolCategory[call.tool] = c
          BY <1>5 DEF Of, s
        <4>3. chat.budget.used[c] \in Nat /\ Limit[c] \in Nat
          BY <3>3
        <4>4. CASE ToolCategory[call.tool] = c
          <5>1. budget.used[c] = chat.budget.used[c] + 1 /\ chat.budget.used[c] < Limit[c]
            BY <3>2, <4>4
          <5>2. Cardinality(RanIn(trace, Of(c))) <= Cardinality(RanIn(chat.trace, Of(c))) + 1
            BY <2>1
          <5> QED BY <2>1, <4>1, <4>3, <5>1, <5>2
        <4>5. CASE ToolCategory[call.tool] # c
          <5>1. budget.used[c] = chat.budget.used[c] + 0
            BY <3>2, <4>5
          <5>2. Cardinality(RanIn(trace, Of(c))) = Cardinality(RanIn(chat.trace, Of(c))) + 0
            BY <2>1, <4>2, <4>5
          <5> QED BY <2>1, <4>1, <4>3, <5>1, <5>2
        <4> QED BY <4>4, <4>5
      <3> QED BY <3>2, <3>4, <3>5 DEF Paid
    <2> QED BY <2>3, <2>4
  <1> HIDE DEF trace, budget
  <1> QED BY <1>8, <1>10, <1>11 DEF EffortInv

LEMMA ChatEndingEffort ==
  ASSUME AgentInv, EffortInv,
         \/ \E final \in Finals : ProposeFinal(final)
         \/ ModelFails \/ OutOfSteps \/ ForceFinal \/ Persist \/ Disconnect
  PROVE  EffortInv'
  <1>1. /\ UNCHANGED <<chat.trace, chat.seen, chat.budget>>
        /\ chat.stage \notin {"retrieve", "read"} /\ chat'.stage \notin {"retrieve", "read"}
    <2>1. CASE \E final \in Finals : ProposeFinal(final)
      <3> PICK proposed \in Finals : ProposeFinal(proposed)
        BY <2>1
      <3>1. \/ chat' = [chat EXCEPT !.step = @ + 1, !.final = Normalize(proposed), !.stage = "answered"]
            \/ chat' = [chat EXCEPT !.step = @ + 1]
        BY DEF ProposeFinal
      <3> QED BY <3>1 DEF ProposeFinal, InLoop, AgentInv, AgentTypeOK
    <2>2. CASE ForceFinal
      <3>1. \/ chat' = [chat EXCEPT !.stage = "incomplete"]
            \/ \E final : chat' = [chat EXCEPT !.final = final, !.stage = "answered"]
        BY <2>2 DEF ForceFinal
      <3> QED BY <2>2, <3>1 DEF ForceFinal, AgentInv, AgentTypeOK
    <2>3. CASE ModelFails \/ OutOfSteps \/ Persist \/ Disconnect
      BY <2>3 DEF ModelFails, OutOfSteps, Persist, Disconnect, InLoop, AgentInv, AgentTypeOK
    <2> QED BY <2>1, <2>2, <2>3
  <1> QED BY <1>1 DEF EffortInv, Remembered, EachOnce, Paid, RanIn, RanWith

\* What a run used stays within the total and the limits, the automatic evidence
\* included, and no call succeeds twice: a step is paid for when it is made, a
\* prepared one when the loop opens.
THEOREM EffortsAreBounded == AgentSpec => []EffortIsBounded
  <1>1. AgentInit => EffortInv
    BY DEF AgentInit, EffortInv, Remembered, EachOnce
  <1>2. AgentInv /\ EffortInv /\ [AgentNext]_agentVars => EffortInv'
    <2> SUFFICES ASSUME AgentInv, EffortInv, [AgentNext]_agentVars PROVE EffortInv'
      OBVIOUS
    <2>1. CASE UNCHANGED agentVars
      BY <2>1, SMTT(30) DEF agentVars, EffortInv, Remembered, EachOnce, Paid, Prepared, RanIn, RanWith
    <2>2. CASE OpenLoop
      <3>1. chat.stage = "read" /\ chat' = [chat EXCEPT !.stage = "loop", !.left = <<>>, !.budget = BudgetFromTrace(chat.trace)]
            /\ chat.trace \in Seq(Step)
        BY <2>2 DEF OpenLoop, AgentInv, AgentTypeOK
      <3>2. Paid(chat.trace, BudgetFromTrace(chat.trace))
        BY <3>1, PreparedIsPaid DEF EffortInv
      <3>3. chat'.stage = "loop" /\ chat'.trace = chat.trace /\ chat'.seen = chat.seen
            /\ chat'.budget = BudgetFromTrace(chat.trace)
        BY <3>1 DEF AgentInv, AgentTypeOK
      <3> QED BY <3>2, <3>3 DEF EffortInv
    <2>3. CASE AgentNext /\ ~OpenLoop
      BY <2>3, RetrieveEffort, AutoReadEffort, UseToolEffort, ChatEndingEffort DEF AgentNext
    <2> QED BY <2>1, <2>2, <2>3
  <1>3. AgentInv /\ EffortInv => EffortIsBounded
    <2> SUFFICES ASSUME AgentInv, EffortInv PROVE EffortIsBounded
      OBVIOUS
    <2> DEFINE ran(S) == Cardinality({i \in DOMAIN chat.trace : chat.trace[i].tool \in S /\ Ran(i)})
    <2>1. chat.trace \in Seq(Step)
      BY DEF AgentInv, AgentTypeOK
    <2>2. ASSUME NEW S PROVE ran(S) = Cardinality(RanIn(chat.trace, S)) /\ ran(S) \in Nat
      <3>1. Len(chat.trace) \in Nat /\ DOMAIN chat.trace = 1 .. Len(chat.trace)
        BY <2>1, LenProperties
      <3>2. {i \in DOMAIN chat.trace : chat.trace[i].tool \in S /\ Ran(i)} = RanIn(chat.trace, S)
        BY <3>1 DEF RanIn, RanWith, Ran
      <3> QED BY <3>1, <3>2, CountedTo DEF RanIn
    <2> HIDE DEF ran
    <2>3. ran(ToolNames) <= MaxToolCalls /\ \A c \in Kinds : ran(Of(c)) <= Limit[c]
      <3>1. MaxToolCalls \in Nat /\ \A c \in Kinds : Limit[c] \in Nat
        BY KindsOfTools, BudgetAssumption
      <3>2. CASE chat.stage = "retrieve"
        <4>1. \A S : ran(S) = 0
          <5> SUFFICES ASSUME NEW S PROVE ran(S) = 0
            OBVIOUS
          <5>1. chat.trace = <<>>
            BY <3>2 DEF EffortInv
          <5>2. Cardinality(RanWith(<<>>, 0, S)) = 0
            BY NothingRan
          <5> QED BY <2>2, <5>1, <5>2 DEF RanIn
        <4> QED BY <3>1, <4>1
      <3>3. CASE chat.stage = "read"
        <4>1. Prepared(chat.trace, chat.blocks)
          BY <3>3 DEF EffortInv
        <4>2. /\ 1 + chat.blocks <= MaxToolCalls /\ chat.blocks \in Nat
              /\ \A c \in Kinds : Automatic(chat.blocks)[c] \in Nat /\ Automatic(chat.blocks)[c] <= Limit[c]
          BY <4>1, AutomaticFits DEF Prepared
        <4> QED BY <2>2, <3>1, <4>1, <4>2 DEF Prepared
      <3>4. CASE chat.stage \notin {"retrieve", "read"}
        <4>1. Paid(chat.trace, chat.budget)
          BY <3>4 DEF EffortInv
        <4>2. chat.budget.total \in Nat /\ \A c \in Kinds : chat.budget.used[c] \in Nat
          BY <4>1 DEF Paid, Budget
        <4> QED BY <2>2, <3>1, <4>1, <4>2 DEF Paid
      <3> QED BY <3>2, <3>3, <3>4
    <2>4. \A c \in DOMAIN Limit : ran({t \in ToolNames : ToolCategory[t] = c}) <= Limit[c]
      BY <2>3, KindsOfTools DEF Of
    <2>5. \A i, j \in DOMAIN chat.trace :
            i # j /\ Ran(i) /\ Ran(j) => \/ chat.trace[i].tool # chat.trace[j].tool
                                         \/ chat.trace[i].arg # chat.trace[j].arg
      BY DEF EffortInv, EachOnce, Ran
    <2> QED BY <2>3, <2>4, <2>5 DEF EffortIsBounded, ran
  <1>4. AgentSpec => []EffortInv
    BY <1>1, <1>2, AgentInvHolds, PTL DEF AgentSpec
  <1> QED BY <1>3, <1>4, AgentInvHolds, PTL

-----------------------------------------------------------------------------
(* AccountingCorrections: a correction outlives the extraction it was made on.  *)

Fact == [cell : Cells \cup {NoCell}, kind : FactKinds, amount : Amounts, excluded : BOOLEAN, reviewed : BOOLEAN]
Anchor == [cell : Cells \cup {NoCell}, kind : FactKinds, amount : Amounts]
Correction == [anchor : Anchor, change : Changes, status : {"applied", "unmatched", "reapplied"}]
AccResult == [payload : Seq(Fact), log : Seq(Correction), version : Nat]
AccTypeOK ==
  /\ result \in AccResult
  /\ \A f \in facts : f.fact \in Fact
  /\ request \in [open : {TRUE}, read : AccResult, change : Correction] \cup {Idle}
  /\ worker \in [open : {TRUE}, read : AccResult, payload : Payloads] \cup {Idle}
  /\ acked \in Seq(Anchor)

AnchorsOf(log) == [i \in DOMAIN log |-> log[i].anchor]
\* A fact that was corrected has an anchor of its cell among those given.
InTheirCell(payload, anchors) ==
  \A i \in DOMAIN payload : payload[i].reviewed =>
    \E j \in DOMAIN anchors : anchors[j].cell \in {NoCell, payload[i].cell}
Coherent(r) == InTheirCell(r.payload, AnchorsOf(r.log))
\* What a writer p has read is an older result or the one that is stored, r.
ReadBefore(p, r) ==
  p.open => /\ Coherent(p.read) /\ p.read.version <= r.version
            /\ p.read.version = r.version => p.read = r

AccInv ==
  /\ AccTypeOK /\ Coherent(result) /\ ReadBefore(request, result) /\ ReadBefore(worker, result)
  /\ ~raced => AnchorsOf(result.log) = acked
  /\ ~raced => facts = Projected(result.payload, result.version)

-----------------------------------------------------------------------------
\* An updated fact keeps its cell.
LEMMA UpdatedFact ==
  ASSUME NEW f \in Fact, NEW c \in Changes
  PROVE  Update(f, c) \in Fact /\ Update(f, c).cell = f.cell
  <1>1. f.cell \in Cells \cup {NoCell} /\ f.kind \in FactKinds /\ f.amount \in Amounts /\ f.excluded \in BOOLEAN
    BY DEF Fact
  <1> DEFINE k == IF c[1] = "kind" THEN c[2] ELSE f.kind
             a == IF c[1] = "amount" THEN c[2] ELSE f.amount
             x == f.excluded \/ c[1] = "excluded"
  <1>2. k \in FactKinds /\ a \in Amounts
    <2>1. CASE c \in {"kind"} \X FactKinds
      BY <1>1, <2>1
    <2>2. CASE c \in {"amount"} \X Amounts
      BY <1>1, <2>2
    <2>3. CASE c = <<"excluded", TRUE>>
      BY <1>1, <2>3
    <2> QED BY <2>1, <2>2, <2>3 DEF Changes
  <1>3. Update(f, c) = [cell |-> f.cell, kind |-> k, amount |-> a, excluded |-> x, reviewed |-> TRUE]
    BY DEF Update
  <1>5. x \in BOOLEAN
    OBVIOUS
  <1> HIDE DEF k, a, x
  <1>4. [cell |-> f.cell, kind |-> k, amount |-> a, excluded |-> x, reviewed |-> TRUE] \in Fact
    BY <1>1, <1>2, <1>5 DEF Fact
  <1> QED BY <1>3, <1>4

\* A correction changes at most the first fact its anchor finds.
LEMMA CorrectedFacts ==
  ASSUME NEW p \in Seq(Fact), NEW c \in Correction
  PROVE  /\ Corrected(p, c) \in Seq(Fact) /\ DOMAIN Corrected(p, c) = DOMAIN p
         /\ \A i \in DOMAIN p : \/ Corrected(p, c)[i] = p[i]
                                \/ /\ i \in Found(p, c.anchor)
                                   /\ Corrected(p, c)[i].cell = p[i].cell
  <1>1. CASE Found(p, c.anchor) = {}
    BY <1>1 DEF Corrected
  <1>2. CASE Found(p, c.anchor) # {}
    <2> DEFINE S == Found(p, c.anchor)
               m == First(S)
               u == Update(p[m], c.change)
    <2>1. S \in SUBSET Nat /\ S \subseteq DOMAIN p
      BY DEF Found
    <2>2. m \in S
      <3> HIDE DEF S
      <3>1. \E i \in S : \A j \in S : i <= j
        BY <1>2, <2>1, LeastExists DEF S
      <3> QED BY <3>1 DEF First
    <2>3. m \in DOMAIN p /\ p[m] \in Fact /\ c.change \in Changes
      BY <2>1, <2>2, ElementOfSeq DEF Correction
    <2>4. u \in Fact /\ u.cell = p[m].cell
      BY <2>3, UpdatedFact
    <2>5. Corrected(p, c) = [p EXCEPT ![m] = u]
      BY <1>2 DEF Corrected
    <2> HIDE DEF u, m, S
    <2>6. [p EXCEPT ![m] = u] \in Seq(Fact) /\ DOMAIN [p EXCEPT ![m] = u] = DOMAIN p
      BY <2>3, <2>4, ExceptSeq
    <2>7. ASSUME NEW i \in DOMAIN p PROVE [p EXCEPT ![m] = u][i] = IF i = m THEN u ELSE p[i]
      OBVIOUS
    <2> QED BY <2>2, <2>4, <2>5, <2>6, <2>7 DEF S
  <1> QED BY <1>1, <1>2

\* So corrected facts stay in the cells of the anchors, if the anchor is one of them.
LEMMA CorrectedInCell ==
  ASSUME NEW p \in Seq(Fact), NEW c \in Correction, NEW A, InTheirCell(p, A),
         NEW j \in DOMAIN A, A[j] = c.anchor
  PROVE  InTheirCell(Corrected(p, c), A)
  <1> DEFINE q == Corrected(p, c)
  <1>1. /\ DOMAIN q = DOMAIN p
        /\ \A i \in DOMAIN p : \/ q[i] = p[i]
                               \/ i \in Found(p, c.anchor) /\ q[i].cell = p[i].cell
    BY CorrectedFacts
  <1> HIDE DEF q
  <1>2. ASSUME NEW i \in DOMAIN q, q[i].reviewed PROVE \E k \in DOMAIN A : A[k].cell \in {NoCell, q[i].cell}
    <2>1. CASE q[i] = p[i]
      BY <1>1, <1>2, <2>1 DEF InTheirCell
    <2>2. CASE i \in Found(p, c.anchor) /\ q[i].cell = p[i].cell
      <3>1. c.anchor.cell \in {NoCell, p[i].cell}
        BY <2>2 DEF Found
      <3> QED BY <2>2, <3>1
    <2> QED BY <1>1, <2>1, <2>2
  <1> QED BY <1>2 DEF InTheirCell, q

\* The corrections of a log can be made one after the other.
LEMMA OneByOne ==
  ASSUME NEW S, NEW r \in S, NEW log, Len(log) \in Nat,
         \A i \in 1 .. Len(log) : \A p \in S : Corrected(p, log[i]) \in S
  PROVE  \E f \in [0 .. Len(log) -> S] :
            f = [i \in 0 .. Len(log) |-> IF i = 0 THEN r ELSE Corrected(f[i - 1], log[i])]
  <1>1. \A n \in Nat : n = Len(log) => \E f \in [0 .. n -> S] :
            f = [i \in 0 .. n |-> IF i = 0 THEN r ELSE Corrected(f[i - 1], log[i])]
    <2> SUFFICES ASSUME NEW n \in Nat, n = Len(log)
                 PROVE  \E f \in [0 .. n -> S] :
                          f = [i \in 0 .. n |-> IF i = 0 THEN r ELSE Corrected(f[i - 1], log[i])]
      OBVIOUS
    <2> DEFINE step == [x \in (1 .. n) \X S |-> Corrected(x[2], log[x[1]])]
    <2>1. step \in [(1 .. n) \X S -> S]
      OBVIOUS
    <2>2. \A i \in 1 .. n : \A p \in S : step[<<i, p>>] = Corrected(p, log[i])
      OBVIOUS
    <2> HIDE DEF step
    <2>3. PICK f \in [0 .. n -> S] : IsRecursion(f, n, r, step)
      BY <2>1, RecursionExists
    <2>6. f[0] = r /\ \A i \in 1 .. n : f[i] = step[<<i, f[i - 1]>>]
      BY <2>3 DEF IsRecursion
    <2>4. ASSUME NEW i \in 0 .. n PROVE f[i] = IF i = 0 THEN r ELSE Corrected(f[i - 1], log[i])
      <3>1. CASE i = 0
        BY <2>6, <3>1
      <3>2. CASE i # 0
        <4>1. i \in 1 .. n /\ i - 1 \in 0 .. n
          BY <3>2
        <4>2. f[i - 1] \in S
          BY <4>1
        <4> QED BY <2>2, <2>6, <3>2, <4>1, <4>2
      <3> QED BY <3>1, <3>2
    <2>5. f = [i \in 0 .. n |-> f[i]]
      OBVIOUS
    <2> QED BY <2>4, <2>5
  <1> QED BY <1>1

\* The corrections of a log on a new extraction: all of them are kept, in order.
LEMMA ReappliedAll ==
  ASSUME NEW r \in Seq(Fact), NEW log \in Seq(Correction), InTheirCell(r, AnchorsOf(log))
  PROVE  LET new == Reapplied(r, log)
         IN  /\ new.payload \in Seq(Fact) /\ new.log \in Seq(Correction)
             /\ AnchorsOf(new.log) = AnchorsOf(log) /\ InTheirCell(new.payload, AnchorsOf(log))
  <1> DEFINE n == Len(log)
             Rec(f) == f = [i \in 0 .. n |-> IF i = 0 THEN r ELSE Corrected(f[i - 1], log[i])]
             after == CHOOSE f : Rec(f)
             S == {p \in Seq(Fact) : InTheirCell(p, AnchorsOf(log))}
             status(i) == IF Found(after[i - 1], log[i].anchor) = {} THEN "unmatched" ELSE "reapplied"
             newlog == [i \in DOMAIN log |-> [log[i] EXCEPT !.status = status(i)]]
  <1>1. Reapplied(r, log) = [payload |-> after[n], log |-> newlog]
    BY DEF Reapplied
  <1>2. n \in Nat /\ DOMAIN log = 1 .. n /\ \A i \in 1 .. n : log[i] \in Correction
    BY ElementOfSeq, LenProperties
  <1>3. ASSUME NEW i \in 1 .. n, NEW p \in S PROVE Corrected(p, log[i]) \in S
    <2>1. i \in DOMAIN AnchorsOf(log) /\ AnchorsOf(log)[i] = log[i].anchor
      BY <1>2 DEF AnchorsOf
    <2> QED BY <1>2, <2>1, CorrectedFacts, CorrectedInCell
  <1>4. \E f : Rec(f) /\ f \in [0 .. n -> S]
    <2>1. r \in S
      OBVIOUS
    <2> HIDE DEF S
    <2> QED BY <1>2, <1>3, <2>1, OneByOne
  <1>5. Rec(after)
    <2> HIDE DEF Rec
    <2> QED BY <1>4
  <1>6. ASSUME NEW i \in 0 .. n PROVE after[i] \in S
    <2> DEFINE P == {j \in 0 .. n : after[j] \in S}
    <2> HIDE DEF after
    <2>1. after[0] = r /\ \A j \in 1 .. n : after[j] = Corrected(after[j - 1], log[j])
      BY <1>2, <1>5
    <2>2. 0 \in P /\ \A j \in 1 .. n : j - 1 \in P => j \in P
      BY <1>2, <1>3, <2>1
    <2> HIDE DEF P, S, n
    <2>3. \A j \in 0 .. n : j \in P
      BY <1>2, <2>2, UpTo
    <2> QED BY <2>3 DEF P
  <1> HIDE DEF after, Rec
  <1>7. after[n] \in Seq(Fact) /\ InTheirCell(after[n], AnchorsOf(log))
    BY <1>2, <1>6
  <1> HIDE DEF n, S
  <1>8. ASSUME NEW i \in 1 .. n PROVE newlog[i] \in Correction /\ newlog[i].anchor = log[i].anchor
    <2>1. log[i] \in Correction /\ newlog[i] = [log[i] EXCEPT !.status = status(i)]
      BY <1>2
    <2>2. status(i) \in {"applied", "unmatched", "reapplied"}
      OBVIOUS
    <2> HIDE DEF status, newlog
    <2> QED BY <2>1, <2>2 DEF Correction
  <1>9. newlog \in [1 .. n -> Correction]
    <2>1. newlog = [i \in 1 .. n |-> newlog[i]]
      BY <1>2
    <2> HIDE DEF newlog
    <2> QED BY <1>8, <2>1
  <1>10. newlog \in Seq(Correction) /\ DOMAIN newlog = DOMAIN log
    <2> HIDE DEF newlog
    <2> QED BY <1>2, <1>9, SeqDef
  <1> HIDE DEF newlog
  <1>11. AnchorsOf(newlog) = AnchorsOf(log)
    BY <1>2, <1>8, <1>10 DEF AnchorsOf
  <1> QED BY <1>1, <1>7, <1>10, <1>11

\* What an extraction generates are facts that nobody has corrected.
LEMMA GeneratedFacts ==
  ASSUME NEW p \in Payloads, NEW A
  PROVE  p \in Seq(Fact) /\ InTheirCell(p, A)
  <1>1. PICK n \in 0 .. MaxPayload : p \in [1 .. n -> Generated]
    BY DEF Payloads
  <1>2. ASSUME NEW g \in Generated PROVE g \in Fact /\ ~g.reviewed
    BY DEF Generated, Fact
  <1>3. p \in [1 .. n -> Fact] /\ n \in Nat /\ \A i \in 1 .. n : ~p[i].reviewed
    BY <1>1, <1>2
  <1>4. p \in Seq(Fact)
    BY <1>3, SeqDef
  <1> QED BY <1>3, <1>4 DEF InTheirCell

\* A writer that ends leaves the stored result coherent, and, if it has seen the
\* stored one, only the rows of the new one.
LEMMA Written ==
  ASSUME AccInv, NEW p, p.read \in AccResult, ReadBefore(p, result), p.open, NEW new, NEW seen,
         new.payload \in Seq(Fact), new.log \in Seq(Correction), Coherent(new),
         seen \in {p.read.version, result.version}, Write(new, seen)
  PROVE  /\ result' \in AccResult /\ Coherent(result)' /\ \A f \in facts' : f.fact \in Fact
         /\ result'.log = new.log /\ result'.version = result.version + 1
         /\ p.read.version = result.version /\ ~raced
              => p.read = result /\ facts' = Projected(result'.payload, result'.version)
  <1>1. result' = [payload |-> new.payload, log |-> new.log, version |-> result.version + 1]
        /\ facts' = {f \in facts : f.by > seen} \cup Projected(new.payload, result.version + 1)
    BY DEF Write
  <1>2. result.version \in Nat /\ (~raced => facts = Projected(result.payload, result.version))
        /\ \A f \in facts : f.fact \in Fact
    BY DEF AccInv, AccTypeOK, AccResult
  <1>3. result'.payload = new.payload /\ result'.log = new.log /\ result'.version = result.version + 1
    BY <1>1
  <1>4. result' \in AccResult
    BY <1>1, <1>2 DEF AccResult
  <1>5. Coherent(result)'
    BY <1>3 DEF Coherent, InTheirCell, AnchorsOf
  <1>6. ASSUME NEW f \in facts' PROVE f.fact \in Fact
    <2>1. CASE f \in facts
      BY <1>2, <2>1
    <2>2. CASE f \in Projected(new.payload, result.version + 1)
      <3>1. PICK i \in DOMAIN new.payload : f = [fact |-> new.payload[i], at |-> i, by |-> result.version + 1]
        BY <2>2 DEF Projected
      <3> QED BY <3>1, ElementOfSeq
    <2> QED BY <1>1, <2>1, <2>2
  <1>7. ASSUME p.read.version = result.version, ~raced
        PROVE  p.read = result /\ facts' = Projected(result'.payload, result'.version)
    <2>1. p.read = result
      BY <1>7 DEF ReadBefore
    <2>2. \A f \in facts : f.by = result.version
      BY <1>2, <1>7 DEF Projected
    <2>3. seen = result.version
      BY <1>7
    <2>4. {f \in facts : f.by > seen} = {}
      BY <1>2, <2>2, <2>3
    <2> QED BY <1>1, <1>3, <2>1, <2>4
  <1> QED BY <1>3, <1>4, <1>5, <1>6, <1>7

\* Nobody else has read what a writer writes.
LEMMA StillReadBefore ==
  ASSUME NEW p, NEW r, NEW s, ReadBefore(p, r), p = Idle \/ p.read \in AccResult, r.version \in Nat,
         s.version = r.version + 1
  PROVE  ReadBefore(p, s)
  <1> SUFFICES ASSUME p.open PROVE /\ Coherent(p.read) /\ p.read.version <= s.version
                                   /\ p.read.version = s.version => p.read = s
    BY DEF ReadBefore
  <1>1. p.read.version \in Nat
    BY DEF AccResult, Idle
  <1> QED BY <1>1 DEF ReadBefore

LEMMA JustRead ==
  ASSUME NEW p, NEW r, p.read = r, Coherent(r), r.version \in Nat
  PROVE  ReadBefore(p, r)
  BY DEF ReadBefore

LEMMA IdleHasReadNothing ==
  ASSUME NEW r
  PROVE  ReadBefore(Idle, r)
  BY DEF ReadBefore, Idle

LEMMA AskKeeps ==
  ASSUME AccInv, Ask
  PROVE  AccInv'
  <1>1. PICK f \in facts, change \in Changes :
           request' = [open |-> TRUE, read |-> result, change |->
                         [anchor |-> [cell |-> f.fact.cell, kind |-> f.fact.kind, amount |-> f.fact.amount],
                          change |-> change, status |-> "applied"]]
    BY DEF Ask
  <1>2. UNCHANGED <<result, facts, worker, acked, raced>>
    BY DEF Ask
  <1>3. f.fact \in Fact /\ result \in AccResult /\ result.version \in Nat
    BY DEF AccInv, AccTypeOK, AccResult
  <1>4. [cell |-> f.fact.cell, kind |-> f.fact.kind, amount |-> f.fact.amount] \in Anchor
    BY <1>3 DEF Fact, Anchor
  <1>5. request' \in [open : {TRUE}, read : AccResult, change : Correction]
    BY <1>1, <1>3, <1>4 DEF Correction
  <1>6. ReadBefore(request, result)'
    <2>1. request'.read = result'
      BY <1>1, <1>2
    <2>2. Coherent(result)' /\ result'.version \in Nat
      BY <1>2, <1>3 DEF AccInv
    <2> QED BY <2>1, <2>2, JustRead
  <1>7. ReadBefore(worker, result)' /\ Coherent(result)'
    BY <1>2 DEF AccInv
  <1> QED BY <1>2, <1>5, <1>6, <1>7 DEF AccInv, AccTypeOK, AnchorsOf, Projected

LEMMA AnswerKeeps ==
  ASSUME AccInv, request.open, Answer
  PROVE  AccInv'
  <1> DEFINE c == request.change
             read == request.read
             new == [request.read EXCEPT !.payload = Corrected(@, c), !.log = Append(@, c)]
  <1>1. PICK seen \in {read.version, result.version} : Write(new, seen)
    BY DEF Answer
  <1>2. /\ acked' = Append(acked, c.anchor) /\ raced' = (raced \/ read.version # result.version)
        /\ request' = Idle /\ UNCHANGED worker
    BY DEF Answer
  <1>3. read \in AccResult /\ c \in Correction /\ c.anchor \in Anchor
    <2>1. request # Idle
      BY DEF Idle
    <2>2. request \in [open : {TRUE}, read : AccResult, change : Correction]
      BY <2>1 DEF AccInv, AccTypeOK
    <2>3. read \in AccResult /\ c \in Correction
      BY <2>2
    <2> QED BY <2>3 DEF Correction
  <1>4. read.payload \in Seq(Fact) /\ read.log \in Seq(Correction) /\ acked \in Seq(Anchor)
        /\ result.version \in Nat
    BY <1>3 DEF AccInv, AccTypeOK, AccResult
  <1>5. new.payload = Corrected(read.payload, c) /\ new.log = Append(read.log, c)
    BY <1>3 DEF AccResult
  <1>6. Coherent(read) /\ ReadBefore(request, result) /\ ReadBefore(worker, result)
    BY DEF AccInv, ReadBefore
  <1> DEFINE A == AnchorsOf(Append(read.log, c))
             n == Len(read.log)
  <1>7. /\ n \in Nat /\ DOMAIN A = 1 .. n + 1 /\ DOMAIN AnchorsOf(read.log) = 1 .. n
        /\ A[n + 1] = c.anchor /\ \A i \in 1 .. n : A[i] = AnchorsOf(read.log)[i]
    BY <1>3, <1>4, AppendProperties, LenProperties DEF AnchorsOf
  <1> HIDE DEF A, n, new
  <1>8. InTheirCell(read.payload, A)
    <2>1. \A i \in 1 .. n : i \in 1 .. n + 1
      BY <1>7
    <2> QED BY <1>6, <1>7, <2>1 DEF Coherent, InTheirCell
  <1>9. InTheirCell(Corrected(read.payload, c), A)
    <2>1. n + 1 \in DOMAIN A
      BY <1>7
    <2> HIDE DEF c, read
    <2> QED BY <1>3, <1>4, <1>7, <1>8, <2>1, CorrectedInCell
  <1>10. new.payload \in Seq(Fact) /\ new.log \in Seq(Correction) /\ Coherent(new)
    BY <1>3, <1>4, <1>5, <1>9, CorrectedFacts, AppendProperties DEF Coherent, A
  <1>11. /\ result' \in AccResult /\ Coherent(result)' /\ \A f \in facts' : f.fact \in Fact
         /\ result'.log = new.log /\ result'.version = result.version + 1
         /\ read.version = result.version /\ ~raced
              => read = result /\ facts' = Projected(result'.payload, result'.version)
    BY <1>1, <1>3, <1>6, <1>10, Written
  <1>12. acked' \in Seq(Anchor)
    BY <1>2, <1>3, <1>4, AppendProperties
  <1>13. ASSUME ~raced' PROVE AnchorsOf(result'.log) = acked' /\ facts' = Projected(result'.payload, result'.version)
    <2>1. ~raced /\ read.version = result.version
      BY <1>2, <1>13
    <2>2. read = result /\ AnchorsOf(read.log) = acked
      BY <1>11, <2>1 DEF AccInv
    <2>3. Len(acked) = n
      BY <1>4, <1>7, <2>2, LenProperties
    <2>4. DOMAIN acked' = 1 .. n + 1 /\ acked'[n + 1] = c.anchor /\ \A i \in 1 .. n : acked'[i] = acked[i]
      BY <1>2, <1>3, <1>4, <1>7, <2>3, AppendProperties, LenProperties
    <2>5. \A i \in 1 .. n + 1 : i \in 1 .. n \/ i = n + 1
      BY <1>7
    <2>6. \A i \in 1 .. n + 1 : A[i] = acked'[i]
      BY <1>7, <2>2, <2>4, <2>5
    <2>7. A = [i \in 1 .. n + 1 |-> A[i]]
      BY <1>7 DEF A, AnchorsOf
    <2>8. acked' = [i \in 1 .. n + 1 |-> acked'[i]]
      BY <1>12, <2>4
    <2>9. A = acked'
      BY <2>6, <2>7, <2>8
    <2> QED BY <1>5, <1>11, <2>1, <2>9 DEF A
  <1>14. ReadBefore(worker, result)'
    <2>1. worker = Idle \/ worker.read \in AccResult
      BY DEF AccInv, AccTypeOK
    <2>2. ReadBefore(worker, result')
      BY <1>2, <1>4, <1>6, <1>11, <2>1, StillReadBefore
    <2> QED BY <1>2, <2>2
  <1>15. ReadBefore(request, result)'
    BY <1>2, IdleHasReadNothing
  <1> QED BY <1>2, <1>11, <1>12, <1>13, <1>14, <1>15 DEF AccInv, AccTypeOK, AnchorsOf, Projected

LEMMA ExtractKeeps ==
  ASSUME AccInv, Extract
  PROVE  AccInv'
  <1>1. PICK p \in Payloads : worker' = [open |-> TRUE, read |-> result, payload |-> p]
    BY DEF Extract
  <1>2. UNCHANGED <<result, facts, request, acked, raced>>
    BY DEF Extract
  <1>3. result \in AccResult /\ result.version \in Nat
    BY DEF AccInv, AccTypeOK, AccResult
  <1>4. worker' \in [open : {TRUE}, read : AccResult, payload : Payloads]
    BY <1>1, <1>3
  <1>5. ReadBefore(worker, result)'
    <2>1. worker'.read = result'
      BY <1>1, <1>2
    <2>2. Coherent(result)' /\ result'.version \in Nat
      BY <1>2, <1>3 DEF AccInv
    <2> QED BY <2>1, <2>2, JustRead
  <1>6. ReadBefore(request, result)' /\ Coherent(result)'
    BY <1>2 DEF AccInv
  <1> QED BY <1>2, <1>4, <1>5, <1>6 DEF AccInv, AccTypeOK, AnchorsOf, Projected

LEMMA StoreKeeps ==
  ASSUME AccInv, worker.open, Store
  PROVE  AccInv'
  <1> DEFINE read == worker.read
             new == Reapplied(worker.payload, worker.read.log)
  <1>1. PICK seen \in {read.version, result.version} : Write(new, seen)
    BY DEF Store
  <1>2. /\ raced' = (raced \/ read.version # result.version)
        /\ worker' = Idle /\ UNCHANGED <<request, acked>>
    BY DEF Store
  <1>3. read \in AccResult /\ worker.payload \in Payloads
    <2>1. worker # Idle
      BY DEF Idle
    <2>2. worker \in [open : {TRUE}, read : AccResult, payload : Payloads]
      BY <2>1 DEF AccInv, AccTypeOK
    <2> QED BY <2>2
  <1>4. read.log \in Seq(Correction) /\ result.version \in Nat
    BY <1>3 DEF AccInv, AccTypeOK, AccResult
  <1>5. ReadBefore(request, result) /\ ReadBefore(worker, result)
    BY DEF AccInv
  <1>6. /\ new.payload \in Seq(Fact) /\ new.log \in Seq(Correction)
        /\ AnchorsOf(new.log) = AnchorsOf(read.log) /\ InTheirCell(new.payload, AnchorsOf(read.log))
    BY <1>3, <1>4, GeneratedFacts, ReappliedAll
  <1> HIDE DEF new
  <1>7. Coherent(new)
    BY <1>6 DEF Coherent
  <1>8. /\ result' \in AccResult /\ Coherent(result)' /\ \A f \in facts' : f.fact \in Fact
        /\ result'.log = new.log /\ result'.version = result.version + 1
        /\ read.version = result.version /\ ~raced
             => read = result /\ facts' = Projected(result'.payload, result'.version)
    BY <1>1, <1>3, <1>5, <1>6, <1>7, Written
  <1>9. ASSUME ~raced' PROVE AnchorsOf(result'.log) = acked' /\ facts' = Projected(result'.payload, result'.version)
    BY <1>2, <1>6, <1>8, <1>9 DEF AccInv
  <1>10. ReadBefore(request, result)'
    <2>1. request = Idle \/ request.read \in AccResult
      BY DEF AccInv, AccTypeOK
    <2>2. ReadBefore(request, result')
      BY <1>2, <1>4, <1>5, <1>8, <2>1, StillReadBefore
    <2> QED BY <1>2, <2>2
  <1>11. ReadBefore(worker, result)'
    BY <1>2, IdleHasReadNothing
  <1> QED BY <1>2, <1>8, <1>9, <1>10, <1>11 DEF AccInv, AccTypeOK, AnchorsOf, Projected

\* A writer that gives up, and the rebuild, leave the results and who has read them.
LEMMA GiveUpKeeps ==
  ASSUME AccInv, GiveUp \/ RebuildFacts
  PROVE  AccInv'
  <1>1. UNCHANGED <<result, acked, raced>> /\ (request' = Idle \/ UNCHANGED request)
        /\ (worker' = Idle \/ UNCHANGED worker)
    BY DEF GiveUp, RebuildFacts
  <1>2. UNCHANGED facts \/ facts' = Projected(result.payload, result.version)
    BY DEF GiveUp, RebuildFacts
  <1>3. \A f \in facts' : f.fact \in Fact
    <2>1. CASE UNCHANGED facts
      BY <2>1 DEF AccInv, AccTypeOK
    <2>2. CASE facts' = Projected(result.payload, result.version)
      <3>1. result.payload \in Seq(Fact)
        BY DEF AccInv, AccTypeOK, AccResult
      <3>2. ASSUME NEW f \in facts' PROVE f.fact \in Fact
        <4>1. PICK i \in DOMAIN result.payload : f = [fact |-> result.payload[i], at |-> i, by |-> result.version]
          BY <2>2 DEF Projected
        <4> QED BY <3>1, <4>1, ElementOfSeq
      <3> QED BY <3>2
    <2> QED BY <1>2, <2>1, <2>2
  <1>4. ReadBefore(request, result)'
    BY <1>1, IdleHasReadNothing DEF AccInv
  <1>5. ReadBefore(worker, result)'
    BY <1>1, IdleHasReadNothing DEF AccInv
  <1>6. Coherent(result)'
    BY <1>1 DEF AccInv
  <1>7. AccTypeOK'
    BY <1>1, <1>3 DEF AccInv, AccTypeOK
  <1>8. ~raced' => AnchorsOf(result'.log) = acked' /\ facts' = Projected(result'.payload, result'.version)
    BY <1>1, <1>2 DEF AccInv
  <1> QED BY <1>4, <1>5, <1>6, <1>7, <1>8 DEF AccInv, AnchorsOf, Projected

LEMMA AccInvHolds == AccSpec => []AccInv
  <1>1. AccInit => AccInv
    <2> SUFFICES ASSUME AccInit PROVE AccInv
      OBVIOUS
    <2>1. result = [payload |-> <<>>, log |-> <<>>, version |-> 0] /\ facts = {} /\ acked = <<>>
          /\ request = Idle /\ worker = Idle
      BY DEF AccInit
    <2>2. AccTypeOK
      BY <2>1 DEF AccTypeOK, AccResult
    <2>3. Coherent(result) /\ ReadBefore(request, result) /\ ReadBefore(worker, result)
      BY <2>1 DEF Coherent, InTheirCell, ReadBefore, Idle
    <2>4. AnchorsOf(result.log) = acked /\ facts = Projected(result.payload, result.version)
      BY <2>1 DEF AnchorsOf, Projected
    <2> QED BY <2>2, <2>3, <2>4 DEF AccInv
  <1>2. AccInv /\ [AccNext]_accVars => AccInv'
    <2> SUFFICES ASSUME AccInv, [AccNext]_accVars PROVE AccInv'
      OBVIOUS
    <2>1. CASE UNCHANGED accVars
      <3>1. UNCHANGED <<result, facts, request, worker, acked, raced>>
        BY <2>1 DEF accVars
      <3>2. Coherent(result)' /\ ReadBefore(request, result)' /\ ReadBefore(worker, result)'
        BY <3>1 DEF AccInv
      <3>3. AccTypeOK'
        BY <3>1 DEF AccInv, AccTypeOK
      <3>4. ~raced' => AnchorsOf(result'.log) = acked' /\ facts' = Projected(result'.payload, result'.version)
        BY <3>1 DEF AccInv
      <3> QED BY <3>2, <3>3, <3>4 DEF AccInv, AnchorsOf, Projected
    <2>2. CASE AccNext
      BY <2>2, AskKeeps, AnswerKeeps, ExtractKeeps, StoreKeeps, GiveUpKeeps DEF AccNext
    <2> QED BY <2>1, <2>2
  <1> QED BY <1>1, <1>2, PTL DEF AccSpec

\* An acknowledged correction stays with the result, in order, through every
\* later extraction of the unit, unless a request and the worker have overlapped
\* (accounting.py:187, registry.py:143).
THEOREM AcknowledgedCorrectionsStay == AccSpec => []CorrectionsAreKept
  <1>1. AccInv => CorrectionsAreKept
    BY DEF AccInv, CorrectionsAreKept, AnchorsOf
  <1> QED BY <1>1, AccInvHolds, PTL

\* Whatever a later extraction reads, a corrected fact that names its cell is in
\* the cell of a correction that was acknowledged.
THEOREM CorrectedFactsAreTheirs == AccSpec => []CorrectionsStayInTheirCell
  <1>1. AccInv => CorrectionsStayInTheirCell
    <2> SUFFICES ASSUME AccInv, ~raced PROVE InTheirCell(result.payload, acked)
      BY DEF CorrectionsStayInTheirCell, InTheirCell
    <2> QED BY DEF AccInv, Coherent
  <1> QED BY <1>1, AccInvHolds, PTL

\* The rows the queries read are those of the stored payload, once each, unless a
\* request and the worker have overlapped.
THEOREM FactsAreOfThePayload == AccSpec => []FactsMatchPayload
  <1>1. AccInv => FactsMatchPayload
    <2> SUFFICES ASSUME AccInv, ~raced PROVE FactsMatchPayload
      BY DEF FactsMatchPayload
    <2> DEFINE p == result.payload
               D == {i \in DOMAIN p : ~p[i].excluded}
               row(i) == [fact |-> p[i], at |-> i, by |-> result.version]
    <2>1. facts = {row(i) : i \in D}
      BY DEF AccInv, Projected
    <2>2. p \in Seq(Fact)
      BY DEF AccInv, AccTypeOK, AccResult
    <2>3. \A i \in D : row(i).at = i /\ row(i).fact = p[i]
      OBVIOUS
    <2> HIDE DEF row
    <2>4. {f.at : f \in facts} = D /\ \A f \in facts : f.fact = p[f.at]
      BY <2>1, <2>3
    <2>5. IsFiniteSet(D)
      <3>2. Len(p) \in Nat /\ D \in SUBSET (1 .. Len(p))
        BY <2>2, LenProperties
      <3> HIDE DEF D, p
      <3>1. IsFiniteSet(1 .. Len(p))
        BY <3>2, FS_Interval
      <3> QED BY <3>1, <3>2, FS_Subset
    <2>6. Cardinality(facts) = Cardinality(D)
      <3> DEFINE g == [i \in D |-> row(i)]
      <3> HIDE DEF D
      <3>1. g \in Bijection(D, facts)
        BY <2>1, <2>3 DEF Bijection, Injection, Surjection, IsInjective
      <3>2. ExistsBijection(D, facts)
        BY <3>1 DEF ExistsBijection
      <3> QED BY <2>5, <3>2, FS_Bijection
    <2> QED BY <2>4, <2>6 DEF FactsMatchPayload
  <1> QED BY <1>1, AccInvHolds, PTL
-----------------------------------------------------------------------------
(* StatementExtraction: the cells that facts give as their evidence, through
   extraction, merging, labels and the correction of headers.                   *)

\* What the recursions over facts build stays in a set that their steps stay in.
\* ExtractAccounts, one table after the other.
LEMMA ExtractedStay ==
  ASSUME NEW S,
         NEW ts,
         NEW indices,
         Len(indices) \in Nat, <<>> \in S,
         \A k \in 1 .. Len(indices) : \A p \in S : p \o FactsOf(ts, indices[k]) \in S
  PROVE  ExtractAccounts(ts, indices) \in S
  <1> DEFINE n == Len(indices)
             Rec(f) == f = [k \in 0 .. n |-> IF k = 0 THEN <<>> ELSE f[k - 1] \o FactsOf(ts, indices[k])]
             after == CHOOSE f : Rec(f)
  <1>1. \A m \in Nat : m = Len(indices) => \E f : f = [k \in 0 .. m |-> IF k = 0 THEN <<>> ELSE f[k - 1] \o FactsOf(ts, indices[k])]
    <2> SUFFICES ASSUME NEW m \in Nat, m = Len(indices)
                 PROVE  \E f : f = [k \in 0 .. m |-> IF k = 0 THEN <<>> ELSE f[k - 1] \o FactsOf(ts, indices[k])]
      OBVIOUS
    <2> DEFINE step == [x \in (1 .. m) \X S |-> x[2] \o FactsOf(ts, indices[x[1]])]
    <2>1. step \in [(1 .. m) \X S -> S] /\ \A k \in 1 .. m : \A p \in S : step[<<k, p>>] = p \o FactsOf(ts, indices[k])
      OBVIOUS
    <2> HIDE DEF step
    <2>2. PICK f \in [0 .. m -> S] : IsRecursion(f, m, <<>>, step)
      BY <2>1, RecursionExists
    <2>3. f[0] = <<>> /\ \A k \in 1 .. m : f[k] = step[<<k, f[k - 1]>>]
      BY <2>2 DEF IsRecursion
    <2>4. ASSUME NEW k \in 0 .. m PROVE f[k] = IF k = 0 THEN <<>> ELSE f[k - 1] \o FactsOf(ts, indices[k])
      <3>1. CASE k = 0
        BY <2>3, <3>1
      <3>2. CASE k # 0
        <4>1. k \in 1 .. m /\ k - 1 \in 0 .. m
          BY <3>2
        <4>2. f[k - 1] \in S
          BY <4>1
        <4> QED BY <2>1, <2>3, <3>2, <4>1, <4>2
      <3> QED BY <3>1, <3>2
    <2>5. f = [k \in 0 .. m |-> f[k]]
      OBVIOUS
    <2> QED BY <2>4, <2>5
  <1>2. Rec(after)
    <2>1. \E f : Rec(f)
      BY <1>1
    <2> HIDE DEF Rec
    <2> QED BY <2>1
  <1> HIDE DEF after
  <1> DEFINE P == {k \in 0 .. n : after[k] \in S}
  <1>3. n \in Nat /\ \A k \in 1 .. n : \A p \in S : p \o FactsOf(ts, indices[k]) \in S
    OBVIOUS
  <1> HIDE DEF n
  <1>4. after[0] = <<>> /\ \A k \in 1 .. n : after[k] = after[k - 1] \o FactsOf(ts, indices[k])
    <2>1. \A k \in 0 .. n : after[k] = IF k = 0 THEN <<>> ELSE after[k - 1] \o FactsOf(ts, indices[k])
      BY <1>2
    <2>2. 0 \in 0 .. n /\ \A k \in 1 .. n : k \in 0 .. n /\ k # 0
      BY <1>3
    <2> HIDE DEF Rec
    <2> QED BY <2>1, <2>2
  <1> HIDE DEF Rec
  <1>5. 0 \in P /\ \A k \in 1 .. n : k - 1 \in P => k \in P
    <2>1. 0 \in 0 .. n /\ \A k \in 1 .. n : k \in 0 .. n
      BY <1>3
    <2> QED BY <1>3, <1>4, <2>1
  <1>6. after[n] \in S
    <2> HIDE DEF P
    <2>1. \A k \in 0 .. n : k \in P
      BY <1>3, <1>5, UpTo
    <2>2. n \in P
      BY <1>3, <2>1
    <2> QED BY <2>2 DEF P
  <1> QED BY <1>6 DEF ExtractAccounts, after, Rec, n

\* Merge, one fact after the other.
LEMMA MergedStay ==
  ASSUME NEW S,
         NEW acc,
         NEW new,
         new \in S,
         Len(new) \in Nat, acc \in S,
         \A k \in 1 .. Len(new) : \A p \in S : MergeFact(p, new[k]) \in S
  PROVE  Merge(acc, new) \in S
  <1> DEFINE n == Len(new)
             Rec(f) == f = [k \in 0 .. n |-> IF k = 0 THEN acc ELSE MergeFact(f[k - 1], new[k])]
             after == CHOOSE f : Rec(f)
  <1>1. \A m \in Nat : m = Len(new) => \E f : f = [k \in 0 .. m |-> IF k = 0 THEN acc ELSE MergeFact(f[k - 1], new[k])]
    <2> SUFFICES ASSUME NEW m \in Nat, m = Len(new)
                 PROVE  \E f : f = [k \in 0 .. m |-> IF k = 0 THEN acc ELSE MergeFact(f[k - 1], new[k])]
      OBVIOUS
    <2> DEFINE step == [x \in (1 .. m) \X S |-> MergeFact(x[2], new[x[1]])]
    <2>1. step \in [(1 .. m) \X S -> S] /\ \A k \in 1 .. m : \A p \in S : step[<<k, p>>] = MergeFact(p, new[k])
      OBVIOUS
    <2> HIDE DEF step
    <2>2. PICK f \in [0 .. m -> S] : IsRecursion(f, m, acc, step)
      BY <2>1, RecursionExists
    <2>3. f[0] = acc /\ \A k \in 1 .. m : f[k] = step[<<k, f[k - 1]>>]
      BY <2>2 DEF IsRecursion
    <2>4. ASSUME NEW k \in 0 .. m PROVE f[k] = IF k = 0 THEN acc ELSE MergeFact(f[k - 1], new[k])
      <3>1. CASE k = 0
        BY <2>3, <3>1
      <3>2. CASE k # 0
        <4>1. k \in 1 .. m /\ k - 1 \in 0 .. m
          BY <3>2
        <4>2. f[k - 1] \in S
          BY <4>1
        <4> QED BY <2>1, <2>3, <3>2, <4>1, <4>2
      <3> QED BY <3>1, <3>2
    <2>5. f = [k \in 0 .. m |-> f[k]]
      OBVIOUS
    <2> QED BY <2>4, <2>5
  <1>2. Rec(after)
    <2>1. \E f : Rec(f)
      BY <1>1
    <2> HIDE DEF Rec
    <2> QED BY <2>1
  <1> HIDE DEF after
  <1> DEFINE P == {k \in 0 .. n : after[k] \in S}
  <1>3. n \in Nat /\ \A k \in 1 .. n : \A p \in S : MergeFact(p, new[k]) \in S
    OBVIOUS
  <1> HIDE DEF n
  <1>4. after[0] = acc /\ \A k \in 1 .. n : after[k] = MergeFact(after[k - 1], new[k])
    <2>1. \A k \in 0 .. n : after[k] = IF k = 0 THEN acc ELSE MergeFact(after[k - 1], new[k])
      BY <1>2
    <2>2. 0 \in 0 .. n /\ \A k \in 1 .. n : k \in 0 .. n /\ k # 0
      BY <1>3
    <2> HIDE DEF Rec
    <2> QED BY <2>1, <2>2
  <1> HIDE DEF Rec
  <1>5. 0 \in P /\ \A k \in 1 .. n : k - 1 \in P => k \in P
    <2>1. 0 \in 0 .. n /\ \A k \in 1 .. n : k \in 0 .. n
      BY <1>3
    <2> QED BY <1>3, <1>4, <2>1
  <1>6. after[n] \in S
    <2> HIDE DEF P
    <2>1. \A k \in 0 .. n : k \in P
      BY <1>3, <1>5, UpTo
    <2>2. n \in P
      BY <1>3, <2>1
    <2> QED BY <2>2 DEF P
  <1> QED BY <1>6 DEF Merge, after, Rec, n

\* RelabelAll, one table after the other.
LEMMA RelabelledStay ==
  ASSUME NEW S,
         NEW fs,
         NEW s,
         NEW label,
         Len(s) \in Nat, fs \in S,
         \A k \in 1 .. Len(s) : \A p \in S : Relabel(p, s[k], label[s[k]]) \in S
  PROVE  RelabelAll(fs, s, label) \in S
  <1> DEFINE n == Len(s)
             Rec(f) == f = [k \in 0 .. n |-> IF k = 0 THEN fs ELSE Relabel(f[k - 1], s[k], label[s[k]])]
             after == CHOOSE f : Rec(f)
  <1>1. \A m \in Nat : m = Len(s) => \E f : f = [k \in 0 .. m |-> IF k = 0 THEN fs ELSE Relabel(f[k - 1], s[k], label[s[k]])]
    <2> SUFFICES ASSUME NEW m \in Nat, m = Len(s)
                 PROVE  \E f : f = [k \in 0 .. m |-> IF k = 0 THEN fs ELSE Relabel(f[k - 1], s[k], label[s[k]])]
      OBVIOUS
    <2> DEFINE step == [x \in (1 .. m) \X S |-> Relabel(x[2], s[x[1]], label[s[x[1]]])]
    <2>1. step \in [(1 .. m) \X S -> S] /\ \A k \in 1 .. m : \A p \in S : step[<<k, p>>] = Relabel(p, s[k], label[s[k]])
      OBVIOUS
    <2> HIDE DEF step
    <2>2. PICK f \in [0 .. m -> S] : IsRecursion(f, m, fs, step)
      BY <2>1, RecursionExists
    <2>3. f[0] = fs /\ \A k \in 1 .. m : f[k] = step[<<k, f[k - 1]>>]
      BY <2>2 DEF IsRecursion
    <2>4. ASSUME NEW k \in 0 .. m PROVE f[k] = IF k = 0 THEN fs ELSE Relabel(f[k - 1], s[k], label[s[k]])
      <3>1. CASE k = 0
        BY <2>3, <3>1
      <3>2. CASE k # 0
        <4>1. k \in 1 .. m /\ k - 1 \in 0 .. m
          BY <3>2
        <4>2. f[k - 1] \in S
          BY <4>1
        <4> QED BY <2>1, <2>3, <3>2, <4>1, <4>2
      <3> QED BY <3>1, <3>2
    <2>5. f = [k \in 0 .. m |-> f[k]]
      OBVIOUS
    <2> QED BY <2>4, <2>5
  <1>2. Rec(after)
    <2>1. \E f : Rec(f)
      BY <1>1
    <2> HIDE DEF Rec
    <2> QED BY <2>1
  <1> HIDE DEF after
  <1> DEFINE P == {k \in 0 .. n : after[k] \in S}
  <1>3. n \in Nat /\ \A k \in 1 .. n : \A p \in S : Relabel(p, s[k], label[s[k]]) \in S
    OBVIOUS
  <1> HIDE DEF n
  <1>4. after[0] = fs /\ \A k \in 1 .. n : after[k] = Relabel(after[k - 1], s[k], label[s[k]])
    <2>1. \A k \in 0 .. n : after[k] = IF k = 0 THEN fs ELSE Relabel(after[k - 1], s[k], label[s[k]])
      BY <1>2
    <2>2. 0 \in 0 .. n /\ \A k \in 1 .. n : k \in 0 .. n /\ k # 0
      BY <1>3
    <2> HIDE DEF Rec
    <2> QED BY <2>1, <2>2
  <1> HIDE DEF Rec
  <1>5. 0 \in P /\ \A k \in 1 .. n : k - 1 \in P => k \in P
    <2>1. 0 \in 0 .. n /\ \A k \in 1 .. n : k \in 0 .. n
      BY <1>3
    <2> QED BY <1>3, <1>4, <2>1
  <1>6. after[n] \in S
    <2> HIDE DEF P
    <2>1. \A k \in 0 .. n : k \in P
      BY <1>3, <1>5, UpTo
    <2>2. n \in P
      BY <1>3, <2>1
    <2> QED BY <2>2 DEF P
  <1> QED BY <1>6 DEF RelabelAll, after, Rec, n

-----------------------------------------------------------------------------
Headings == {"total", "tot", "quota"}
AmountCell == [header : Headings, amount : Nat]
ParsedTable == [type : Types, cells : Seq(AmountCell), label : Labels \cup {NoLabel}]
CategoryNames == Headings \cup Labels \cup {"Totale gestione", "unknown", NoLabel}
StatedFact(ts) ==
  [category : CategoryNames, total : BOOLEAN, table : 0 .. Len(ts), column : Headings \cup {NoLabel}, amount : Nat]
\* The facts with evidence that the tables have.
LocatedFact(ts) ==
  {f \in StatedFact(ts) : f.table # 0 => Cell(f.column, f.amount) \in ToSet(ts[f.table].cells)}

LEMMA FactsOfTable ==
  ASSUME NEW ts \in Seq(ParsedTable), NEW i \in DOMAIN ts
  PROVE  FactsOf(ts, i) \in Seq(LocatedFact(ts))
  <1>1. i \in 1 .. Len(ts) /\ Len(ts) \in Nat /\ ts[i] \in ParsedTable
    BY LenProperties, ElementOfSeq
  <1>2. ts[i].cells \in Seq(AmountCell) /\ ts[i].label \in Labels \cup {NoLabel}
    BY <1>1 DEF ParsedTable
  <1> DEFINE cells == ts[i].cells
             fact(j) == [category |-> Category(ts[i], cells[j].header), total |-> Total(cells[j].header),
                         table |-> i, column |-> cells[j].header, amount |-> cells[j].amount]
  <1>3. ASSUME NEW j \in DOMAIN cells PROVE fact(j) \in LocatedFact(ts)
    <2>1. cells[j] \in AmountCell
      BY <1>2, LenProperties, ElementOfSeq
    <2>2. cells[j].header \in Headings /\ cells[j].amount \in Nat
          /\ cells[j] = Cell(cells[j].header, cells[j].amount)
      BY <2>1 DEF AmountCell, Cell
    <2>3. Category(ts[i], cells[j].header) \in CategoryNames
      BY <1>2, <2>2 DEF Category, CategoryNames
    <2>4. Total(cells[j].header) \in BOOLEAN
      BY DEF Total
    <2> DEFINE cat == Category(ts[i], cells[j].header)
               tot == Total(cells[j].header)
               h == cells[j].header
               n == cells[j].amount
    <2>5. Cell(h, n) \in ToSet(cells)
      BY <2>2 DEF ToSet
    <2> HIDE DEF cat, tot, h, n
    <2>6. [category |-> cat, total |-> tot, table |-> i, column |-> h, amount |-> n] \in StatedFact(ts)
      BY <1>1, <2>2, <2>3, <2>4 DEF StatedFact, cat, tot, h, n
    <2>7. [category |-> cat, total |-> tot, table |-> i, column |-> h, amount |-> n] \in LocatedFact(ts)
      BY <2>5, <2>6 DEF LocatedFact
    <2> QED BY <2>7 DEF cat, tot, h, n
  <1> DEFINE g == [j \in DOMAIN cells |-> fact(j)]
  <1>4. FactsOf(ts, i) = <<>> \/ FactsOf(ts, i) = g
    BY DEF FactsOf
  <1>5. PICK n \in Nat : DOMAIN cells = 1 .. n
    BY <1>2, LenProperties
  <1> HIDE DEF fact, cells
  <1>6. g \in [1 .. n -> LocatedFact(ts)]
    BY <1>3, <1>5
  <1> HIDE DEF g
  <1>7. g \in Seq(LocatedFact(ts))
    BY <1>6, SeqDef
  <1>8. <<>> \in Seq(LocatedFact(ts))
    OBVIOUS
  <1>9. CASE FactsOf(ts, i) = <<>>
    BY <1>8, <1>9
  <1>10. CASE FactsOf(ts, i) = g
    BY <1>7, <1>10
  <1> QED BY <1>4, <1>9, <1>10

LEMMA ExtractedFacts ==
  ASSUME NEW ts \in Seq(ParsedTable), NEW indices \in Seq(DOMAIN ts)
  PROVE  ExtractAccounts(ts, indices) \in Seq(LocatedFact(ts))
  <1> DEFINE S == Seq(LocatedFact(ts))
  <1>1. Len(indices) \in Nat /\ \A k \in 1 .. Len(indices) : indices[k] \in DOMAIN ts
    BY LenProperties, ElementOfSeq
  <1>2. \A k \in 1 .. Len(indices) : FactsOf(ts, indices[k]) \in S
    BY <1>1, FactsOfTable
  <1>3. \A k \in 1 .. Len(indices) : \A p \in S : p \o FactsOf(ts, indices[k]) \in S
    BY <1>2, ConcatProperties
  <1>4. <<>> \in S
    OBVIOUS
  <1> HIDE DEF S
  <1>5. ExtractAccounts(ts, indices) \in S
    BY <1>1, <1>3, <1>4, ExtractedStay
  <1> QED BY <1>5 DEF S

LEMMA MergedFacts ==
  ASSUME NEW F, NEW acc \in Seq(F), NEW new \in Seq(F)
  PROVE  Merge(acc, new) \in Seq(F)
  <1>1. Len(new) \in Nat /\ \A k \in 1 .. Len(new) : new[k] \in F
    BY LenProperties, ElementOfSeq
  <1>2. \A k \in 1 .. Len(new) : \A p \in Seq(F) : MergeFact(p, new[k]) \in Seq(F)
    BY <1>1, AppendProperties DEF MergeFact
  <1> QED BY <1>1, <1>2, MergedStay

LEMMA RelabelledFacts ==
  ASSUME NEW ts, NEW fs \in Seq(LocatedFact(ts)), NEW s, Len(s) \in Nat, NEW label,
         \A k \in 1 .. Len(s) : label[s[k]] \in Labels
  PROVE  RelabelAll(fs, s, label) \in Seq(LocatedFact(ts))
  <1> DEFINE S == Seq(LocatedFact(ts))
  <1>1. ASSUME NEW p \in S, NEW i, NEW l \in Labels PROVE Relabel(p, i, l) \in S
    <2>1. PICK n \in Nat : DOMAIN p = 1 .. n
      BY LenProperties
    <2>2. ASSUME NEW j \in 1 .. n PROVE Relabel(p, i, l)[j] \in LocatedFact(ts)
      <3>1. p[j] \in LocatedFact(ts)
        BY <2>1, LenProperties, ElementOfSeq
      <3>2. Relabel(p, i, l)[j] = p[j] \/ Relabel(p, i, l)[j] = [p[j] EXCEPT !.category = l]
        BY <2>1 DEF Relabel
      <3>3. [p[j] EXCEPT !.category = l] \in LocatedFact(ts)
        <4>1. p[j] \in StatedFact(ts) /\ l \in CategoryNames
          BY <3>1 DEF LocatedFact, CategoryNames
        <4> DEFINE q == [p[j] EXCEPT !.category = l]
        <4>2. q \in StatedFact(ts) /\ q.table = p[j].table /\ q.column = p[j].column /\ q.amount = p[j].amount
          BY <4>1 DEF StatedFact
        <4> HIDE DEF q
        <4>3. q \in LocatedFact(ts)
          BY <3>1, <4>2 DEF LocatedFact
        <4> QED BY <4>3 DEF q
      <3> QED BY <3>1, <3>2, <3>3
    <2>3. Relabel(p, i, l) = [j \in 1 .. n |-> Relabel(p, i, l)[j]]
      BY <2>1 DEF Relabel
    <2>4. Relabel(p, i, l) \in [1 .. n -> LocatedFact(ts)]
      BY <2>2, <2>3
    <2> QED BY <2>4, SeqDef
  <1>2. \A k \in 1 .. Len(s) : \A p \in S : Relabel(p, s[k], label[s[k]]) \in S
    BY <1>1
  <1> HIDE DEF S
  <1>3. fs \in S
    BY DEF S
  <1>4. RelabelAll(fs, s, label) \in S
    BY <1>2, <1>3, RelabelledStay
  <1> QED BY <1>4 DEF S

LEMMA RenamedTable ==
  ASSUME NEW t \in ParsedTable
  PROVE  Rename(t) \in ParsedTable
  <1>1. CASE "tot" \in Headers(t) /\ "total" \notin Headers(t)
    <2> DEFINE i == CHOOSE j \in DOMAIN t.cells : t.cells[j].header = "tot"
               moved == Append(RemoveAt(t.cells, i), Cell("total", t.cells[i].amount))
    <2>1. t.cells \in Seq(AmountCell)
      BY DEF ParsedTable
    <2>2. i \in DOMAIN t.cells
      BY <1>1 DEF Headers
    <2>3. Rename(t) = [t EXCEPT !.cells = moved]
      BY <1>1 DEF Rename
    <2> HIDE DEF i
    <2>4. t.cells[i] \in AmountCell
      BY <2>1, <2>2, LenProperties, ElementOfSeq
    <2>5. Cell("total", t.cells[i].amount) \in AmountCell
      BY <2>4 DEF AmountCell, Cell, Headings
    <2>6. RemoveAt(t.cells, i) \in Seq(AmountCell)
      BY <2>1, <2>2, RemovedFromOrder
    <2>7. moved \in Seq(AmountCell)
      BY <2>5, <2>6, AppendProperties
    <2> HIDE DEF moved
    <2> QED BY <2>3, <2>7 DEF ParsedTable
  <1>2. CASE ~("tot" \in Headers(t) /\ "total" \notin Headers(t))
    BY <1>2 DEF Rename
  <1> QED BY <1>1, <1>2

LEMMA AppliedTables ==
  ASSUME NEW ts \in Seq(ParsedTable), NEW p \in Proposals(ts)
  PROVE  Apply(ts, p) \in Seq(ParsedTable) /\ DOMAIN Apply(ts, p) = DOMAIN ts
  <1>1. PICK n \in Nat : DOMAIN ts = 1 .. n
    BY LenProperties
  <1>2. DOMAIN Apply(ts, p) = DOMAIN ts
    BY DEF Apply
  <1>3. ASSUME NEW i \in 1 .. n PROVE Apply(ts, p)[i] \in ParsedTable
    <2>1. ts[i] \in ParsedTable /\ p[i].type \in Types
      BY <1>1, LenProperties, ElementOfSeq DEF Proposals
    <2> DEFINE t == IF p[i].rename THEN Rename(ts[i]) ELSE ts[i]
    <2>2. t \in ParsedTable
      BY <2>1, RenamedTable
    <2>3. Apply(ts, p)[i] = [t EXCEPT !.type = p[i].type]
      BY <1>1 DEF Apply
    <2> HIDE DEF t
    <2> QED BY <2>1, <2>2, <2>3 DEF ParsedTable
  <1>4. Apply(ts, p) = [i \in 1 .. n |-> Apply(ts, p)[i]]
    BY <1>1 DEF Apply
  <1>5. Apply(ts, p) \in [1 .. n -> ParsedTable]
    BY <1>3, <1>4
  <1> QED BY <1>2, <1>5, SeqDef

EvidenceInv == tables \in Seq(ParsedTable) /\ accounts \in Seq(LocatedFact(tables))

LEMMA ParseLocates ==
  ASSUME Parse, accounts = <<>>
  PROVE  EvidenceInv'
  <1>1. PICK n \in 0 .. MaxTables : tables' \in [1 .. n -> Table]
    BY DEF Parse
  <1>2. accounts' = <<>>
    BY DEF Parse
  <1>3. ASSUME NEW t \in Table PROVE t \in ParsedTable
    <2>1. t.cells \in Layouts
      BY DEF Table
    <2>2. Cell("total", 1) \in AmountCell /\ Cell("tot", 2) \in AmountCell /\ Cell("quota", 1) \in AmountCell
          /\ Cell("tot", 1) \in AmountCell /\ Cell("total", 2) \in AmountCell
      BY DEF Cell, AmountCell, Headings
    <2> DEFINE c == t.cells
    <2>4. \/ c = <<Cell("total", 1)>>
          \/ c = <<Cell("tot", 2), Cell("quota", 1)>>
          \/ c = <<Cell("tot", 1), Cell("total", 2)>>
      BY <2>1 DEF Layouts
    <2> HIDE DEF c
    <2>5. c \in [1 .. 1 -> AmountCell] \/ c \in [1 .. 2 -> AmountCell]
      <3>1. CASE c = <<Cell("total", 1)>>
        BY <2>2, <3>1
      <3>2. CASE c = <<Cell("tot", 2), Cell("quota", 1)>>
        BY <2>2, <3>2
      <3>3. CASE c = <<Cell("tot", 1), Cell("total", 2)>>
        BY <2>2, <3>3
      <3> QED BY <2>4, <3>1, <3>2, <3>3
    <2>6. c \in Seq(AmountCell)
      BY <2>5, SeqDef
    <2>3. t.cells \in Seq(AmountCell)
      BY <2>6 DEF c
    <2> QED BY <2>3 DEF Table, ParsedTable
  <1>4. tables' \in [1 .. n -> ParsedTable] /\ n \in Nat
    BY <1>1, <1>3
  <1>5. tables' \in Seq(ParsedTable)
    BY <1>4, SeqDef
  <1> QED BY <1>2, <1>5 DEF EvidenceInv

LEMMA SelectedTables ==
  ASSUME tables \in Seq(ParsedTable), NEW s \in Indices
  PROVE  s \in Seq(DOMAIN tables) /\ Len(s) \in Nat
  <1>1. PICK n \in 1 .. MaxTables : s \in [1 .. n -> DOMAIN tables]
    BY DEF Indices
  <1>2. s \in Seq(DOMAIN tables)
    BY <1>1, SeqDef
  <1> QED BY <1>2, LenProperties

LEMMA ToolExtractLocates ==
  ASSUME EvidenceInv, ToolExtract
  PROVE  EvidenceInv'
  <1> PICK s \in Indices : \E label \in Labels \cup {NoLabel} :
         LET labelled == IF label = NoLabel THEN tables
                  ELSE [i \in DOMAIN tables |-> IF i \in ToSet(s) THEN [tables[i] EXCEPT !.label = label]
                                                ELSE tables[i]]
         IN  tables' = labelled /\ accounts' = Merge(accounts, ExtractAccounts(labelled, s))
    BY DEF ToolExtract
  <1> PICK label \in Labels \cup {NoLabel} :
         LET labelled == IF label = NoLabel THEN tables
                  ELSE [i \in DOMAIN tables |-> IF i \in ToSet(s) THEN [tables[i] EXCEPT !.label = label]
                                                ELSE tables[i]]
         IN  tables' = labelled /\ accounts' = Merge(accounts, ExtractAccounts(labelled, s))
    OBVIOUS
  <1>1. PICK n \in Nat : DOMAIN tables = 1 .. n
    BY LenProperties DEF EvidenceInv
  <1>2. tables \in Seq(ParsedTable)
    BY DEF EvidenceInv
  <1>3. DOMAIN tables' = 1 .. n
    BY <1>1
  <1>4. ASSUME NEW i \in 1 .. n
        PROVE  tables'[i] \in ParsedTable /\ tables'[i].cells = tables[i].cells
    <2>1. tables[i] \in ParsedTable
      BY <1>1, <1>2, LenProperties, ElementOfSeq
    <2>2. tables'[i] = tables[i] \/ tables'[i] = [tables[i] EXCEPT !.label = label]
      BY <1>1
    <2>3. [tables[i] EXCEPT !.label = label] \in ParsedTable
          /\ [tables[i] EXCEPT !.label = label].cells = tables[i].cells
      BY <2>1 DEF ParsedTable
    <2> QED BY <2>1, <2>2, <2>3
  <1>5. tables' = [i \in 1 .. n |-> tables'[i]]
    <2>1. CASE label = NoLabel
      <3>1. tables \in [1 .. Len(tables) -> ParsedTable] /\ 1 .. Len(tables) = 1 .. n
        BY <1>1, <1>2, LenProperties
      <3>2. tables = [i \in 1 .. n |-> tables[i]]
        BY <3>1
      <3> QED BY <2>1, <3>2
    <2>2. CASE label # NoLabel
      BY <1>1, <2>2
    <2> QED BY <2>1, <2>2
  <1>6. tables' \in Seq(ParsedTable)
    <2>1. tables' \in [1 .. n -> ParsedTable]
      BY <1>4, <1>5
    <2> QED BY <2>1, SeqDef
  <1>7. LocatedFact(tables') = LocatedFact(tables)
    <2>1. Len(tables) = n /\ Len(tables') = n
      BY <1>1, <1>2, <1>3, <1>6, LenProperties
    <2>2. \A f \in StatedFact(tables) : f.table # 0 => f.table \in 1 .. n
      BY <2>1 DEF StatedFact
    <2>3. StatedFact(tables') = StatedFact(tables)
      BY <2>1 DEF StatedFact
    <2> QED BY <1>4, <2>2, <2>3 DEF LocatedFact
  <1>8. s \in Seq(DOMAIN tables')
    BY <1>1, <1>2, <1>3, SelectedTables
  <1>9. ExtractAccounts(tables', s) \in Seq(LocatedFact(tables'))
    BY <1>6, <1>8, ExtractedFacts
  <1>10. accounts' = Merge(accounts, ExtractAccounts(tables', s))
    OBVIOUS
  <1>11. accounts' \in Seq(LocatedFact(tables'))
    BY <1>7, <1>9, <1>10, MergedFacts DEF EvidenceInv
  <1> QED BY <1>6, <1>11 DEF EvidenceInv

LEMMA OtherToolsLocate ==
  ASSUME EvidenceInv, ToolLlmExtract \/ ToolLabel \/ ToolRead \/ AgentEnds \/ Conclude
  PROVE  EvidenceInv'
  <1>1. UNCHANGED tables /\ tables \in Seq(ParsedTable) /\ accounts \in Seq(LocatedFact(tables))
    BY DEF ToolLlmExtract, ToolLabel, ToolRead, AgentEnds, Conclude, EvidenceInv
  <1>2. accounts' \in Seq(LocatedFact(tables))
    <2>1. CASE ToolLlmExtract
      <3>1. PICK label \in Labels \cup {"unknown"} :
               accounts' = Merge(accounts, <<[category |-> label, total |-> FALSE, table |-> 0,
                                              column |-> NoLabel, amount |-> 1]>>)
        BY <2>1 DEF ToolLlmExtract
      <3> DEFINE f == [category |-> label, total |-> FALSE, table |-> 0, column |-> NoLabel, amount |-> 1]
      <3>2. Len(tables) \in Nat /\ label \in CategoryNames
        BY <1>1, LenProperties DEF CategoryNames
      <3>3. f \in StatedFact(tables) /\ f.table = 0
        BY <3>2 DEF StatedFact
      <3>4. f \in LocatedFact(tables)
        BY <3>3 DEF LocatedFact
      <3>5. accounts' = Merge(accounts, <<f>>)
        BY <3>1
      <3> HIDE DEF f
      <3>6. <<f>> \in Seq(LocatedFact(tables))
        BY <3>4
      <3> QED BY <1>1, <3>5, <3>6, MergedFacts
    <2>2. CASE ToolLabel
      <3>1. PICK s \in Indices : \E label \in [ToSet(s) -> Labels] : accounts' = RelabelAll(accounts, s, label)
        BY <2>2 DEF ToolLabel
      <3>2. PICK label \in [ToSet(s) -> Labels] : accounts' = RelabelAll(accounts, s, label)
        BY <3>1
      <3>3. Len(s) \in Nat /\ DOMAIN s = 1 .. Len(s)
        BY <1>1, SelectedTables, LenProperties
      <3>4. \A k \in 1 .. Len(s) : label[s[k]] \in Labels
        BY <3>3 DEF ToSet
      <3> QED BY <1>1, <3>2, <3>3, <3>4, RelabelledFacts
    <2>3. CASE ToolRead \/ AgentEnds \/ Conclude
      BY <1>1, <2>3 DEF ToolRead, AgentEnds, Conclude
    <2> QED BY <2>1, <2>2, <2>3
  <1> QED BY <1>1, <1>2 DEF EvidenceInv

LEMMA CorrectLocates ==
  ASSUME EvidenceInv, Correct
  PROVE  EvidenceInv'
  <1>1. CASE UNCHANGED <<tables, accounts>>
    BY <1>1 DEF EvidenceInv
  <1>2. ASSUME NEW p \in Proposals(tables),
               tables' = Reconcile(tables, accounts, p).tables,
               accounts' = Reconcile(tables, accounts, p).accounts
        PROVE  EvidenceInv'
    <2> DEFINE ts == Apply(tables, p)
               all == [i \in DOMAIN tables |-> i]
    <2>1. tables \in Seq(ParsedTable)
      BY DEF EvidenceInv
    <2>2. ts \in Seq(ParsedTable) /\ DOMAIN ts = DOMAIN tables
      BY <2>1, AppliedTables
    <2>3. all \in Seq(DOMAIN ts)
      <3> PICK n \in Nat : DOMAIN tables = 1 .. n
        BY <2>1, LenProperties
      <3>1. all \in [1 .. n -> DOMAIN ts]
        BY <2>2
      <3> QED BY <3>1, SeqDef
    <2>4. ExtractAccounts(ts, all) \in Seq(LocatedFact(ts))
      BY <2>2, <2>3, ExtractedFacts
    <2>5. \/ tables' = tables /\ accounts' = accounts
          \/ tables' = ts /\ accounts' = ExtractAccounts(ts, all)
      BY <1>2 DEF Reconcile
    <2> HIDE DEF ts, all
    <2> QED BY <2>2, <2>4, <2>5 DEF EvidenceInv
  <1> QED BY <1>1, <1>2 DEF Correct

\* Through the merges, labels and corrections of the extraction, a fact that gives
\* a cell as its evidence gives one that the tables have, with its amount
\* (accounting_statement.py:536).
THEOREM FactsAreLocated == StmtSpec => []EvidenceLocatesAmount
  <1> DEFINE Inv == EvidenceInv /\ (stage = "start" => accounts = <<>>)
  <1>1. StmtInit => Inv
    BY DEF StmtInit, EvidenceInv
  <1>2. Inv /\ [StmtNext]_stmtVars => Inv'
    <2> SUFFICES ASSUME Inv, [StmtNext]_stmtVars PROVE Inv'
      OBVIOUS
    <2>1. stage' = "start" => UNCHANGED stmtVars
      BY DEF StmtNext, Parse, ToolExtract, ToolLlmExtract, ToolLabel, ToolRead, AgentEnds, Correct, Conclude,
             AgentTurn, Stay
    <2>2. (stage = "start" => accounts = <<>>)'
      BY <2>1 DEF stmtVars
    <2>3. EvidenceInv'
      <3>1. CASE UNCHANGED stmtVars
        BY <3>1 DEF stmtVars, EvidenceInv
      <3>2. CASE StmtNext
        BY <3>2, ParseLocates, ToolExtractLocates, OtherToolsLocate, CorrectLocates DEF StmtNext, Parse
      <3> QED BY <3>1, <3>2
    <2> QED BY <2>2, <2>3
  <1>3. Inv => EvidenceLocatesAmount
    <2> SUFFICES ASSUME Inv, NEW j \in DOMAIN accounts
                 PROVE  accounts[j].table # 0 =>
                          Cell(accounts[j].column, accounts[j].amount) \in ToSet(tables[accounts[j].table].cells)
      BY DEF EvidenceLocatesAmount
    <2>1. accounts[j] \in LocatedFact(tables)
      BY LenProperties, ElementOfSeq DEF EvidenceInv
    <2> QED BY <2>1 DEF LocatedFact
  <1> QED BY <1>1, <1>2, <1>3, PTL DEF StmtSpec

-----------------------------------------------------------------------------
(* AccountingAnswers: the totals of an answer. *)

\* A question, and the tables of its rows.
Asked(q) ==
  /\ q = [tables |-> q.tables, asked |-> q.asked, planned |-> q.planned,
          subject |-> q.subject, answer |-> q.answer]
  /\ q.tables \in [TableUnits -> Tables \cup {NoTable}]

\* What some rows add up to in some columns, row by row.
SumOf(q, columns, units) == SumFunction([u \in units |-> SumFunctionOnSet(q.tables[u].cells, columns)])

\* The columns an answer on two sets of rows is added up from.
Reported(q, A, B) == \E c \in Totals : SumCategory(q, A, c) # 0 \/ SumCategory(q, B, c) # 0
AddedUp(q, A, B) == IF Reported(q, A, B) THEN Totals ELSE Details

\* The cells of a table are amounts.
LEMMA CellsAreAmounts ==
  ASSUME NEW q, Asked(q), NEW u \in Dataframes(q), NEW c \in Categories
  PROVE  q.tables[u].cells[c] \in Int
  <1>1. q.tables[u] \in Tables
    BY DEF Asked, Dataframes
  <1> DEFINE cells == q.tables[u].cells
  <1>2. cells \in TableCells \/ cells = NoCells
    BY <1>1 DEF Tables
  <1> HIDE DEF cells
  <1>3. CASE cells \in TableCells
    <2>1. cells[c] \in (-MaxAmount)..MaxAmount
      BY <1>3 DEF TableCells
    <2> QED BY <2>1, AnswerAssumption DEF cells
  <1>4. CASE cells = NoCells
    BY <1>4 DEF NoCells, cells
  <1> QED BY <1>2, <1>3, <1>4

\* What a category adds up to over some rows.
LEMMA CategoryAddsUp ==
  ASSUME NEW q, Asked(q), NEW U \in SUBSET Dataframes(q), NEW c \in Categories
  PROVE  /\ IsFiniteSet(U)
         /\ SumCategory(q, U, c) = SumFunctionOnSet([u \in U |-> q.tables[u].cells[c]], U)
         /\ SumCategory(q, U, c) \in Int
  <1>1. IsFiniteSet(U)
    BY AnswerAssumption, FS_Subset DEF Dataframes
  <1> DEFINE f == [u \in U |-> q.tables[u].cells[c]]
  <1>2. DOMAIN f = U /\ \A u \in U : f[u] \in Int
    BY CellsAreAmounts
  <1>3. SumCategory(q, U, c) = SumFunctionOnSet(f, DOMAIN f)
    BY DEF SumCategory, SumFunction
  <1> HIDE DEF f
  <1>4. SumFunctionOnSet(f, U) \in Int
    BY <1>1, <1>2, SumUnfolds
  <1> QED BY <1>1, <1>2, <1>3, <1>4 DEF f

\* Columns that add up to nothing may be left out, and adding up column by column
\* is adding up row by row.
LEMMA ColumnsAddUp ==
  ASSUME NEW q, Asked(q), NEW A \in SUBSET Dataframes(q), NEW C \in SUBSET Categories, NEW S \in SUBSET C,
         \A c \in C \ S : SumCategory(q, A, c) = 0
  PROVE  SumFunction([c \in S |-> SumCategory(q, A, c)]) = SumOf(q, C, A) /\ SumOf(q, C, A) \in Int
  <1>1. IsFiniteSet(A)
    BY AnswerAssumption, FS_Subset DEF Dataframes
  <1>2. IsFiniteSet(S) /\ IsFiniteSet(C)
    <2>1. IsFiniteSet(Categories)
      BY AnswerAssumption, FS_Union DEF Categories
    <2> QED BY <2>1, FS_Subset
  <1> DEFINE over == [c \in S |-> SumCategory(q, A, c)]
             column == [c \in C |-> SumCategory(q, A, c)]
             m == [u \in A |-> q.tables[u].cells]
  <1>3. \A c \in C : /\ SumCategory(q, A, c) = SumFunctionOnSet([u \in A |-> q.tables[u].cells[c]], A)
                     /\ SumCategory(q, A, c) \in Int
    BY CategoryAddsUp
  <1>4. SumFunction(over) = SumFunctionOnSet(over, DOMAIN over) /\ DOMAIN over = S
    BY DEF SumFunction
  <1>5. \A c \in S : over[c] \in Int /\ column[c] = over[c]
    BY <1>3
  <1>6. (\A c \in C : column[c] \in Int) /\ \A c \in C \ S : column[c] = 0
    BY <1>3
  <1>7. column = [c \in C |-> SumFunctionOnSet([u \in A |-> q.tables[u].cells[c]], A)]
    BY <1>3
  <1> HIDE DEF over, column
  <1>8. SumFunctionOnSet(over, S) = SumFunctionOnSet(column, S)
    BY <1>2, <1>5, SumsAgree
  <1>9. SumFunctionOnSet(column, C) = SumFunctionOnSet(column, S)
    BY <1>2, <1>6, SumWithoutZeros
  <1>10. \A u \in A : \A c \in C : m[u][c] \in Int
    BY CellsAreAmounts
  <1>11. SumFunctionOnSet([u \in A |-> SumFunctionOnSet(m[u], C)], A)
           = SumFunctionOnSet([c \in C |-> SumFunctionOnSet([u \in A |-> m[u][c]], A)], C)
    <2> HIDE DEF m
    <2> QED BY <1>1, <1>2, <1>10, SumsExchange, Zenon
  <1>12. [u \in A |-> SumFunctionOnSet(m[u], C)] = [u \in A |-> SumFunctionOnSet(q.tables[u].cells, C)]
    OBVIOUS
  <1>13. \A c \in C : [u \in A |-> m[u][c]] = [u \in A |-> q.tables[u].cells[c]]
    OBVIOUS
  <1>14. [c \in C |-> SumFunctionOnSet([u \in A |-> m[u][c]], A)] = column
    BY <1>7, <1>13
  <1>15. SumOf(q, C, A) = SumFunctionOnSet([u \in A |-> SumFunctionOnSet(q.tables[u].cells, C)], A)
    BY DEF SumOf, SumFunction
  <1> HIDE DEF m
  <1>16. SumFunctionOnSet(column, C) = SumOf(q, C, A)
    BY <1>11, <1>12, <1>14, <1>15
  <1>17. SumFunctionOnSet(column, C) \in Int
    BY <1>2, <1>6, SumUnfolds
  <1> QED BY <1>4, <1>8, <1>9, <1>16, <1>17 DEF over

\* The columns of totals when one is shown, else those of the details.
LEMMA TotalAddsUp ==
  ASSUME NEW q, Asked(q), NEW A \in SUBSET Dataframes(q), NEW B \in SUBSET Dataframes(q)
  PROVE  /\ TotalAmount(q, Shown(q, A, B), A) = SumOf(q, AddedUp(q, A, B), A)
         /\ SumOf(q, AddedUp(q, A, B), A) \in Int
  <1> DEFINE shown == Shown(q, A, B)
             totals == shown \cap Totals
             S == IF totals # {} THEN totals ELSE shown
             C == AddedUp(q, A, B)
  <1>1. totals # {} <=> Reported(q, A, B)
    BY DEF Shown, Reported, Categories
  <1>2. C \in SUBSET Categories /\ S \in SUBSET C
    BY <1>1 DEF AddedUp, Shown, Categories
  <1>3. \A c \in C \ S : SumCategory(q, A, c) = 0
    BY <1>1, <1>2 DEF AddedUp, Shown, Categories
  <1>4. TotalAmount(q, shown, A) = SumFunction([c \in S |-> SumCategory(q, A, c)])
    BY DEF TotalAmount
  <1> HIDE DEF S, C, shown
  <1>5. SumFunction([c \in S |-> SumCategory(q, A, c)]) = SumOf(q, C, A) /\ SumOf(q, C, A) \in Int
    BY <1>2, <1>3, ColumnsAddUp
  <1> QED BY <1>4, <1>5 DEF C, shown

\* No rows have no amounts.
LEMMA NoRowsNothing ==
  ASSUME NEW q, NEW C PROVE SumOf(q, C, {}) = 0
  <1> DEFINE f == [u \in {} |-> SumFunctionOnSet(q.tables[u].cells, C)]
  <1>1. DOMAIN f = {} /\ SumOf(q, C, {}) = SumFunctionOnSet(f, DOMAIN f)
    BY DEF SumOf, SumFunction
  <1> HIDE DEF f
  <1>2. IsFiniteSet({}) /\ \A u \in {} : f[u] \in Int
    BY FS_EmptySet
  <1> QED BY <1>1, <1>2, SumUnfolds

\* An answer is computed from the question, not from an answer before it.
LEMMA AnswerReads ==
  ASSUME NEW q, NEW r, r.tables = q.tables, r.asked = q.asked, r.planned = q.planned, r.subject = q.subject
  PROVE  AnswerTo(r) = AnswerTo(q)
  <1>1. Dataframes(r) = Dataframes(q)
    BY DEF Dataframes
  <1>2. Matching(r) = Matching(q)
    BY <1>1 DEF Matching
  <1>3. ASSUME NEW p PROVE RowsForPeriod(r, p) = RowsForPeriod(q, p)
    BY <1>2 DEF RowsForPeriod
  <1>4. Known(r) = Known(q)
    BY <1>1 DEF Known
  <1>5. PeriodsOf(r) = PeriodsOf(q)
    BY <1>4 DEF PeriodsOf, Inferred
  <1>6. ASSUME NEW U, NEW c PROVE SumCategory(r, U, c) = SumCategory(q, U, c)
    BY DEF SumCategory
  <1>7. ASSUME NEW A, NEW B PROVE Shown(r, A, B) = Shown(q, A, B)
    BY <1>6 DEF Shown
  <1>8. ASSUME NEW S, NEW U PROVE TotalAmount(r, S, U) = TotalAmount(q, S, U)
    <2>1. ASSUME NEW T PROVE [c \in T |-> SumCategory(r, U, c)] = [c \in T |-> SumCategory(q, U, c)]
      BY <1>6
    <2> QED BY <2>1 DEF TotalAmount
  <1>9. ASSUME NEW A, NEW B PROVE Compare(r, A, B) = Compare(q, A, B)
    BY <1>7, <1>8 DEF Compare
  <1> QED BY <1>1, <1>2, <1>3, <1>5, <1>7, <1>8, <1>9 DEF AnswerTo

\* What is kept of a question and its answer.
QuestionInv ==
  /\ Asked(question)
  /\ question.answer.status \in {"answered", "answered_single_period"} => question.answer = AnswerTo(question)

\* What planning leaves of a question.
LEMMA PlannedFields ==
  ASSUME NEW q, Asked(q), NEW s, NEW p
  PROVE  [q EXCEPT !.subject = s, !.planned = p]
           = [tables |-> q.tables, asked |-> q.asked, planned |-> p, subject |-> s, answer |-> q.answer]
  <1> DEFINE r == [q EXCEPT !.subject = s]
  <1>1. r = [tables |-> q.tables, asked |-> q.asked, planned |-> q.planned, subject |-> s, answer |-> q.answer]
    BY DEF Asked
  <1>2. [r EXCEPT !.planned = p]
           = [tables |-> q.tables, asked |-> q.asked, planned |-> p, subject |-> s, answer |-> q.answer]
    <2> HIDE DEF r
    <2> QED BY <1>1
  <1> QED BY <1>2

\* What the recorded answer says of the tables of its question.
LEMMA AnswerAddsUp == QuestionInv => TotalsAddUp
  <1> DEFINE q == question
             p == PeriodsOf(q)
             A == RowsForPeriod(q, p.a)
             B == RowsForPeriod(q, p.b)
             C == AddedUp(q, A, B)
             ans == AnswerTo(q)
  <1> SUFFICES ASSUME QuestionInv, q.answer.status \in {"answered", "answered_single_period"}
               PROVE  /\ q.answer.a = SumOf(q, C, A)
                      /\ q.answer.b = SumOf(q, C, B)
                      /\ q.answer.direction = "period_b_more" => SumOf(q, C, B) > SumOf(q, C, A)
                      /\ q.answer.direction = "period_b_less" => SumOf(q, C, B) < SumOf(q, C, A)
    BY DEF TotalsAddUp, SumOf, AddedUp, Reported
  <1>1. Asked(q) /\ q.answer = ans /\ ans.status \in {"answered", "answered_single_period"}
    BY DEF QuestionInv
  <1>2. A \in SUBSET Dataframes(q) /\ B \in SUBSET Dataframes(q)
    BY DEF RowsForPeriod, Matching
  <1>3. \/ A # {} /\ B = {} /\ ans = [Nothing("answered_single_period") EXCEPT !.a = TotalAmount(q, Shown(q, A, {}), A)]
        \/ ans = Compare(q, A, B)
    BY <1>1 DEF AnswerTo, Nothing
  <1> HIDE DEF q, A, B, C, ans
  <1>4. TotalAmount(q, Shown(q, A, B), A) = SumOf(q, C, A) /\ SumOf(q, C, A) \in Int
    BY <1>1, <1>2, TotalAddsUp DEF C
  <1>5. Shown(q, B, A) = Shown(q, A, B) /\ AddedUp(q, B, A) = C
    BY DEF Shown, C, AddedUp, Reported
  <1>6. TotalAmount(q, Shown(q, A, B), B) = SumOf(q, C, B) /\ SumOf(q, C, B) \in Int
    <2>1. /\ TotalAmount(q, Shown(q, B, A), B) = SumOf(q, AddedUp(q, B, A), B)
          /\ SumOf(q, AddedUp(q, B, A), B) \in Int
      BY <1>1, <1>2, TotalAddsUp
    <2> QED BY <1>5, <2>1
  <1>7. CASE A # {} /\ B = {} /\ ans = [Nothing("answered_single_period") EXCEPT !.a = TotalAmount(q, Shown(q, A, {}), A)]
    <2>1. ans.a = SumOf(q, C, A) /\ ans.b = 0 /\ ans.direction = "equal"
      BY <1>4, <1>7 DEF Nothing
    <2> QED BY <1>1, <1>7, <2>1, NoRowsNothing
  <1>8. CASE ans = Compare(q, A, B)
    <2>1. /\ ans.a = SumOf(q, C, A) /\ ans.b = SumOf(q, C, B)
          /\ ans.direction = IF SumOf(q, C, B) > SumOf(q, C, A) THEN "period_b_more"
                             ELSE IF SumOf(q, C, B) < SumOf(q, C, A) THEN "period_b_less" ELSE "equal"
      BY <1>4, <1>6, <1>8 DEF Compare
    <2> QED BY <1>1, <1>4, <1>6, <2>1
  <1> QED BY <1>3, <1>7, <1>8

\* The totals of an answer are of one kind for both periods, what the rows report or
\* what their details add up to, with nothing counted in both ways, and the
\* direction of the comparison is that of those totals.
THEOREM AnswersAddUp == QuestionSpec => []TotalsAddUp
  <1>1. QuestionInit => QuestionInv
    BY DEF QuestionInit, QuestionInv, Asked, Nothing
  <1>2. QuestionInv /\ [QuestionNext]_questionVars => QuestionInv'
    <2> SUFFICES ASSUME QuestionInv, [QuestionNext]_questionVars PROVE QuestionInv'
      OBVIOUS
    <2>1. CASE UNCHANGED questionVars
      BY <2>1 DEF questionVars, QuestionInv
    <2>2. CASE ReceiveQuestion
      <3>1. PICK ts \in [TableUnits -> Tables \cup {NoTable}],
                 ps \in PeriodPairs \cup {NoPlan} \cup {[a |-> p, b |-> NoPeriod] : p \in Periods} :
              question' = [question EXCEPT !.tables = ts, !.asked = ps, !.answer = Nothing("asked")]
        BY <2>2 DEF ReceiveQuestion
      <3>2. question' = [tables |-> ts, asked |-> ps, planned |-> question.planned,
                         subject |-> question.subject, answer |-> Nothing("asked")]
        BY <3>1 DEF QuestionInv, Asked
      <3>3. question'.answer.status = "asked"
        BY <3>2 DEF Nothing
      <3>4. Asked(question')
        BY <3>2 DEF Asked
      <3> QED BY <3>3, <3>4 DEF QuestionInv
    <2>3. CASE AskAccounting
      <3>1. PICK q : Asked(q) /\ question' = [q EXCEPT !.answer = AnswerTo(q)]
        <4>1. CASE question' = [question EXCEPT !.answer = AnswerTo(question)]
          BY <4>1 DEF QuestionInv
        <4>2. CASE \E p \in Plans : LET planned == [question EXCEPT !.subject = TRUE, !.planned = p]
                                    IN  question' = [planned EXCEPT !.answer = AnswerTo(planned)]
          <5> PICK p \in Plans : LET planned == [question EXCEPT !.subject = TRUE, !.planned = p]
                                 IN  question' = [planned EXCEPT !.answer = AnswerTo(planned)]
            BY <4>2
          <5> DEFINE planned == [question EXCEPT !.subject = TRUE, !.planned = p]
          <5>1. planned = [tables |-> question.tables, asked |-> question.asked, planned |-> p,
                           subject |-> TRUE, answer |-> question.answer]
            BY PlannedFields DEF QuestionInv
          <5>2. Asked(planned)
            BY <5>1 DEF QuestionInv, Asked
          <5> QED BY <5>2
        <4> QED BY <2>3, <4>1, <4>2 DEF AskAccounting
      <3>2. question' = [tables |-> q.tables, asked |-> q.asked, planned |-> q.planned,
                         subject |-> q.subject, answer |-> AnswerTo(q)]
        BY <3>1 DEF Asked
      <3>3. Asked(question')
        BY <3>1, <3>2 DEF Asked
      <3>4. AnswerTo(question') = AnswerTo(q)
        BY <3>2, AnswerReads
      <3> QED BY <3>2, <3>3, <3>4 DEF QuestionInv
    <2> QED BY <2>1, <2>2, <2>3 DEF QuestionNext
  <1> QED BY <1>1, <1>2, AnswerAddsUp, PTL DEF QuestionSpec
=============================================================================
