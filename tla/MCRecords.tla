----------------------------- MODULE MCRecords -----------------------------
(* Components that share no state, checked in one run: a behaviour belongs to
   one of them and the others keep their initial state, so the states of the
   run are the sum of the states of its parts.                              *)
EXTENDS Payables, UploadStore, TopicReview, SemanticProjection,
        AccountingCorrections, StatementExtraction,
        Segmentation, ArchiveAgent, SearchIndex, Retrieval, AccountingAnswers

CONSTANT Parts
VARIABLE part

MCInit == /\ part \in Parts
          /\ PayInit /\ UpInit /\ ReviewInit /\ ProjInit /\ AccInit /\ StmtInit
          /\ SegInit /\ AgentInit /\ IndexInit /\ SearchInit /\ QuestionInit
          /\ (part # "agent" => ~chat.allowVision)   \* the one choice of an Init

Paying == part = "payables" /\ PayNext
  /\ UNCHANGED <<upVars, reviewVars, projVars, accVars, stmtVars, segVars, agentVars,
                 indexVars, searchVars, questionVars>>
Uploading == part = "upload" /\ UpNext
  /\ UNCHANGED <<payVars, reviewVars, projVars, accVars, stmtVars, segVars,
                 agentVars, indexVars, searchVars, questionVars>>
Reviewing == part = "review" /\ ReviewNext
  /\ UNCHANGED <<payVars, upVars, projVars, accVars, stmtVars, segVars, agentVars,
                 indexVars, searchVars, questionVars>>
Projecting == part = "projections" /\ ProjNext
  /\ UNCHANGED <<payVars, upVars, reviewVars, accVars, stmtVars, segVars, agentVars,
                 indexVars, searchVars, questionVars>>
Correcting == part = "corrections" /\ AccNext
  /\ UNCHANGED <<payVars, upVars, reviewVars, projVars, stmtVars, segVars, agentVars,
                 indexVars, searchVars, questionVars>>
Extracting == part = "statement" /\ StmtNext
  /\ UNCHANGED <<payVars, upVars, reviewVars, projVars, accVars, segVars, agentVars,
                 indexVars, searchVars, questionVars>>
Segmenting == part = "segmentation" /\ SegNext
  /\ UNCHANGED <<payVars, upVars, reviewVars, projVars, accVars, stmtVars, agentVars,
                 indexVars, searchVars, questionVars>>
Chatting == part = "agent" /\ AgentNext
  /\ UNCHANGED <<payVars, upVars, reviewVars, projVars, accVars, stmtVars, segVars,
                 indexVars, searchVars, questionVars>>
Indexing == part = "index" /\ IndexNext
  /\ UNCHANGED <<payVars, upVars, reviewVars, projVars, accVars, stmtVars, segVars,
                 agentVars, searchVars, questionVars>>
Finding == part = "retrieval" /\ SearchNext
  /\ UNCHANGED <<payVars, upVars, reviewVars, projVars, accVars, stmtVars, segVars,
                 agentVars, indexVars, questionVars>>
Answering == part = "question" /\ QuestionNext
  /\ UNCHANGED <<payVars, upVars, reviewVars, projVars, accVars, stmtVars, segVars,
                 agentVars, indexVars, searchVars>>

MCNext == UNCHANGED part
          /\ (Paying \/ Uploading \/ Reviewing \/ Projecting \/ Correcting \/ Extracting
              \/ Segmenting \/ Chatting \/ Indexing \/ Finding \/ Answering)
MCSpec == MCInit /\ [][MCNext]_<<part, payVars, upVars, reviewVars, projVars, accVars, stmtVars,
                          segVars, agentVars, indexVars, searchVars, questionVars>>
=============================================================================
