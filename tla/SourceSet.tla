------------------------------ MODULE SourceSet ------------------------------
(***************************************************************************)
(* The source-set pipeline: the backend starts a set, its documents are    *)
(* chunked (Milvus first, RAGFlow otherwise) and saved, a script is        *)
(* generated scene by scene with a patch callback per scene, and one final *)
(* callback settles the set.                                               *)
(*                                                                         *)
(* RAGFlow, Milvus, the LLM and the backend's tables are external.  The    *)
(* backend stores the status of every callback it receives.                *)
(***************************************************************************)
EXTENDS Naturals, FiniteSets

CONSTANTS
  Sets,      \* source set ids
  Docs,      \* document ids
  NoDoc,     \* none of them
  DocsOf,    \* documents of each set; two sets may share one
  NChunks,   \* chunks of a document
  PageSize,  \* chunks of a page of RAGFlow's answer
  MaxRead,   \* chunks after which the reader of Milvus stops (10,000)
  MaxPolls,  \* polls before the parsing times out (900 s / 3 s)
  Scenes,    \* scenes of the outline
  UseMilvus, \* SCRIPT_RETRIEVER_BACKEND = "milvus"
  Faults     \* what may go wrong, see FaultKinds

FaultKinds ==
  {"documents",  \* the list of documents cannot be fetched
   "milvus",     \* Milvus has no chunks of the document, or fails
   "ragflow",    \* a RAGFlow call fails, or RAGFlow cannot be used
   "parse",      \* RAGFlow's parsing fails or is cancelled
   "emptyPage",  \* a page comes back without chunks before the last one
   "save",       \* saving the chunks is reported as failed
   "llm",        \* the outline or a scene cannot be generated
   "outline",    \* the outline has a scene that raises, as one with null keywords
   "lost",       \* a callback does not reach the backend
   "late",       \* a callback times out and is applied afterwards
   "retry",      \* the backend starts a set that failed once more
   "restart"}    \* the gateway restarts

ASSUME ConstantsAssumption ==
  /\ NoDoc \notin Docs
  /\ DocsOf \in [Sets -> SUBSET Docs]
  /\ NChunks \in Nat \ {0} /\ PageSize \in Nat \ {0}
  /\ MaxRead \in Nat \ {0}
  /\ MaxPolls \in Nat /\ Scenes \in Nat
  /\ UseMilvus \in BOOLEAN
  /\ Faults \subseteq FaultKinds

VARIABLES
  job,       \* _processing_jobs: the job's status, "NONE" without
  pc,        \* where _process_source_set stands
  doc,       \* the document in hand
  result,    \* document_results
  parsing,   \* RAGFlow: run status of the document in hand
  polls,     \* polls made for it
  got,       \* chunks of it fetched so far
  tried,     \* scenes of the outline tried
  made,      \* scenes generated; 0 stands for the scene of the fallback script
  saved,     \* backend: chunks of a document
  status,    \* backend: source_set.status
  docStatus, \* backend: source_set_document.status
  patched,   \* backend: scenes received in patches
  script,    \* backend: scenes of the script received, {} without
  late       \* callbacks that timed out and are still to be applied

docVars     == <<doc, result, parsing, polls, got>>
sceneVars   == <<tried, made>>
backendVars == <<status, docStatus, patched, script>>
vars == <<job, pc, docVars, sceneVars, saved, backendVars, late>>

FallbackScene == 0

Outcomes == {"none", "COMPLETED", "FAILED"}
Steps == {"none", "documents", "document", "milvus", "saveMilvus", "upload",
          "trigger", "poll", "chunks", "saveRagflow", "outline", "scene",
          "patch", "success", "failure"}

(* SourceSetCompleteRequest: final callbacks and scene patches alike. *)
Messages == [status : {"SCRIPT_GENERATING", "SCRIPT_READY", "FAILED"},
             documents : [Docs -> Outcomes],
             scenes : SUBSET (0..Scenes)]

TypeOK ==
  /\ job \in [Sets -> {"NONE", "PROCESSING", "COMPLETED", "FAILED"}]
  /\ pc \in [Sets -> Steps]
  /\ doc \in [Sets -> Docs \cup {NoDoc}]
  /\ result \in [Sets -> [Docs -> Outcomes]]
  /\ parsing \in [Sets -> {"RUNNING", "DONE", "FAIL", "CANCEL"}]
  /\ polls \in [Sets -> 0..MaxPolls]
  /\ got \in [Sets -> 0..NChunks]
  /\ tried \in [Sets -> 0..Scenes]
  /\ made \in [Sets -> SUBSET (0..Scenes)]
  /\ saved \in [Docs -> 0..NChunks]
  /\ status \in [Sets -> {"CREATED", "LOCKED"} \cup
                         {"SCRIPT_GENERATING", "SCRIPT_READY", "FAILED"}]
  /\ docStatus \in [Sets -> [Docs -> Outcomes]]
  /\ patched \in [Sets -> SUBSET (0..Scenes)]
  /\ script \in [Sets -> SUBSET (0..Scenes)]
  /\ late \in [Sets -> SUBSET Messages]

Init ==
  /\ job = [s \in Sets |-> "NONE"]
  /\ pc = [s \in Sets |-> "none"]
  /\ doc = [s \in Sets |-> NoDoc]
  /\ result = [s \in Sets |-> [d \in Docs |-> "none"]]
  /\ parsing = [s \in Sets |-> "RUNNING"]
  /\ polls = [s \in Sets |-> 0]
  /\ got = [s \in Sets |-> 0]
  /\ tried = [s \in Sets |-> 0]
  /\ made = [s \in Sets |-> {}]
  /\ saved = [d \in Docs |-> 0]
  /\ status = [s \in Sets |-> "CREATED"]
  /\ docStatus = [s \in Sets |-> [d \in Docs |-> "none"]]
  /\ patched = [s \in Sets |-> {}]
  /\ script = [s \in Sets |-> {}]
  /\ late = [s \in Sets |-> {}]

-----------------------------------------------------------------------------
(* POST /source-sets/{id}/start.  The backend locks a set it starts. *)

Locked(s) ==
  status' = [status EXCEPT ![s] = IF @ \in {"CREATED", "FAILED"} THEN "LOCKED" ELSE @]

Start(s) ==
  /\ job[s] = "NONE"
  /\ Locked(s)
  /\ job' = [job EXCEPT ![s] = "PROCESSING"]
  /\ pc' = [pc EXCEPT ![s] = "documents"]
  /\ doc' = [doc EXCEPT ![s] = NoDoc]
  /\ result' = [result EXCEPT ![s] = [d \in Docs |-> "none"]]
  /\ parsing' = [parsing EXCEPT ![s] = "RUNNING"]
  /\ polls' = [polls EXCEPT ![s] = 0]
  /\ got' = [got EXCEPT ![s] = 0]
  /\ tried' = [tried EXCEPT ![s] = 0]
  /\ made' = [made EXCEPT ![s] = {}]
  /\ UNCHANGED <<saved, docStatus, patched, script, late>>

(* A job once created is never removed: every later start is answered     *)
(* LOCKED and starts nothing, but for a COMPLETED job, which answers 409. *)
StartAgain(s) ==
  /\ \/ job[s] = "PROCESSING"
     \/ job[s] = "FAILED" /\ "retry" \in Faults
  /\ Locked(s)
  /\ UNCHANGED <<job, pc, docVars, sceneVars, saved, docStatus, patched, script, late>>

-----------------------------------------------------------------------------
(* Documents.  The job turns FAILED before the failure callback is sent. *)

Goto(s, step) == pc' = [pc EXCEPT ![s] = step]

Fail(s) ==
  /\ Goto(s, "failure")
  /\ job' = [job EXCEPT ![s] = "FAILED"]

(* get_source_set_documents fails, or lists none. *)
Unlisted(s) == DocsOf[s] = {} \/ "documents" \in Faults

FetchDocuments(s) ==
  /\ pc[s] = "documents"
  /\ \/ /\ DocsOf[s] # {}
        /\ Goto(s, "document")
        /\ UNCHANGED job
     \/ /\ Unlisted(s)
        /\ Fail(s)
  /\ UNCHANGED <<docVars, sceneVars, saved, backendVars, late>>

TakeDocument(s, d) ==
  /\ pc[s] = "document"
  /\ d \in DocsOf[s] /\ result[s][d] = "none"
  /\ doc' = [doc EXCEPT ![s] = d]
  /\ Goto(s, IF UseMilvus THEN "milvus" ELSE "upload")
  /\ parsing' = [parsing EXCEPT ![s] = "RUNNING"]
  /\ polls' = [polls EXCEPT ![s] = 0]
  /\ got' = [got EXCEPT ![s] = 0]
  /\ UNCHANGED <<job, result, sceneVars, saved, backendVars, late>>

(* The outcome of a document; after the last one a single FAILED fails the set. *)
DocumentDone(s, outcome) ==
  /\ result' = [result EXCEPT ![s][doc[s]] = outcome]
  /\ doc' = [doc EXCEPT ![s] = NoDoc]
  /\ IF \E d \in DocsOf[s] : result'[s][d] = "none"
     THEN Goto(s, "document") /\ UNCHANGED job
     ELSE IF \E d \in DocsOf[s] : result'[s][d] = "FAILED"
     THEN Fail(s)
     ELSE Goto(s, "outline") /\ UNCHANGED job
  /\ UNCHANGED <<parsing, polls, got>>

(* get_document_chunks of Milvus reads batch after batch; an error in one   *)
(* of them is an error of the whole.                                        *)
MilvusAnswers == {"chunks"} \cup IF "milvus" \in Faults THEN {"none", "error"} ELSE {}

(* It stops, and says nothing, once it has read max_chunks.                 *)
MilvusRead == IF NChunks < MaxRead THEN NChunks ELSE MaxRead

(* The chunks Milvus gives for a document; an error is like none. *)
MilvusChunks == {IF answer = "chunks" THEN MilvusRead ELSE 0 : answer \in MilvusAnswers}

(* Milvus first; without chunks there, or on any error, RAGFlow. *)
ReadMilvus(s) ==
  /\ pc[s] = "milvus"
  /\ \/ /\ Goto(s, "saveMilvus")
        /\ \E n \in MilvusChunks \ {0} : got' = [got EXCEPT ![s] = n]
     \/ /\ 0 \in MilvusChunks
        /\ Goto(s, "upload")
        /\ UNCHANGED got
  /\ UNCHANGED <<job, doc, result, parsing, polls, sceneVars, saved, backendVars, late>>

(* upload_document: stored; or an error, whatever the reason. *)
UploadAnswers == {"stored"} \cup IF "ragflow" \in Faults THEN {"error"} ELSE {}

(* RAGFlow unconfigured, no source_url, an unmapped domain: failed at once. *)
Upload(s) ==
  /\ pc[s] = "upload"
  /\ \/ /\ "stored" \in UploadAnswers
        /\ Goto(s, "trigger")
        /\ UNCHANGED <<job, docVars>>
     \/ ("ragflow" \in Faults \/ "error" \in UploadAnswers) /\ DocumentDone(s, "FAILED")
  /\ UNCHANGED <<sceneVars, saved, backendVars, late>>

Trigger(s) ==
  /\ pc[s] = "trigger"
  /\ \/ /\ Goto(s, "poll")
        /\ UNCHANGED <<job, docVars>>
     \/ "ragflow" \in Faults /\ DocumentDone(s, "FAILED")
  /\ UNCHANGED <<sceneVars, saved, backendVars, late>>

(* RAGFlow's parsing of the document in hand. *)
Parse(s) ==
  /\ pc[s] = "poll" /\ parsing[s] = "RUNNING"
  /\ \E run \in {"DONE"} \cup IF "parse" \in Faults THEN {"FAIL", "CANCEL"} ELSE {} :
       parsing' = [parsing EXCEPT ![s] = run]
  /\ UNCHANGED <<job, pc, doc, result, polls, got, sceneVars, saved, backendVars, late>>

(* get_document_status: its run, or the query fails. *)
RunStatus(s) == {parsing[s]} \cup IF "ragflow" \in Faults THEN {"error"} ELSE {}

(* Variant: the time-out is measured from the last poll. *)
PollAgain_Restarted(s) ==
  /\ pc[s] = "poll"
  /\ "RUNNING" \in RunStatus(s) \/ "error" \in RunStatus(s)
  /\ polls' = [polls EXCEPT ![s] = 0]
  /\ UNCHANGED <<job, pc, doc, result, parsing, got, sceneVars, saved, backendVars, late>>

(* An unfinished parsing and a failed query are both polled again. *)
PollAgain(s) ==
  /\ pc[s] = "poll" /\ polls[s] < MaxPolls
  /\ "RUNNING" \in RunStatus(s) \/ "error" \in RunStatus(s)
  /\ polls' = [polls EXCEPT ![s] = @ + 1]
  /\ UNCHANGED <<job, pc, doc, result, parsing, got, sceneVars, saved, backendVars, late>>

PollDone(s) ==
  /\ pc[s] = "poll" /\ polls[s] < MaxPolls
  /\ \/ /\ "DONE" \in RunStatus(s)
        /\ Goto(s, "chunks")
        /\ got' = [got EXCEPT ![s] = 0]
        /\ UNCHANGED <<job, doc, result, parsing, polls>>
     \/ /\ RunStatus(s) \cap {"FAIL", "CANCEL"} # {}
        /\ DocumentDone(s, "FAILED")
  /\ UNCHANGED <<sceneVars, saved, backendVars, late>>

PollTimeout(s) ==
  /\ pc[s] = "poll" /\ polls[s] = MaxPolls
  /\ DocumentDone(s, "FAILED")
  /\ UNCHANGED <<sceneVars, saved, backendVars, late>>

(* Variant: one page is taken for all of them. *)
FetchPage_First(s) ==
  /\ pc[s] = "chunks"
  /\ got' = [got EXCEPT ![s] = IF PageSize < NChunks THEN PageSize ELSE NChunks]
  /\ Goto(s, "saveRagflow")
  /\ UNCHANGED <<job, doc, result, parsing, polls, sceneVars, saved, backendVars, late>>

(* get_document_chunks: what has been read after one more page. *)
NextPage(s) == IF got[s] + PageSize < NChunks THEN got[s] + PageSize ELSE NChunks

(* The pages are read until the total; a page without chunks ends the      *)
(* reading too, and fails the document only if nothing had been read.      *)
FetchPage(s) ==
  /\ pc[s] = "chunks"
  /\ \/ /\ got' = [got EXCEPT ![s] = NextPage(s)]
        /\ Goto(s, IF got'[s] = NChunks THEN "saveRagflow" ELSE "chunks")
        /\ UNCHANGED <<job, doc, result, parsing, polls>>
     \/ /\ "emptyPage" \in Faults /\ got[s] > 0
        /\ Goto(s, "saveRagflow")
        /\ UNCHANGED <<job, docVars>>
     \/ /\ "ragflow" \in Faults \/ ("emptyPage" \in Faults /\ got[s] = 0)
        /\ DocumentDone(s, "FAILED")
  /\ UNCHANGED <<sceneVars, saved, backendVars, late>>

(* bulk_upsert_chunks: the chunks read are stored by their index. *)
Upsert(s) == saved' = [saved EXCEPT ![doc[s]] = IF got[s] > @ THEN got[s] ELSE @]

(* Variant: a failed save is logged, as for the list of failed chunks. *)
SaveChunks_Logged(s) ==
  /\ pc[s] \in {"saveMilvus", "saveRagflow"}
  /\ \/ Upsert(s)
     \/ "save" \in Faults /\ UNCHANGED saved
  /\ DocumentDone(s, "COMPLETED")
  /\ UNCHANGED <<sceneVars, backendVars, late>>

(* A failure, with or without an effect, sends a document read from Milvus   *)
(* to RAGFlow and fails one read from RAGFlow.                               *)
SaveChunks(s) ==
  /\ pc[s] \in {"saveMilvus", "saveRagflow"}
  /\ \/ /\ Upsert(s)
        /\ DocumentDone(s, "COMPLETED")
     \/ /\ "save" \in Faults
        /\ \/ Upsert(s)
           \/ UNCHANGED saved
        /\ IF pc[s] = "saveMilvus"
           THEN Goto(s, "upload") /\ UNCHANGED <<job, docVars>>
           ELSE DocumentDone(s, "FAILED")
  /\ UNCHANGED <<sceneVars, backendVars, late>>

-----------------------------------------------------------------------------
(* The script.  Scenes are generated in turn, a failed one is skipped, and  *)
(* without any the script is the fallback of one scene.                     *)

ScriptDone(s, scenes) ==
  /\ Goto(s, "success")
  /\ made' = [made EXCEPT ![s] = IF scenes = {} THEN {FallbackScene} ELSE scenes]

Outline(s) ==
  /\ pc[s] = "outline"
  /\ \/ Scenes > 0 /\ Goto(s, "scene") /\ UNCHANGED made
     \/ (Scenes = 0 \/ "llm" \in Faults) /\ ScriptDone(s, {})
  /\ UNCHANGED <<job, docVars, tried, saved, backendVars, late>>

(* Variant: the narration is checked after the scene is handed on. *)
Scene_Unchecked(s) ==
  /\ pc[s] = "scene" /\ tried[s] < Scenes
  /\ tried' = [tried EXCEPT ![s] = @ + 1]
  /\ \/ made' = [made EXCEPT ![s] = @ \cup {tried'[s]}]
     \/ "llm" \in Faults /\ UNCHANGED made
  /\ Goto(s, "patch")
  /\ UNCHANGED <<job, docVars, saved, backendVars, late>>

(* An exception outside the attempts at a scene gives up the whole script. *)
Scene(s) ==
  /\ pc[s] = "scene" /\ tried[s] < Scenes
  /\ tried' = [tried EXCEPT ![s] = @ + 1]
  /\ \/ made' = [made EXCEPT ![s] = @ \cup {tried'[s]}] /\ Goto(s, "patch")
     \/ "llm" \in Faults /\ UNCHANGED <<made, pc>>
     \/ "outline" \in Faults /\ ScriptDone(s, {})
  /\ UNCHANGED <<job, docVars, saved, backendVars, late>>

ScenesDone(s) ==
  /\ pc[s] = "scene" /\ tried[s] = Scenes
  /\ ScriptDone(s, made[s])
  /\ UNCHANGED <<job, docVars, tried, saved, backendVars, late>>

-----------------------------------------------------------------------------
(* Callbacks. *)

(* The backend: the set takes the status of the callback, whatever it had;  *)
(* documents the callback lists take their outcome.                         *)
Apply(s, m) ==
  /\ status' = [status EXCEPT ![s] = m.status]
  /\ docStatus' = [docStatus EXCEPT ![s] =
       [d \in Docs |-> IF m.documents[d] = "none" THEN @[d] ELSE m.documents[d]]]
  /\ patched' = [patched EXCEPT ![s] =
       IF m.status = "SCRIPT_GENERATING" THEN @ \cup m.scenes ELSE @]
  /\ script' = [script EXCEPT ![s] = IF m.status = "SCRIPT_READY" THEN m.scenes ELSE @]

(* notify_source_set_complete is tried once; its errors are logged. *)
Notify(s, m) ==
  \/ Apply(s, m) /\ UNCHANGED late
  \/ "lost" \in Faults /\ UNCHANGED <<backendVars, late>>
  \/ /\ "late" \in Faults
     /\ late' = [late EXCEPT ![s] = @ \cup {m}]
     /\ UNCHANGED backendVars

ApplyLate(s) ==
  /\ \E m \in late[s] :
       /\ Apply(s, m)
       /\ late' = [late EXCEPT ![s] = @ \ {m}]
  /\ UNCHANGED <<job, pc, docVars, sceneVars, saved>>

Message(s, st, scenes) ==
  [status |-> st, documents |-> result[s], scenes |-> scenes]

SendPatch(s) ==
  /\ pc[s] = "patch"
  /\ Notify(s, Message(s, "SCRIPT_GENERATING", {tried[s]}))
  /\ Goto(s, "scene")
  /\ UNCHANGED <<job, docVars, sceneVars, saved>>

SendSuccess(s) ==
  /\ pc[s] = "success"
  /\ Notify(s, Message(s, "SCRIPT_READY", made[s]))
  /\ Goto(s, "none")
  /\ job' = [job EXCEPT ![s] = "COMPLETED"]
  /\ UNCHANGED <<docVars, sceneVars, saved>>

SendFailure(s) ==
  /\ pc[s] = "failure"
  /\ Notify(s, Message(s, "FAILED", {}))
  /\ Goto(s, "none")
  /\ UNCHANGED <<job, docVars, sceneVars, saved>>

(* Jobs and tasks are in memory only; nothing resumes them. *)
Restart ==
  /\ "restart" \in Faults
  /\ job' = [s \in Sets |-> "NONE"]
  /\ pc' = [s \in Sets |-> "none"]
  /\ UNCHANGED <<docVars, sceneVars, saved, backendVars, late>>

(* _process_document: by RAGFlow; the chunks of Milvus are saved alike. *)
ProcessDocument(s) ==
  \/ Upload(s) \/ Trigger(s)
  \/ PollAgain(s) \/ PollDone(s) \/ PollTimeout(s)
  \/ FetchPage(s) \/ SaveChunks(s)

(* generate_script: the outline and its scenes, or the fallback. *)
WriteScript(s) == Outline(s) \/ Scene(s) \/ ScenesDone(s)

(* _generate_script: beside it, the patch of each scene that is made. *)
GenerateScript(s) == WriteScript(s) \/ SendPatch(s)

Pipeline(s) ==
  \/ FetchDocuments(s)
  \/ \E d \in Docs : TakeDocument(s, d)
  \/ ReadMilvus(s)
  \/ ProcessDocument(s)
  \/ GenerateScript(s)
  \/ SendSuccess(s)
  \/ SendFailure(s)

Next ==
  \/ \E s \in Sets :
       \/ Start(s)
       \/ StartAgain(s)
       \/ Pipeline(s)
       \/ Parse(s)
       \/ ApplyLate(s)
  \/ Restart

Spec == Init /\ [][Next]_vars

(* A task that can run does; every await in it ends by an answer or a timeout. *)
FairSpec == Spec /\ \A s \in Sets : WF_vars(Pipeline(s))

-----------------------------------------------------------------------------
(* Properties. *)

Running(s) == pc[s] # "none"

(* A set the backend was told is SCRIPT_READY has documents, each reported  *)
(* COMPLETED with chunks saved, whichever path, fallback, failed save or    *)
(* set sharing the document led there.                                      *)
ReadyIsBacked ==
  \A s \in Sets : status[s] = "SCRIPT_READY" =>
    /\ DocsOf[s] # {}
    /\ \A d \in DocsOf[s] : docStatus[s][d] = "COMPLETED" /\ saved[d] > 0

(* What one of the two readers gives when it comes to its end.              *)
WholeReads == {NChunks} \cup IF UseMilvus THEN {MilvusRead} ELSE {}

(* A document reported COMPLETED has in the backend what one of the readers *)
(* gives to its end: all of its chunks, or those the reader of Milvus stops *)
(* at; never a part that a fallback, a failed save or another set left.     *)
ChunksComplete ==
  \A s \in Sets, d \in Docs : docStatus[s][d] = "COMPLETED" => saved[d] \in WholeReads

(* What the readers' comments say ("all chunks of the document"): every     *)
(* chunk of a document reported COMPLETED is in the backend.                *)
AllChunks ==
  \A s \in Sets, d \in Docs : docStatus[s][d] = "COMPLETED" => saved[d] = NChunks

(* The script the backend receives contains every scene it was sent as a    *)
(* patch before (partial save): a patched scene is never missing from it.   *)
PatchesInScript ==
  \A s \in Sets : status[s] = "SCRIPT_READY" => patched[s] \subseteq script[s]

(* When its task is over, the backend's status of a set is the job's.       *)
JobAgrees ==
  \A s \in Sets : ~Running(s) =>
    /\ job[s] = "COMPLETED" => status[s] = "SCRIPT_READY"
    /\ job[s] = "FAILED" => status[s] = "FAILED"

(* A start answered 202 LOCKED has a task that will settle the set: a       *)
(* locked set without a task stays locked for ever.                         *)
LockedIsRunning ==
  \A s \in Sets : status[s] \in {"LOCKED", "SCRIPT_GENERATING"} => Running(s)

(* What the backend sees of a set is the life cycle of SourceSetLifecycle:  *)
(* one lock, patches, one final callback, which does come.                  *)
Lifecycle == INSTANCE SourceSetLifecycle
ImplementsLifecycle == Lifecycle!FairSpec
=============================================================================
