--------------------------- MODULE SourceSetProofs ---------------------------
(***************************************************************************)
(* Theorems about SourceSet, for all sets, documents, scenes and faults.   *)
(***************************************************************************)
EXTENDS SourceSet, TLAPS

(* The task of a set goes to a step; those of the other sets stay. *)
LEMMA GotoType ==
  ASSUME TypeOK, NEW s \in Sets, NEW step \in Steps, Goto(s, step)
  PROVE  /\ pc' \in [Sets -> Steps]
         /\ pc'[s] = step /\ \A z \in Sets \ {s} : pc'[z] = pc[z]
BY DEF Goto, TypeOK

(* A document's outcome lands in its own slot, whatever step follows.       *)
LEMMA DocumentDoneType ==
  ASSUME TypeOK, NEW s \in Sets, NEW outcome \in {"COMPLETED", "FAILED"},
         DocumentDone(s, outcome)
  PROVE  /\ job' \in [Sets -> {"NONE", "PROCESSING", "COMPLETED", "FAILED"}]
         /\ pc' \in [Sets -> Steps]
         /\ doc' \in [Sets -> Docs \cup {NoDoc}]
         /\ result' \in [Sets -> [Docs -> Outcomes]]
         /\ UNCHANGED <<parsing, polls, got>>
<1>1. result' \in [Sets -> [Docs -> Outcomes]]
  BY DEF DocumentDone, TypeOK, Outcomes
<1>2. pc' \in [Sets -> Steps] /\ job' \in [Sets -> {"NONE", "PROCESSING", "COMPLETED", "FAILED"}]
  BY DEF DocumentDone, Fail, Goto, TypeOK, Steps
<1>3. QED
  BY <1>1, <1>2 DEF DocumentDone, TypeOK

LEMMA NotifyType ==
  ASSUME TypeOK, NEW s \in Sets, NEW m \in Messages, Notify(s, m)
  PROVE  /\ status' \in [Sets -> {"CREATED", "LOCKED"} \cup
                                 {"SCRIPT_GENERATING", "SCRIPT_READY", "FAILED"}]
         /\ docStatus' \in [Sets -> [Docs -> Outcomes]]
         /\ patched' \in [Sets -> SUBSET (0..Scenes)]
         /\ script' \in [Sets -> SUBSET (0..Scenes)]
         /\ late' \in [Sets -> SUBSET Messages]
<1> USE DEF TypeOK, Messages
<1>1. CASE Apply(s, m) /\ UNCHANGED late
  <2>1. docStatus' \in [Sets -> [Docs -> Outcomes]]
    BY <1>1 DEF Apply
  <2>2. QED
    BY <1>1, <2>1 DEF Apply
<1>2. CASE UNCHANGED <<backendVars, late>>
  BY <1>2 DEF backendVars
<1>3. CASE late' = [late EXCEPT ![s] = @ \cup {m}] /\ UNCHANGED backendVars
  BY <1>3 DEF backendVars
<1>4. QED
  BY <1>1, <1>2, <1>3 DEF Notify

(* Every message the pipeline builds is a well-formed request.              *)
LEMMA MessageType ==
  ASSUME TypeOK, NEW s \in Sets,
         NEW st \in {"SCRIPT_GENERATING", "SCRIPT_READY", "FAILED"},
         NEW scenes \in SUBSET (0..Scenes)
  PROVE  Message(s, st, scenes) \in Messages
BY DEF Message, Messages, TypeOK

(* The reader of Milvus gives some of a document's chunks, or all.          *)
LEMMA ReadBounds ==
  /\ MilvusRead \in 1..NChunks /\ NChunks \in Nat \ {0}
  /\ NChunks <= MaxRead => MilvusRead = NChunks
BY ConstantsAssumption DEF MilvusRead

LEMMA MilvusGives == ASSUME NEW n \in MilvusChunks \ {0} PROVE n = MilvusRead
BY DEF MilvusChunks

LEMMA TypeStep == TypeOK /\ [Next]_vars => TypeOK'
<1> SUFFICES ASSUME TypeOK, [Next]_vars PROVE TypeOK'
  OBVIOUS
<1> USE ConstantsAssumption
<1>1. ASSUME NEW s \in Sets, Start(s) PROVE TypeOK'
  BY <1>1 DEF Start, Locked, TypeOK, Steps, Outcomes
<1>2. ASSUME NEW s \in Sets, StartAgain(s) PROVE TypeOK'
  BY <1>2 DEF StartAgain, Locked, docVars, sceneVars, TypeOK
<1>3. ASSUME NEW s \in Sets, FetchDocuments(s) PROVE TypeOK'
  BY <1>3 DEF FetchDocuments, Fail, Goto, docVars, sceneVars, backendVars, TypeOK, Steps
<1>4. ASSUME NEW s \in Sets, NEW d \in Docs, TakeDocument(s, d) PROVE TypeOK'
  BY <1>4 DEF TakeDocument, Goto, sceneVars, backendVars, TypeOK, Steps
<1>5. ASSUME NEW s \in Sets, ReadMilvus(s) PROVE TypeOK'
  <2>1. got' \in [Sets -> 0..NChunks]
    <3>1. got \in [Sets -> 0..NChunks] /\ MilvusRead \in 0..NChunks
      BY ReadBounds DEF TypeOK
    <3>2. got' = [got EXCEPT ![s] = MilvusRead] \/ got' = got
      BY <1>5, MilvusGives DEF ReadMilvus
    <3>3. QED
      BY <3>1, <3>2
  <2>2. pc' \in [Sets -> Steps]
    <3>1. "saveMilvus" \in Steps /\ "upload" \in Steps
      BY DEF Steps
    <3>2. QED
      BY <1>5, <3>1, GotoType DEF ReadMilvus
  <2>3. QED
    BY <2>1, <2>2, <1>5 DEF ReadMilvus, sceneVars, backendVars, TypeOK
<1>6. ASSUME NEW s \in Sets, Upload(s) PROVE TypeOK'
  <2>1. CASE Goto(s, "trigger") /\ UNCHANGED <<job, docVars>>
    BY <2>1, <1>6 DEF Upload, Goto, docVars, sceneVars, backendVars, TypeOK, Steps
  <2>2. CASE DocumentDone(s, "FAILED")
    BY <2>2, <1>6, DocumentDoneType DEF Upload, sceneVars, backendVars, TypeOK
  <2>3. QED
    BY <2>1, <2>2, <1>6 DEF Upload
<1>7. ASSUME NEW s \in Sets, Trigger(s) PROVE TypeOK'
  <2>1. CASE Goto(s, "poll") /\ UNCHANGED <<job, docVars>>
    BY <2>1, <1>7 DEF Trigger, Goto, docVars, sceneVars, backendVars, TypeOK, Steps
  <2>2. CASE DocumentDone(s, "FAILED")
    BY <2>2, <1>7, DocumentDoneType DEF Trigger, sceneVars, backendVars, TypeOK
  <2>3. QED
    BY <2>1, <2>2, <1>7 DEF Trigger
<1>8. ASSUME NEW s \in Sets, Parse(s) PROVE TypeOK'
  BY <1>8 DEF Parse, sceneVars, backendVars, TypeOK
<1>9. ASSUME NEW s \in Sets, PollAgain(s) PROVE TypeOK'
  BY <1>9 DEF PollAgain, sceneVars, backendVars, TypeOK
<1>10. ASSUME NEW s \in Sets, PollDone(s) PROVE TypeOK'
  <2>1. CASE DocumentDone(s, "FAILED")
    BY <2>1, <1>10, DocumentDoneType DEF PollDone, sceneVars, backendVars, TypeOK
  <2>2. CASE Goto(s, "chunks") /\ got' = [got EXCEPT ![s] = 0]
             /\ UNCHANGED <<job, doc, result, parsing, polls>>
    <3>1. got' \in [Sets -> 0..NChunks] /\ pc' \in [Sets -> Steps]
      BY <2>2 DEF Goto, TypeOK, Steps
    <3>2. QED
      BY <3>1, <2>2, <1>10 DEF PollDone, sceneVars, backendVars, TypeOK
  <2>3. QED
    BY <2>1, <2>2, <1>10 DEF PollDone
<1>11. ASSUME NEW s \in Sets, PollTimeout(s) PROVE TypeOK'
  BY <1>11, DocumentDoneType DEF PollTimeout, sceneVars, backendVars, TypeOK
<1>12. ASSUME NEW s \in Sets, FetchPage(s) PROVE TypeOK'
  <2>1. CASE DocumentDone(s, "FAILED")
    BY <2>1, <1>12, DocumentDoneType DEF FetchPage, NextPage, sceneVars, backendVars, TypeOK
  <2>2. ASSUME ~DocumentDone(s, "FAILED") PROVE TypeOK'
    <3>1. got' \in [Sets -> 0..NChunks]
      BY <2>2, <1>12 DEF FetchPage, NextPage, docVars, TypeOK
    <3>2. pc' \in [Sets -> Steps] /\ UNCHANGED <<job, doc, result, parsing, polls>>
      BY <2>2, <1>12 DEF FetchPage, NextPage, Goto, docVars, TypeOK, Steps
    <3>3. QED
      BY <3>1, <3>2, <1>12 DEF FetchPage, NextPage, sceneVars, backendVars, TypeOK
  <2>3. QED
    BY <2>1, <2>2
<1>13. ASSUME NEW s \in Sets, SaveChunks(s) PROVE TypeOK'
  <2>1. saved' \in [Docs -> 0..NChunks]
    BY <1>13 DEF SaveChunks, Upsert, TypeOK
  <2>2. CASE Goto(s, "upload") /\ UNCHANGED <<job, docVars>>
    BY <2>1, <2>2, <1>13 DEF SaveChunks, Upsert, Goto, docVars, sceneVars, backendVars, TypeOK, Steps
  <2>3. CASE DocumentDone(s, "FAILED") \/ DocumentDone(s, "COMPLETED")
    BY <2>1, <2>3, <1>13, DocumentDoneType DEF SaveChunks, Upsert, sceneVars, backendVars, TypeOK
  <2>4. QED
    BY <2>2, <2>3, <1>13 DEF SaveChunks, Upsert
<1>14. ASSUME NEW s \in Sets, Outline(s) PROVE TypeOK'
  <2>1. {FallbackScene} \in SUBSET (0..Scenes)
    BY DEF FallbackScene
  <2>2. made' \in [Sets -> SUBSET (0..Scenes)]
    BY <2>1, <1>14 DEF Outline, ScriptDone, TypeOK
  <2>3. pc' \in [Sets -> Steps]
    <3>1. "scene" \in Steps /\ "success" \in Steps
      BY DEF Steps
    <3>2. QED
      BY <1>14, <3>1, GotoType DEF Outline, ScriptDone
  <2>4. QED
    BY <2>2, <2>3, <1>14 DEF Outline, docVars, backendVars, TypeOK
<1>15. ASSUME NEW s \in Sets, Scene(s) PROVE TypeOK'
  <2>1. tried' \in [Sets -> 0..Scenes] /\ tried'[s] \in 0..Scenes
    BY <1>15 DEF Scene, TypeOK
  <2>2. {FallbackScene} \in SUBSET (0..Scenes)
    BY DEF FallbackScene
  <2>3. made' \in [Sets -> SUBSET (0..Scenes)]
    BY <2>1, <2>2, <1>15 DEF Scene, ScriptDone, TypeOK
  <2>4. pc' \in [Sets -> Steps]
    BY SMTT(30), <1>15 DEF Scene, ScriptDone, Goto, TypeOK, Steps
  <2>5. QED
    BY <2>1, <2>3, <2>4, <1>15 DEF Scene, docVars, backendVars, TypeOK
<1>16. ASSUME NEW s \in Sets, ScenesDone(s) PROVE TypeOK'
  BY <1>16 DEF ScenesDone, ScriptDone, FallbackScene, Goto, docVars, backendVars, TypeOK, Steps
<1>17. ASSUME NEW s \in Sets, SendPatch(s) PROVE TypeOK'
  <2>1. {tried[s]} \in SUBSET (0..Scenes)
    BY DEF TypeOK
  <2>2. QED
    BY <2>1, <1>17, MessageType, NotifyType DEF SendPatch, Goto, docVars, sceneVars, TypeOK, Steps
<1>18. ASSUME NEW s \in Sets, SendSuccess(s) PROVE TypeOK'
  <2>1. made[s] \in SUBSET (0..Scenes)
    BY DEF TypeOK
  <2>2. QED
    BY <2>1, <1>18, MessageType, NotifyType DEF SendSuccess, Goto, docVars, sceneVars, TypeOK, Steps
<1>19. ASSUME NEW s \in Sets, SendFailure(s) PROVE TypeOK'
  <2>1. {} \in SUBSET (0..Scenes)
    OBVIOUS
  <2>2. QED
    BY <2>1, <1>19, MessageType, NotifyType DEF SendFailure, Goto, docVars, sceneVars, TypeOK, Steps
<1>20. ASSUME NEW s \in Sets, ApplyLate(s) PROVE TypeOK'
  <2>1. PICK m \in late[s] : Apply(s, m) /\ late' = [late EXCEPT ![s] = @ \ {m}]
    BY <1>20 DEF ApplyLate
  <2>2. m \in Messages
    BY DEF TypeOK
  <2>3. docStatus' \in [Sets -> [Docs -> Outcomes]]
    BY <2>1, <2>2 DEF Apply, Messages, TypeOK
  <2>4. QED
    BY <2>1, <2>2, <2>3, <1>20 DEF ApplyLate, Apply, Messages, docVars, sceneVars, TypeOK
<1>21. CASE Restart
  BY <1>21 DEF Restart, docVars, sceneVars, backendVars, TypeOK, Steps
<1>22. CASE UNCHANGED vars
  BY <1>22 DEF vars, docVars, sceneVars, backendVars, TypeOK
<1>23. QED
  BY <1>1, <1>2, <1>3, <1>4, <1>5, <1>6, <1>7, <1>8, <1>9, <1>10, <1>11, <1>12, <1>13,
     <1>14, <1>15, <1>16, <1>17, <1>18, <1>19, <1>20, <1>21, <1>22 DEF Next, Pipeline, ProcessDocument, GenerateScript, WriteScript

(* Every variable stays in its type, restarts and late callbacks included.  *)
THEOREM TypeCorrect == Spec => []TypeOK
<1>1. Init => TypeOK
  BY ConstantsAssumption DEF Init, TypeOK, Steps, Outcomes
<1>2. QED
  BY <1>1, TypeStep, PTL DEF Spec
-----------------------------------------------------------------------------
(* ReadyIsBacked.  The outcome COMPLETED stands for saved chunks, a script  *)
(* is begun only when every outcome is COMPLETED, and a message says what   *)
(* the job knew when it was built, also when it is applied much later.      *)

SavePending(s) ==
  pc[s] \in {"saveMilvus", "saveRagflow"} => got[s] > 0

InHand(s) ==
  pc[s] \in {"milvus", "saveMilvus", "upload", "trigger", "poll", "chunks", "saveRagflow"}
    => doc[s] \in DocsOf[s]

CompletedSaved(s) == \A d \in Docs : result[s][d] = "COMPLETED" => saved[d] > 0

ScriptBegun(s) ==
  pc[s] \in {"outline", "scene", "patch", "success"} =>
    DocsOf[s] # {} /\ \A d \in DocsOf[s] : result[s][d] = "COMPLETED"

Backed(s, documents) ==
  DocsOf[s] # {} /\ \A d \in DocsOf[s] : documents[d] = "COMPLETED" /\ saved[d] > 0

LateBacked(s) ==
  \A m \in late[s] : m.status = "SCRIPT_READY" => Backed(s, m.documents)

ToldBacked(s) == status[s] = "SCRIPT_READY" => Backed(s, docStatus[s])

BackedInv ==
  \A s \in Sets : /\ SavePending(s)
                  /\ InHand(s)
                  /\ CompletedSaved(s)
                  /\ ScriptBegun(s)
                  /\ LateBacked(s)
                  /\ ToldBacked(s)

(* What a step that only moves on, or ends a document, has to keep.         *)
LEMMA DocumentDoneKeeps ==
  ASSUME TypeOK, BackedInv, NEW s \in Sets, NEW outcome \in {"COMPLETED", "FAILED"},
         doc[s] \in DocsOf[s], DocumentDone(s, outcome),
         saved' \in [Docs -> 0..NChunks], \A d \in Docs : saved'[d] >= saved[d],
         outcome = "COMPLETED" => saved'[doc[s]] > 0,
         UNCHANGED <<backendVars, late>>
  PROVE  BackedInv'
<1> USE ConstantsAssumption DEF TypeOK
<1>1. doc[s] \in Docs /\ DocsOf[s] \subseteq Docs
  OBVIOUS
<1>2. /\ result' = [result EXCEPT ![s][doc[s]] = outcome]
      /\ doc' = [doc EXCEPT ![s] = NoDoc]
      /\ got' = got
      /\ \/ pc' = [pc EXCEPT ![s] = "document"]
         \/ pc' = [pc EXCEPT ![s] = "failure"]
         \/ /\ pc' = [pc EXCEPT ![s] = "outline"]
            /\ \A d \in DocsOf[s] : result'[s][d] \notin {"none", "FAILED"}
  BY DEF DocumentDone, Fail, Goto
<1>3. \A d \in Docs : saved[d] > 0 => saved'[d] > 0
  OBVIOUS
<1>4. \A z \in Sets : LateBacked(z)' /\ ToldBacked(z)'
  <2>1. \A z \in Sets, f \in [Docs -> Outcomes] : Backed(z, f) => Backed(z, f)'
    BY <1>3 DEF Backed
  <2>2. \A z \in Sets : \A m \in late[z] : m.documents \in [Docs -> Outcomes]
    BY DEF Messages
  <2>3. QED
    BY <2>1, <2>2 DEF BackedInv, LateBacked, ToldBacked, backendVars
<1>5. \A z \in Sets \ {s} : SavePending(z)' /\ InHand(z)' /\ CompletedSaved(z)' /\ ScriptBegun(z)'
  <2>1. \A z \in Sets \ {s} : /\ pc'[z] = pc[z] /\ doc'[z] = doc[z] /\ got'[z] = got[z]
                             /\ result'[z] = result[z]
    BY <1>2
  <2>2. QED
    BY <2>1, <1>3 DEF BackedInv, SavePending, InHand, CompletedSaved, ScriptBegun
<1>6. /\ pc'[s] \in {"document", "failure", "outline"}
      /\ pc'[s] = "outline" => \A d \in DocsOf[s] : result'[s][d] = "COMPLETED"
      /\ \A d \in Docs : result'[s][d] = IF d = doc[s] THEN outcome ELSE result[s][d]
  BY <1>1, <1>2 DEF Outcomes
<1>7. SavePending(s)' /\ InHand(s)' /\ ScriptBegun(s)'
  BY <1>1, <1>6 DEF SavePending, InHand, ScriptBegun
<1>8. CompletedSaved(s)'
  BY <1>1, <1>3, <1>6 DEF BackedInv, CompletedSaved
<1>9. QED
  BY <1>4, <1>5, <1>7, <1>8 DEF BackedInv

(* Steps that change neither outcomes, chunks nor what the backend holds:   *)
(* only the place of one set and its fetched chunks have to be looked at.   *)
LEMMA MoveKeeps ==
  ASSUME TypeOK, BackedInv, NEW s \in Sets,
         UNCHANGED <<result, saved, backendVars, late>>,
         \A z \in Sets \ {s} : pc'[z] = pc[z] /\ doc'[z] = doc[z] /\ got'[z] = got[z],
         SavePending(s)', InHand(s)', ScriptBegun(s)'
  PROVE  BackedInv'
<1>1. \A z \in Sets : CompletedSaved(z)' /\ LateBacked(z)' /\ ToldBacked(z)'
  BY DEF BackedInv, CompletedSaved, LateBacked, ToldBacked, Backed, backendVars
<1>2. \A z \in Sets \ {s} : SavePending(z)' /\ InHand(z)' /\ ScriptBegun(z)'
  BY DEF BackedInv, SavePending, InHand, ScriptBegun
<1>3. QED
  BY <1>1, <1>2 DEF BackedInv

(* A message that is backed when it is sent stays so, in the backend or on  *)
(* its late way there: saved chunks are never taken back.                   *)
LEMMA NotifyKeeps ==
  ASSUME TypeOK, BackedInv, NEW s \in Sets, NEW m \in Messages,
         m.status = "SCRIPT_READY" => Backed(s, m.documents),
         Notify(s, m), UNCHANGED <<result, saved, doc, got>>,
         NEW step \in {"none", "scene"}, pc' = [pc EXCEPT ![s] = step],
         step = "scene" => pc[s] = "patch"
  PROVE  BackedInv'
<1> USE DEF TypeOK
<1>1. \A z \in Sets : SavePending(z)' /\ InHand(z)' /\ ScriptBegun(z)' /\ CompletedSaved(z)'
  BY DEF BackedInv, SavePending, InHand, ScriptBegun, CompletedSaved
<1>2. \A z \in Sets : \A f : Backed(z, f) => Backed(z, f)'
  BY DEF Backed
<1>4. DocsOf[s] \subseteq Docs
  BY ConstantsAssumption
<1>5. CASE Apply(s, m) /\ UNCHANGED late
  <2>1. \A z \in Sets : LateBacked(z)'
    BY <1>5, <1>2 DEF BackedInv, LateBacked
  <2>2. \A z \in Sets \ {s} : ToldBacked(z)'
    BY <1>5, <1>2 DEF BackedInv, ToldBacked, Apply
  <2>3. ToldBacked(s)'
    BY <1>4, <1>5 DEF ToldBacked, Backed, Apply, Messages
  <2>4. QED
    BY <1>1, <2>1, <2>2, <2>3 DEF BackedInv
<1>6. CASE UNCHANGED <<backendVars, late>>
  <2>1. \A z \in Sets : LateBacked(z)' /\ ToldBacked(z)'
    BY <1>6, <1>2 DEF BackedInv, LateBacked, ToldBacked, backendVars
  <2>2. QED
    BY <1>1, <2>1 DEF BackedInv
<1>7. CASE late' = [late EXCEPT ![s] = @ \cup {m}] /\ UNCHANGED backendVars
  <2>1. \A z \in Sets : ToldBacked(z)'
    BY <1>7, <1>2 DEF BackedInv, ToldBacked, backendVars
  <2>2. \A z \in Sets \ {s} : LateBacked(z)'
    BY <1>7, <1>2 DEF BackedInv, LateBacked
  <2>3. LateBacked(s)'
    BY <1>7, <1>2 DEF BackedInv, LateBacked
  <2>4. QED
    BY <1>1, <2>1, <2>2, <2>3 DEF BackedInv
<1>8. QED
  BY <1>5, <1>6, <1>7 DEF Notify

LEMMA BackedStep == TypeOK /\ BackedInv /\ [Next]_vars => BackedInv'
<1> SUFFICES ASSUME TypeOK, BackedInv, [Next]_vars PROVE BackedInv'
  OBVIOUS
<1> USE ConstantsAssumption
<1>1. ASSUME NEW s \in Sets, Start(s) PROVE BackedInv'
  <2>1. \A z \in Sets : status'[z] = "SCRIPT_READY" => status[z] = "SCRIPT_READY"
    BY <1>1 DEF Start, Locked, TypeOK
  <2>2. \A z \in Sets : LateBacked(z)' /\ ToldBacked(z)'
    BY <2>1, <1>1 DEF Start, BackedInv, LateBacked, ToldBacked, Backed
  <2>3. \A z \in Sets : SavePending(z)' /\ InHand(z)' /\ CompletedSaved(z)' /\ ScriptBegun(z)'
    BY <1>1 DEF Start, BackedInv, SavePending, InHand, CompletedSaved, ScriptBegun, TypeOK
  <2>4. QED
    BY <2>2, <2>3 DEF BackedInv
<1>2. ASSUME NEW s \in Sets, StartAgain(s) PROVE BackedInv'
  <2>1. \A z \in Sets : status'[z] = "SCRIPT_READY" => status[z] = "SCRIPT_READY"
    BY <1>2 DEF StartAgain, Locked, TypeOK
  <2>2. QED
    BY <2>1, <1>2 DEF StartAgain, docVars, BackedInv, SavePending, InHand, CompletedSaved,
       ScriptBegun, LateBacked, ToldBacked, Backed
<1>3. ASSUME NEW s \in Sets, FetchDocuments(s) PROVE BackedInv'
  <2>1. PICK step \in {"document", "failure"} : Goto(s, step)
    BY <1>3 DEF FetchDocuments, Fail
  <2>2. pc'[s] \in {"document", "failure"} /\ \A z \in Sets \ {s} : pc'[z] = pc[z]
    BY <2>1, GotoType DEF Steps
  <2>3. UNCHANGED <<docVars, saved, backendVars, late>>
    BY <1>3 DEF FetchDocuments
  <2>4. SavePending(s)' /\ InHand(s)' /\ ScriptBegun(s)'
    BY <2>2 DEF SavePending, InHand, ScriptBegun
  <2>5. QED
    BY <2>2, <2>3, <2>4, MoveKeeps DEF docVars
<1>4. ASSUME NEW s \in Sets, NEW d \in Docs, TakeDocument(s, d) PROVE BackedInv'
  BY <1>4, MoveKeeps DEF TakeDocument, Goto, SavePending, InHand, ScriptBegun, TypeOK
<1>5. ASSUME NEW s \in Sets, ReadMilvus(s) PROVE BackedInv'
  <2>1. \/ pc'[s] = "saveMilvus" /\ got'[s] > 0
       \/ pc'[s] = "upload"
    BY <1>5, MilvusGives, ReadBounds DEF ReadMilvus, Goto, TypeOK
  <2>2. doc[s] \in DocsOf[s] /\ UNCHANGED <<result, saved, backendVars, late, doc>>
    BY <1>5 DEF ReadMilvus, BackedInv, InHand
  <2>3. \A z \in Sets \ {s} : pc'[z] = pc[z] /\ got'[z] = got[z]
    BY <1>5 DEF ReadMilvus, Goto, TypeOK
  <2>4. SavePending(s)' /\ InHand(s)' /\ ScriptBegun(s)'
    BY <2>1, <2>2 DEF SavePending, InHand, ScriptBegun
  <2>5. QED
    BY <2>2, <2>3, <2>4, MoveKeeps
<1>6. ASSUME NEW s \in Sets, Upload(s) \/ Trigger(s) PROVE BackedInv'
  <2>1. doc[s] \in DocsOf[s] /\ UNCHANGED <<saved, backendVars, late>>
    BY <1>6 DEF Upload, Trigger, BackedInv, InHand
  <2>2. CASE (Goto(s, "trigger") \/ Goto(s, "poll")) /\ UNCHANGED <<job, docVars>>
    BY <2>1, <2>2, MoveKeeps DEF Goto, docVars, SavePending, InHand, ScriptBegun, TypeOK
  <2>3. CASE DocumentDone(s, "FAILED")
    BY SMTT(30), <2>1, <2>3, DocumentDoneKeeps DEF TypeOK
  <2>4. QED
    BY <2>2, <2>3, <1>6 DEF Upload, Trigger
<1>7. ASSUME NEW s \in Sets, Parse(s) \/ PollAgain(s) PROVE BackedInv'
  BY <1>7, MoveKeeps DEF Parse, PollAgain, BackedInv, SavePending, InHand, ScriptBegun, TypeOK
<1>8. ASSUME NEW s \in Sets, PollDone(s) \/ PollTimeout(s) PROVE BackedInv'
  <2>1. doc[s] \in DocsOf[s] /\ UNCHANGED <<saved, backendVars, late>>
    BY <1>8 DEF PollDone, PollTimeout, BackedInv, InHand
  <2>2. CASE Goto(s, "chunks") /\ got' = [got EXCEPT ![s] = 0]
             /\ UNCHANGED <<job, doc, result, parsing, polls>>
    BY <2>1, <2>2, MoveKeeps DEF Goto, SavePending, InHand, ScriptBegun, TypeOK
  <2>3. CASE DocumentDone(s, "FAILED")
    BY SMTT(30), <2>1, <2>3, DocumentDoneKeeps DEF TypeOK
  <2>4. QED
    BY <2>2, <2>3, <1>8 DEF PollDone, PollTimeout
<1>9. ASSUME NEW s \in Sets, FetchPage(s) PROVE BackedInv'
  <2>1. doc[s] \in DocsOf[s] /\ UNCHANGED <<saved, backendVars, late>>
    BY <1>9 DEF FetchPage, NextPage, BackedInv, InHand
  <2>2. CASE DocumentDone(s, "FAILED")
    BY SMTT(30), <2>1, <2>2, DocumentDoneKeeps DEF TypeOK
  <2>3. ASSUME ~DocumentDone(s, "FAILED") PROVE BackedInv'
    <3>1. UNCHANGED <<doc, result>>
      BY <2>3, <1>9 DEF FetchPage, NextPage, docVars
    <3>2. pc'[s] \in {"chunks", "saveRagflow"} /\ (pc'[s] = "saveRagflow" => got'[s] > 0)
      BY <2>3, <1>9 DEF FetchPage, NextPage, Goto, docVars, TypeOK
    <3>3. \A z \in Sets \ {s} : pc'[z] = pc[z] /\ got'[z] = got[z]
      BY <2>3, <1>9 DEF FetchPage, NextPage, Goto, docVars, TypeOK
    <3>4. SavePending(s)' /\ InHand(s)' /\ ScriptBegun(s)'
      BY <2>1, <3>1, <3>2 DEF SavePending, InHand, ScriptBegun
    <3>5. QED
      BY <2>1, <3>1, <3>3, <3>4, MoveKeeps
  <2>4. QED
    BY <2>2, <2>3
<1>10. ASSUME NEW s \in Sets, SaveChunks(s) PROVE BackedInv'
  <2>1. doc[s] \in DocsOf[s] /\ doc[s] \in Docs /\ got[s] > 0 /\ got[s] \in 0..NChunks
    BY <1>10 DEF SaveChunks, Upsert, BackedInv, InHand, SavePending, TypeOK
  <2>2. UNCHANGED <<sceneVars, backendVars, late>>
    BY <1>10 DEF SaveChunks, Upsert
  <2>3. saved' \in [Docs -> 0..NChunks] /\ \A d \in Docs : saved'[d] >= saved[d]
    <3>1. \/ saved' = [saved EXCEPT ![doc[s]] = IF got[s] > @ THEN got[s] ELSE @]
          \/ saved' = saved
      BY <1>10 DEF SaveChunks, Upsert
    <3>2. saved \in [Docs -> 0..NChunks]
      BY DEF TypeOK
    <3>3. QED
      BY <2>1, <3>1, <3>2
  <2>4. CASE saved' = [saved EXCEPT ![doc[s]] = IF got[s] > @ THEN got[s] ELSE @]
             /\ DocumentDone(s, "COMPLETED")
    <3>1. saved'[doc[s]] > 0
      BY <2>1, <2>4 DEF TypeOK
    <3>2. QED
      BY <2>1, <2>2, <2>3, <2>4, <3>1, DocumentDoneKeeps
  <2>5. CASE DocumentDone(s, "FAILED")
    BY <2>1, <2>2, <2>3, <2>5, DocumentDoneKeeps
  <2>6. CASE Goto(s, "upload") /\ UNCHANGED <<job, docVars>>
    <3>1. \A d \in Docs : saved[d] > 0 => saved'[d] > 0
      BY <2>3 DEF TypeOK
    <3>2. \A z \in Sets : SavePending(z)' /\ InHand(z)' /\ ScriptBegun(z)'
      BY <2>1, <2>6 DEF Goto, docVars, BackedInv, SavePending, InHand, ScriptBegun, TypeOK
    <3>3. \A z \in Sets : CompletedSaved(z)'
      BY <2>6, <3>1 DEF docVars, BackedInv, CompletedSaved
    <3>4. \A z \in Sets : \A f : Backed(z, f) => Backed(z, f)'
      <4>1. \A z \in Sets : DocsOf[z] \subseteq Docs
        OBVIOUS
      <4>2. QED
        BY <3>1, <4>1 DEF Backed
    <3>5. \A z \in Sets : LateBacked(z)' /\ ToldBacked(z)'
      BY <2>2, <3>4 DEF backendVars, BackedInv, LateBacked, ToldBacked
    <3>6. QED
      BY <3>2, <3>3, <3>5 DEF BackedInv
  <2>7. QED
    BY <2>4, <2>5, <2>6, <1>10 DEF SaveChunks, Upsert
<1>11. ASSUME NEW s \in Sets, Outline(s) \/ Scene(s) \/ ScenesDone(s) PROVE BackedInv'
  <2>1. /\ pc[s] \in {"outline", "scene"} /\ pc'[s] \in {"scene", "patch", "success"}
        /\ \A z \in Sets \ {s} : pc'[z] = pc[z]
        /\ UNCHANGED <<docVars, saved, backendVars, late>>
    BY <1>11 DEF Outline, Scene, ScenesDone, ScriptDone, Goto, TypeOK
  <2>2. SavePending(s)' /\ InHand(s)' /\ ScriptBegun(s)'
    BY <2>1 DEF docVars, BackedInv, SavePending, InHand, ScriptBegun
  <2>3. QED
    BY <2>1, <2>2, MoveKeeps DEF docVars
<1>12. ASSUME NEW s \in Sets, SendPatch(s) PROVE BackedInv'
  <2>1. Message(s, "SCRIPT_GENERATING", {tried[s]}) \in Messages
    BY MessageType DEF TypeOK
  <2>2. Message(s, "SCRIPT_GENERATING", {tried[s]}).status # "SCRIPT_READY"
    BY DEF Message
  <2>3. QED
    BY <1>12, <2>1, <2>2, NotifyKeeps DEF SendPatch, Goto, docVars
<1>13. ASSUME NEW s \in Sets, SendSuccess(s) PROVE BackedInv'
  <2>1. Message(s, "SCRIPT_READY", made[s]) \in Messages
    BY MessageType DEF TypeOK
  <2>2. Backed(s, Message(s, "SCRIPT_READY", made[s]).documents)
    BY <1>13 DEF SendSuccess, Message, Backed, BackedInv, ScriptBegun, CompletedSaved
  <2>3. QED
    BY <1>13, <2>1, <2>2, NotifyKeeps DEF SendSuccess, Goto, docVars
<1>14. ASSUME NEW s \in Sets, SendFailure(s) PROVE BackedInv'
  <2>1. Message(s, "FAILED", {}) \in Messages
    BY MessageType
  <2>2. Message(s, "FAILED", {}).status # "SCRIPT_READY"
    BY DEF Message
  <2>3. QED
    BY <1>14, <2>1, <2>2, NotifyKeeps DEF SendFailure, Goto, docVars
<1>15. ASSUME NEW s \in Sets, ApplyLate(s) PROVE BackedInv'
  <2>1. PICK m \in late[s] : Apply(s, m) /\ late' = [late EXCEPT ![s] = @ \ {m}]
    BY <1>15 DEF ApplyLate
  <2>2. m \in Messages /\ (m.status = "SCRIPT_READY" => Backed(s, m.documents))
    BY DEF TypeOK, BackedInv, LateBacked
  <2>3. \A z \in Sets : SavePending(z)' /\ InHand(z)' /\ CompletedSaved(z)' /\ ScriptBegun(z)'
    BY <1>15 DEF ApplyLate, docVars, BackedInv, SavePending, InHand, CompletedSaved, ScriptBegun
  <2>4. \A z \in Sets : LateBacked(z)'
    BY <1>15, <2>1 DEF ApplyLate, BackedInv, LateBacked, Backed, TypeOK
  <2>5. \A z \in Sets \ {s} : ToldBacked(z)'
    BY <1>15, <2>1 DEF ApplyLate, Apply, BackedInv, ToldBacked, Backed, TypeOK
  <2>6. ToldBacked(s)'
    <3>1. DocsOf[s] \subseteq Docs
      OBVIOUS
    <3>2. QED
      BY <1>15, <2>1, <2>2, <3>1 DEF ApplyLate, Apply, ToldBacked, Backed, TypeOK, Messages
  <2>7. QED
    BY <2>3, <2>4, <2>5, <2>6 DEF BackedInv
<1>16. CASE Restart
  BY <1>16 DEF Restart, docVars, backendVars, BackedInv, SavePending, InHand, CompletedSaved,
     ScriptBegun, LateBacked, ToldBacked, Backed
<1>17. CASE UNCHANGED vars
  BY <1>17 DEF vars, docVars, backendVars, BackedInv, SavePending, InHand, CompletedSaved,
     ScriptBegun, LateBacked, ToldBacked, Backed
<1>18. QED
  BY <1>1, <1>2, <1>3, <1>4, <1>5, <1>6, <1>7, <1>8, <1>9, <1>10, <1>11, <1>12, <1>13,
     <1>14, <1>15, <1>16, <1>17 DEF Next, Pipeline, ProcessDocument, GenerateScript, WriteScript

LEMMA BackedAlways == Spec => []BackedInv
<1>1. Init => BackedInv
  BY ConstantsAssumption DEF Init, BackedInv, SavePending, InHand, CompletedSaved, ScriptBegun,
     LateBacked, ToldBacked
<1>2. QED
  BY <1>1, BackedStep, TypeCorrect, PTL DEF Spec

(* Under every fault: a set the backend holds SCRIPT_READY has documents,   *)
(* all reported COMPLETED and with chunks saved.                            *)
THEOREM ReadyBackedSafe == Spec => []ReadyIsBacked
<1>1. BackedInv => ReadyIsBacked
  BY DEF BackedInv, ToldBacked, Backed, ReadyIsBacked
<1>2. QED
  BY <1>1, BackedAlways, PTL
-----------------------------------------------------------------------------
(* ChunksComplete.  As long as a page without chunks comes only at the end, *)
(* a document goes to be saved with what its reader gives to the end, and   *)
(* whoever calls it COMPLETED - the job, the backend, a message on its way  *)
(* - found that stored.  Two sets may share the document and read it from   *)
(* different sources: what one saved, no other takes back.                  *)

FullPending(s) ==
  /\ pc[s] \in {"milvus", "saveMilvus"} => UseMilvus
  /\ pc[s] \in {"saveMilvus", "saveRagflow"} => got[s] \in WholeReads

Whole(documents) == \A d \in Docs : documents[d] = "COMPLETED" => saved[d] \in WholeReads

WholeInv ==
  /\ \A d \in Docs : saved[d] \in {0} \cup WholeReads
  /\ \A s \in Sets : /\ FullPending(s)
                     /\ Whole(result[s])
                     /\ Whole(docStatus[s])
                     /\ \A m \in late[s] : Whole(m.documents)

(* The outcome of a document whose chunks are all saved, or that failed.    *)
LEMMA DocumentDoneWhole ==
  ASSUME TypeOK, WholeInv, NEW s \in Sets, NEW outcome \in {"COMPLETED", "FAILED"},
         doc[s] \in Docs, DocumentDone(s, outcome),
         \A d \in Docs : /\ saved'[d] \in {0} \cup WholeReads
                         /\ saved[d] \in WholeReads => saved'[d] \in WholeReads,
         outcome = "COMPLETED" => saved'[doc[s]] \in WholeReads,
         UNCHANGED <<backendVars, late>>
  PROVE  WholeInv'
<1>1. /\ result' = [result EXCEPT ![s][doc[s]] = outcome] /\ got' = got
      /\ \E step \in {"document", "failure", "outline"} : pc' = [pc EXCEPT ![s] = step]
  BY DEF DocumentDone, Fail, Goto
<1>2. \A z \in Sets : FullPending(z)'
  BY <1>1 DEF WholeInv, FullPending, TypeOK
<1>3. \A z \in Sets : Whole(result[z])'
  <2>1. \A z \in Sets, d \in Docs :
          result'[z][d] = IF z = s /\ d = doc[s] THEN outcome ELSE result[z][d]
    BY <1>1 DEF TypeOK
  <2>2. QED
    BY <2>1 DEF WholeInv, Whole
<1>4. \A z \in Sets : Whole(docStatus[z])' /\ \A m \in late[z] : Whole(m.documents)'
  BY DEF WholeInv, Whole, backendVars
<1>5. QED
  BY <1>2, <1>3, <1>4 DEF WholeInv, backendVars

(* A document that failed without a save.                                   *)
LEMMA FailedWhole ==
  ASSUME TypeOK, WholeInv, NEW s \in Sets, doc[s] \in Docs, DocumentDone(s, "FAILED"),
         UNCHANGED <<saved, backendVars, late>>
  PROVE  WholeInv'
<1>1. \A d \in Docs : /\ saved'[d] \in {0} \cup WholeReads
                      /\ saved[d] \in WholeReads => saved'[d] \in WholeReads
  BY DEF WholeInv
<1>2. QED
  BY <1>1, DocumentDoneWhole

(* A step that neither saves nor reports anything.                          *)
LEMMA MoveWhole ==
  ASSUME WholeInv, NEW s \in Sets, UNCHANGED <<result, saved, backendVars, late>>,
         \A z \in Sets \ {s} : pc'[z] = pc[z] /\ got'[z] = got[z], FullPending(s)'
  PROVE  WholeInv'
BY DEF WholeInv, FullPending, Whole, backendVars

(* The backend takes over outcomes from a callback whose outcomes are true. *)
LEMMA ApplyWhole ==
  ASSUME TypeOK, WholeInv, NEW s \in Sets, NEW m, Apply(s, m), Whole(m.documents),
         UNCHANGED saved
  PROVE  \A z \in Sets : Whole(docStatus[z])'
<1>1. /\ \A z \in Sets \ {s} : docStatus'[z] = docStatus[z]
      /\ docStatus'[s] =
           [d \in Docs |-> IF m.documents[d] = "none" THEN docStatus[s][d] ELSE m.documents[d]]
  BY DEF Apply, TypeOK
<1>2. Whole(docStatus[s])'
  BY <1>1 DEF WholeInv, Whole
<1>3. QED
  BY <1>1, <1>2 DEF WholeInv, Whole

(* A callback reports what the job knows, now or later.                     *)
LEMMA NotifyWhole ==
  ASSUME TypeOK, WholeInv, NEW s \in Sets, NEW st, NEW scenes, Notify(s, Message(s, st, scenes)),
         UNCHANGED <<result, saved, got>>,
         NEW step \in {"none", "scene"}, pc' = [pc EXCEPT ![s] = step]
  PROVE  WholeInv'
<1> DEFINE m == Message(s, st, scenes)
<1>1. m.documents = result[s] /\ Whole(m.documents)
  BY DEF Message, WholeInv
<1>2. \A z \in Sets : FullPending(z)' /\ Whole(result[z])'
  BY DEF WholeInv, FullPending, Whole, TypeOK
<1> HIDE DEF m
<1>3. CASE Apply(s, m) /\ UNCHANGED late
  BY <1>1, <1>2, <1>3, ApplyWhole DEF WholeInv, Whole
<1>4. CASE UNCHANGED <<backendVars, late>>
  BY <1>2, <1>4 DEF WholeInv, Whole, backendVars
<1>5. CASE late' = [late EXCEPT ![s] = @ \cup {m}] /\ UNCHANGED backendVars
  <2>1. \A z \in Sets : \A x \in late'[z] : x \in late[z] \/ x = m
    BY <1>5 DEF TypeOK
  <2>2. QED
    BY <1>1, <1>2, <1>5, <2>1 DEF WholeInv, Whole, backendVars
<1>6. QED
  BY <1>3, <1>4, <1>5 DEF Notify, m

(* The page that ends the reading is the one that reaches the total.        *)
LEMMA FetchWhole ==
  ASSUME "emptyPage" \notin Faults, TypeOK, NEW s \in Sets, FetchPage(s)
  PROVE  \/ DocumentDone(s, "FAILED")
         \/ /\ FullPending(s)' /\ UNCHANGED <<doc, result>>
            /\ \A z \in Sets \ {s} : pc'[z] = pc[z] /\ got'[z] = got[z]
<1> SUFFICES ASSUME ~DocumentDone(s, "FAILED")
             PROVE  /\ FullPending(s)' /\ UNCHANGED <<doc, result>>
                    /\ \A z \in Sets \ {s} : pc'[z] = pc[z] /\ got'[z] = got[z]
  OBVIOUS
<1>1. /\ got' = [got EXCEPT ![s] = NextPage(s)]
      /\ Goto(s, IF got'[s] = NChunks THEN "saveRagflow" ELSE "chunks")
      /\ UNCHANGED <<doc, result>>
  BY DEF FetchPage
<1>2. pc'[s] \in {"chunks", "saveRagflow"} /\ (pc'[s] = "saveRagflow" => got'[s] = NChunks)
  BY <1>1 DEF Goto, TypeOK
<1>3. FullPending(s)'
  BY <1>2 DEF FullPending, WholeReads
<1>4. QED
  BY <1>1, <1>3 DEF Goto, TypeOK

LEMMA SaveWhole ==
  ASSUME TypeOK, WholeInv, NEW s \in Sets, SaveChunks(s), doc[s] \in Docs
  PROVE  WholeInv'
<1>1. /\ got[s] \in WholeReads /\ UNCHANGED <<backendVars, late>>
      /\ saved' = saved \/ Upsert(s)
  BY DEF SaveChunks, WholeInv, FullPending
<1>2. Upsert(s) => /\ saved'[doc[s]] \in WholeReads
                   /\ \A d \in Docs \ {doc[s]} : saved'[d] = saved[d]
  <2>1. saved \in [Docs -> 0..NChunks] /\ saved[doc[s]] \in {0} \cup WholeReads
    BY DEF TypeOK, WholeInv
  <2>2. Upsert(s) => saved'[doc[s]] \in {got[s], saved[doc[s]]}
                     /\ (saved'[doc[s]] = got[s] \/ ~(got[s] > saved[doc[s]]))
    BY <2>1 DEF Upsert
  <2>3. \A n \in WholeReads : n > 0
    BY ConstantsAssumption, ReadBounds DEF WholeReads
  <2>4. Upsert(s) => \A d \in Docs \ {doc[s]} : saved'[d] = saved[d]
    BY <2>1 DEF Upsert
  <2>5. ASSUME Upsert(s) PROVE saved'[doc[s]] \in WholeReads
    <3>1. CASE saved'[doc[s]] = got[s]
      BY <1>1, <3>1
    <3>2. CASE saved'[doc[s]] = saved[doc[s]] /\ ~(got[s] > saved[doc[s]])
      BY <1>1, <2>1, <2>3, <3>2
    <3>3. QED
      BY <2>2, <2>5, <3>1, <3>2
  <2>6. QED
    BY <2>4, <2>5
<1>3. \A d \in Docs : /\ saved'[d] \in {0} \cup WholeReads
                      /\ saved[d] \in WholeReads => saved'[d] \in WholeReads
  BY <1>1, <1>2 DEF WholeInv
<1>4. CASE Upsert(s) /\ DocumentDone(s, "COMPLETED")
  BY <1>1, <1>2, <1>3, <1>4, DocumentDoneWhole
<1>5. CASE DocumentDone(s, "FAILED")
  BY <1>1, <1>3, <1>5, DocumentDoneWhole
<1>6. CASE Goto(s, "upload") /\ UNCHANGED <<job, docVars>>
  <2>1. UNCHANGED <<result, got>> /\ pc' = [pc EXCEPT ![s] = "upload"]
    BY <1>6 DEF Goto, docVars
  <2>2. \A z \in Sets : FullPending(z)'
    BY <2>1 DEF WholeInv, FullPending, TypeOK
  <2>3. QED
    BY <1>1, <1>3, <2>1, <2>2 DEF WholeInv, Whole, backendVars
<1>7. QED
  BY <1>4, <1>5, <1>6 DEF SaveChunks

LEMMA WholeStep ==
  ASSUME "emptyPage" \notin Faults, TypeOK, BackedInv, WholeInv, [Next]_vars
  PROVE  WholeInv'
<1> USE ConstantsAssumption
<1>1. ASSUME NEW s \in Sets, Start(s) PROVE WholeInv'
  <2>1. /\ pc' = [pc EXCEPT ![s] = "documents"] /\ got' = [got EXCEPT ![s] = 0]
        /\ result' = [result EXCEPT ![s] = [d \in Docs |-> "none"]]
        /\ UNCHANGED <<saved, docStatus, late>>
    BY <1>1 DEF Start
  <2>2. QED
    BY <2>1 DEF WholeInv, FullPending, Whole, TypeOK
<1>2. ASSUME NEW s \in Sets, StartAgain(s) PROVE WholeInv'
  BY <1>2 DEF StartAgain, docVars, WholeInv, FullPending, Whole
<1>3. ASSUME NEW s \in Sets,
             FetchDocuments(s) \/ (\E d \in Docs : TakeDocument(s, d)) \/ ReadMilvus(s)
      PROVE  WholeInv'
  <2>1. UNCHANGED <<result, saved, backendVars, late>>
    BY <1>3 DEF FetchDocuments, TakeDocument, ReadMilvus, docVars
  <2>2. \A z \in Sets \ {s} : pc'[z] = pc[z] /\ got'[z] = got[z]
    BY <1>3 DEF FetchDocuments, TakeDocument, ReadMilvus, Fail, Goto, docVars, TypeOK
  <2>3. FullPending(s)'
    <3>1. CASE FetchDocuments(s)
      BY <3>1 DEF FetchDocuments, Fail, Goto, FullPending, TypeOK
    <3>2. CASE \E d \in Docs : TakeDocument(s, d)
      BY <3>2 DEF TakeDocument, Goto, FullPending, TypeOK
    <3>3. CASE ReadMilvus(s)
      <4>1. UseMilvus
        BY <3>3 DEF ReadMilvus, WholeInv, FullPending
      <4>2. pc \in [Sets -> Steps] /\ got \in [Sets -> 0..NChunks]
        BY DEF TypeOK
      <4>3. CASE Goto(s, "upload")
        <5>1. pc'[s] = "upload"
          BY <4>2, <4>3 DEF Goto
        <5>2. QED
          BY <5>1 DEF FullPending
      <4>4. CASE Goto(s, "saveMilvus") /\ got' = [got EXCEPT ![s] = MilvusRead]
        <5>1. pc'[s] = "saveMilvus" /\ got'[s] = MilvusRead
          BY <4>2, <4>4 DEF Goto
        <5>2. MilvusRead \in WholeReads
          BY <4>1 DEF WholeReads
        <5>3. QED
          BY <4>1, <5>1, <5>2 DEF FullPending
      <4>5. QED
        BY <3>3, <4>3, <4>4, MilvusGives DEF ReadMilvus
    <3>4. QED
      BY <1>3, <3>1, <3>2, <3>3
  <2>4. QED
    BY <2>1, <2>2, <2>3, MoveWhole
<1>4. ASSUME NEW s \in Sets, Upload(s) \/ Trigger(s) \/ PollDone(s) \/ PollTimeout(s)
      PROVE  WholeInv'
  <2>1. doc[s] \in Docs /\ UNCHANGED <<saved, backendVars, late>>
    BY <1>4 DEF Upload, Trigger, PollDone, PollTimeout, BackedInv, InHand
  <2>2. CASE DocumentDone(s, "FAILED")
    BY <2>1, <2>2, FailedWhole
  <2>3. CASE ~DocumentDone(s, "FAILED")
    <3>1. /\ UNCHANGED result /\ \A z \in Sets \ {s} : got'[z] = got[z]
          /\ \E step \in {"trigger", "poll", "chunks"} : pc' = [pc EXCEPT ![s] = step]
      BY <1>4, <2>3 DEF Upload, Trigger, PollDone, PollTimeout, Goto, docVars, TypeOK
    <3>2. QED
      BY <2>1, <3>1, MoveWhole DEF FullPending, TypeOK
  <2>4. QED
    BY <2>2, <2>3
<1>5. ASSUME NEW s \in Sets, Parse(s) \/ PollAgain(s) PROVE WholeInv'
  BY <1>5, MoveWhole DEF Parse, PollAgain, WholeInv, FullPending
<1>6. ASSUME NEW s \in Sets, FetchPage(s) PROVE WholeInv'
  <2>1. doc[s] \in Docs /\ UNCHANGED <<saved, backendVars, late>>
    BY <1>6 DEF FetchPage, BackedInv, InHand
  <2>2. QED
    BY <1>6, <2>1, FetchWhole, FailedWhole, MoveWhole
<1>7. ASSUME NEW s \in Sets, SaveChunks(s) PROVE WholeInv'
  <2>1. doc[s] \in Docs
    BY <1>7 DEF SaveChunks, BackedInv, InHand
  <2>2. QED
    BY <1>7, <2>1, SaveWhole
<1>8. ASSUME NEW s \in Sets, Outline(s) \/ Scene(s) \/ ScenesDone(s) PROVE WholeInv'
  <2>1. /\ pc'[s] \in {"scene", "patch", "success"} /\ \A z \in Sets \ {s} : pc'[z] = pc[z]
        /\ UNCHANGED <<docVars, saved, backendVars, late>>
    BY <1>8 DEF Outline, Scene, ScenesDone, ScriptDone, Goto, TypeOK
  <2>2. QED
    BY <2>1, MoveWhole DEF docVars, FullPending
<1>9. ASSUME NEW s \in Sets, SendPatch(s) \/ SendSuccess(s) \/ SendFailure(s) PROVE WholeInv'
  BY <1>9, NotifyWhole DEF SendPatch, SendSuccess, SendFailure, Goto, docVars
<1>10. ASSUME NEW s \in Sets, ApplyLate(s) PROVE WholeInv'
  <2>1. PICK m \in late[s] : Apply(s, m) /\ late' = [late EXCEPT ![s] = @ \ {m}]
    BY <1>10 DEF ApplyLate
  <2>2. \A z \in Sets : late'[z] \subseteq late[z]
    BY <2>1 DEF TypeOK
  <2>3. Whole(m.documents) /\ UNCHANGED <<pc, result, got, saved>>
    BY <1>10, <2>1 DEF ApplyLate, docVars, WholeInv
  <2>4. QED
    BY <2>1, <2>2, <2>3, ApplyWhole DEF WholeInv, FullPending, Whole
<1>11. CASE Restart
  BY <1>11 DEF Restart, docVars, backendVars, WholeInv, FullPending, Whole
<1>12. CASE UNCHANGED vars
  BY <1>12 DEF vars, docVars, backendVars, WholeInv, FullPending, Whole
<1>13. QED
  BY <1>1, <1>2, <1>3, <1>4, <1>5, <1>6, <1>7, <1>8, <1>9, <1>10, <1>11, <1>12
     DEF Next, Pipeline, ProcessDocument, GenerateScript, WriteScript

(* A document reported COMPLETED has in the backend what one of its readers *)
(* gives to the end - all of its chunks, or as many as the reader of Milvus *)
(* stops at - under every fault but one: a page of RAGFlow's answer that    *)
(* comes back without chunks before the last one, which ends the reading as *)
(* if it were whole.                                                        *)
THEOREM ChunksCompleteSafe ==
  ASSUME "emptyPage" \notin Faults PROVE Spec => []ChunksComplete
<1>1. Init => WholeInv
  BY DEF Init, WholeInv, FullPending, Whole, Outcomes
<1>2. WholeInv => ChunksComplete
  BY DEF WholeInv, Whole, ChunksComplete
<1>3. TypeOK /\ BackedInv /\ WholeInv /\ [Next]_vars => WholeInv'
  BY WholeStep
<1>4. QED
  BY <1>1, <1>2, <1>3, TypeCorrect, BackedAlways, PTL DEF Spec

(* What the readers promise, "all chunks", where it holds: of a document    *)
(* within the limit of the reader of Milvus, or one read from RAGFlow only. *)
THEOREM AllChunksSafe ==
  ASSUME "emptyPage" \notin Faults, ~UseMilvus \/ NChunks <= MaxRead
  PROVE  Spec => []AllChunks
<1>1. WholeReads = {NChunks}
  BY ReadBounds DEF WholeReads
<1>2. ChunksComplete => AllChunks
  BY <1>1 DEF ChunksComplete, AllChunks
<1>3. QED
  BY <1>2, ChunksCompleteSafe, PTL
-----------------------------------------------------------------------------
(* Job, task and backend in step.  Without lost or late callbacks, without  *)
(* a start after a failure and without restarts, the three agree on where   *)
(* a set is; the life cycle the backend sees follows.                       *)

Reliable == Faults \cap {"lost", "late", "retry", "restart"} = {}

Place(s) ==
  \/ job[s] = "NONE" /\ pc[s] = "none" /\ status[s] = "CREATED"
  \/ /\ job[s] = "PROCESSING" /\ pc[s] \notin {"none", "failure"}
     /\ \/ status[s] = "LOCKED"
        \/ status[s] = "SCRIPT_GENERATING" /\ pc[s] \in {"scene", "patch", "success"}
  \/ job[s] = "FAILED" /\ pc[s] = "failure" /\ status[s] = "LOCKED"
  \/ job[s] = "FAILED" /\ pc[s] = "none" /\ status[s] = "FAILED"
  \/ job[s] = "COMPLETED" /\ pc[s] = "none" /\ status[s] = "SCRIPT_READY"

InStep == \A s \in Sets : late[s] = {} /\ Place(s)

(* Every step of the pipeline before the callbacks either stays in the      *)
(* documents or the script, or fails the job and heads for the callback.    *)
LEMMA WorkStep ==
  ASSUME TypeOK, NEW s \in Sets,
         \/ FetchDocuments(s) \/ (\E d \in Docs : TakeDocument(s, d)) \/ ReadMilvus(s)
         \/ Upload(s) \/ Trigger(s) \/ Parse(s) \/ PollAgain(s) \/ PollDone(s)
         \/ PollTimeout(s) \/ FetchPage(s) \/ SaveChunks(s)
         \/ Outline(s) \/ Scene(s) \/ ScenesDone(s)
  PROVE  /\ UNCHANGED <<backendVars, late>>
         /\ \A z \in Sets \ {s} : job'[z] = job[z] /\ pc'[z] = pc[z]
         /\ pc[s] \notin {"none", "failure"}
         /\ \/ job'[s] = job[s] /\ pc'[s] \notin {"none", "failure"}
            \/ job'[s] = "FAILED" /\ pc'[s] = "failure" /\ pc[s] \notin {"scene", "patch", "success"}
         /\ pc[s] \in {"scene", "patch", "success"} => pc'[s] \in {"scene", "patch", "success"}
<1> USE DEF Goto, Fail, TypeOK
<1>1. CASE FetchDocuments(s) \/ (\E d \in Docs : TakeDocument(s, d)) \/ ReadMilvus(s)
           \/ Parse(s) \/ PollAgain(s)
  BY <1>1 DEF FetchDocuments, TakeDocument, ReadMilvus, Parse, PollAgain
<1>2. CASE Upload(s) \/ Trigger(s) \/ PollDone(s) \/ PollTimeout(s)
  BY <1>2 DEF Upload, Trigger, PollDone, PollTimeout, DocumentDone
<1>3. CASE FetchPage(s)
  BY <1>3 DEF FetchPage, NextPage, DocumentDone
<1>4. CASE SaveChunks(s)
  BY <1>4 DEF SaveChunks, Upsert, DocumentDone
<1>5. CASE Outline(s) \/ Scene(s) \/ ScenesDone(s)
  BY <1>5 DEF Outline, Scene, ScenesDone, ScriptDone
<1>6. QED
  BY <1>1, <1>2, <1>3, <1>4, <1>5

LEMMA InStepStep ==
  ASSUME Reliable, TypeOK, InStep, [Next]_vars
  PROVE  InStep' /\ [Lifecycle!Next]_status
<1> USE DEF TypeOK
<1>1. ASSUME NEW s \in Sets, Start(s) PROVE InStep' /\ Lifecycle!Lock(s)
  <2>1. job[s] = "NONE" /\ status[s] = "CREATED" /\ \A z \in Sets : late[z] = {} /\ Place(z)
    BY <1>1 DEF Start, InStep, Place
  <2>2. status' = [status EXCEPT ![s] = "LOCKED"]
    BY <1>1, <2>1 DEF Start, Locked
  <2>3. Place(s)'
    BY <1>1, <2>2 DEF Start, Place
  <2>4. \A z \in Sets \ {s} : Place(z)'
    BY <1>1, <2>1, <2>2 DEF Start, Place
  <2>5. InStep'
    BY <1>1, <2>1, <2>3, <2>4 DEF Start, InStep
  <2>6. QED
    BY <2>1, <2>2, <2>5 DEF Lifecycle!Lock
<1>2. ASSUME NEW s \in Sets, StartAgain(s) PROVE InStep' /\ UNCHANGED status
  BY <1>2 DEF StartAgain, Locked, Reliable, InStep, Place
<1>3. ASSUME NEW s \in Sets,
             \/ FetchDocuments(s) \/ (\E d \in Docs : TakeDocument(s, d)) \/ ReadMilvus(s)
             \/ Upload(s) \/ Trigger(s) \/ Parse(s) \/ PollAgain(s) \/ PollDone(s)
             \/ PollTimeout(s) \/ FetchPage(s) \/ SaveChunks(s)
             \/ Outline(s) \/ Scene(s) \/ ScenesDone(s)
      PROVE  InStep' /\ UNCHANGED status
  BY <1>3, WorkStep DEF backendVars, InStep, Place
<1>4. ASSUME NEW s \in Sets, SendPatch(s) PROVE InStep' /\ Lifecycle!Patch(s)
  <2>1. /\ status[s] \in {"LOCKED", "SCRIPT_GENERATING"} /\ UNCHANGED <<job, late>>
        /\ status' = [status EXCEPT ![s] = "SCRIPT_GENERATING"]
        /\ pc' = [pc EXCEPT ![s] = "scene"] /\ job[s] = "PROCESSING"
    BY <1>4 DEF SendPatch, Notify, Apply, Message, Goto, Reliable, InStep, Place
  <2>2. QED
    BY <2>1 DEF InStep, Place, Lifecycle!Patch
<1>5. ASSUME NEW s \in Sets, SendSuccess(s) PROVE InStep' /\ Lifecycle!Settle(s)
  <2>1. /\ status[s] \in {"LOCKED", "SCRIPT_GENERATING"} /\ UNCHANGED late
        /\ status' = [status EXCEPT ![s] = "SCRIPT_READY"]
        /\ pc' = [pc EXCEPT ![s] = "none"] /\ job' = [job EXCEPT ![s] = "COMPLETED"]
    BY <1>5 DEF SendSuccess, Notify, Apply, Message, Goto, Reliable, InStep, Place
  <2>2. QED
    BY <2>1 DEF InStep, Place, Lifecycle!Settle
<1>6. ASSUME NEW s \in Sets, SendFailure(s) PROVE InStep' /\ Lifecycle!Settle(s)
  <2>1. /\ status[s] = "LOCKED" /\ job[s] = "FAILED" /\ UNCHANGED <<job, late>>
        /\ status' = [status EXCEPT ![s] = "FAILED"]
        /\ pc' = [pc EXCEPT ![s] = "none"]
    BY <1>6 DEF SendFailure, Notify, Apply, Message, Goto, Reliable, InStep, Place
  <2>2. QED
    BY <2>1 DEF InStep, Place, Lifecycle!Settle
<1>7. ASSUME NEW s \in Sets, ApplyLate(s) PROVE FALSE
  BY <1>7 DEF ApplyLate, InStep
<1>8. ASSUME Restart PROVE FALSE
  BY <1>8 DEF Restart, Reliable
<1>9. CASE UNCHANGED vars
  BY <1>9 DEF vars, backendVars, InStep, Place
<1>10. QED
  BY <1>1, <1>2, <1>3, <1>4, <1>5, <1>6, <1>7, <1>8, <1>9
     DEF Next, Pipeline, ProcessDocument, GenerateScript, WriteScript, Lifecycle!Next

LEMMA InStepAlways == ASSUME Reliable PROVE Spec => []InStep
<1>1. Init => InStep
  BY DEF Init, InStep, Place
<1>2. TypeOK /\ InStep /\ [Next]_vars => InStep'
  BY InStepStep
<1>3. QED
  BY <1>1, <1>2, TypeCorrect, PTL DEF Spec

(* When a task is over, the backend's status of the set is the job's.       *)
THEOREM JobAgreesSafe == ASSUME Reliable PROVE Spec => []JobAgrees
<1>1. InStep => JobAgrees
  BY DEF InStep, Place, JobAgrees, Running
<1>2. QED
  BY <1>1, InStepAlways, PTL

(* A locked set has a task that has not sent its final callback yet.        *)
THEOREM LockedRunsSafe == ASSUME Reliable PROVE Spec => []LockedIsRunning
<1>1. InStep => LockedIsRunning
  BY DEF InStep, Place, LockedIsRunning, Running
<1>2. QED
  BY <1>1, InStepAlways, PTL

(* The safety part of ImplementsLifecycle: every step of the pipeline is,   *)
(* for the backend, a step of the life cycle or none.                       *)
THEOREM LifecycleSafe == ASSUME Reliable PROVE Spec => Lifecycle!Spec
<1>1. Init => Lifecycle!Init
  BY DEF Init, Lifecycle!Init
<1>2. TypeOK /\ InStep /\ [Next]_vars => [Lifecycle!Next]_status
  BY InStepStep
<1>3. QED
  BY <1>1, <1>2, TypeCorrect, InStepAlways, PTL DEF Spec, Lifecycle!Spec
-----------------------------------------------------------------------------
(* PatchesInScript.  Scenes are only ever added while the script is         *)
(* written, a patch carries one that was made, and the script sent last has *)
(* them all: a patch or a script applied late is still of the same script.  *)

NotBegun(s) ==
  /\ job[s] = "NONE" =>
       pc[s] = "none" /\ patched[s] = {} /\ late[s] = {} /\ status[s] = "CREATED"
  /\ pc[s] \notin {"none", "scene", "patch", "success"} => made[s] = {}

PatchMade(s) ==
  /\ pc[s] = "patch" => tried[s] \in made[s]
  /\ patched[s] \subseteq made[s]
  /\ \A m \in late[s] : m.status = "SCRIPT_GENERATING" => m.scenes \subseteq made[s]

Final(s) ==
  /\ status[s] = "SCRIPT_READY" => pc[s] = "none" /\ script[s] = made[s]
  /\ \A m \in late[s] : m.status = "SCRIPT_READY" => pc[s] = "none" /\ m.scenes = made[s]

Scripted(s) == NotBegun(s) /\ PatchMade(s) /\ Final(s)

ScriptInv == \A s \in Sets : Scripted(s)

(* A set is scripted by its own state alone.                                *)
LEMMA OthersScripted ==
  ASSUME ScriptInv, NEW z \in Sets,
         UNCHANGED <<job[z], pc[z], tried[z], made[z], late[z]>>,
         UNCHANGED <<status[z], patched[z], script[z]>>
  PROVE  Scripted(z)'
BY DEF ScriptInv, Scripted, NotBegun, PatchMade, Final

(* The documents are done with before the first scene is made.              *)
LEMMA DocumentsScripted ==
  ASSUME TypeOK, ScriptInv, NEW s \in Sets,
         \/ FetchDocuments(s) \/ (\E d \in Docs : TakeDocument(s, d)) \/ ReadMilvus(s)
         \/ Upload(s) \/ Trigger(s) \/ Parse(s) \/ PollAgain(s) \/ PollDone(s)
         \/ PollTimeout(s) \/ FetchPage(s) \/ SaveChunks(s)
  PROVE  ScriptInv'
<1>1. /\ UNCHANGED <<sceneVars, backendVars, late>>
      /\ pc[s] \notin {"none", "scene", "patch", "success"}
  BY DEF FetchDocuments, TakeDocument, ReadMilvus, Upload, Trigger, Parse, PollAgain, PollDone,
     PollTimeout, FetchPage, SaveChunks
<1>2. /\ \A z \in Sets \ {s} : job'[z] = job[z] /\ pc'[z] = pc[z]
      /\ pc'[s] # "none"
      /\ job'[s] \in {job[s], "FAILED"}
  BY WorkStep
<1>3. made[s] = {} /\ job[s] # "NONE" /\ status[s] # "SCRIPT_READY"
      /\ patched[s] = {} /\ \A m \in late[s] : m.status # "SCRIPT_READY"
  BY <1>1 DEF ScriptInv, Scripted, NotBegun, PatchMade, Final
<1>4. pc'[s] # "patch"
  BY SMTT(30) DEF FetchDocuments, TakeDocument, ReadMilvus, Upload, Trigger, Parse, PollAgain,
     PollDone, PollTimeout, FetchPage, SaveChunks, DocumentDone, Fail, Goto, TypeOK
<1>5. Scripted(s)'
  BY <1>1, <1>2, <1>3, <1>4 DEF sceneVars, backendVars, ScriptInv, Scripted, NotBegun, PatchMade, Final
<1>6. \A z \in Sets \ {s} : Scripted(z)'
  BY <1>1, <1>2, OthersScripted DEF sceneVars, backendVars
<1>7. QED
  BY <1>5, <1>6 DEF ScriptInv

(* The script grows scene by scene; only the fallback has one that was not  *)
(* tried, and no patch came before it.                                      *)
LEMMA WritingScripted ==
  ASSUME "outline" \notin Faults, TypeOK, ScriptInv, NEW s \in Sets, WriteScript(s)
  PROVE  ScriptInv'
<1>1. /\ UNCHANGED <<job, backendVars, late>>
      /\ pc[s] \in {"outline", "scene"} /\ pc'[s] \in {"scene", "patch", "success"}
      /\ \A z \in Sets \ {s} : pc'[z] = pc[z] /\ tried'[z] = tried[z] /\ made'[z] = made[z]
  BY DEF WriteScript, Outline, Scene, ScenesDone, ScriptDone, Goto, TypeOK
<1>2. made[s] \subseteq made'[s] /\ (pc'[s] = "patch" => tried'[s] \in made'[s])
  <2>1. CASE Outline(s)
    <3>1. made[s] = {}
      BY <2>1 DEF Outline, ScriptInv, Scripted, NotBegun
    <3>2. QED
      BY <2>1, <3>1 DEF Outline, ScriptDone, Goto, TypeOK
  <2>2. CASE Scene(s)
    BY <2>2 DEF Scene, TypeOK, Goto
  <2>3. CASE ScenesDone(s)
    BY <2>3 DEF ScenesDone, ScriptDone, Goto, TypeOK
  <2>4. QED
    BY <2>1, <2>2, <2>3 DEF WriteScript
<1>3. job[s] # "NONE" /\ status[s] # "SCRIPT_READY" /\ \A m \in late[s] : m.status # "SCRIPT_READY"
  BY <1>1 DEF ScriptInv, Scripted, NotBegun, Final
<1>4. Scripted(s)'
  BY <1>1, <1>2, <1>3 DEF backendVars, ScriptInv, Scripted, NotBegun, PatchMade, Final
<1>5. \A z \in Sets \ {s} : Scripted(z)'
  BY <1>1, OthersScripted DEF backendVars
<1>6. QED
  BY <1>4, <1>5 DEF ScriptInv

(* A patch of scenes that were made, or the script of all of them.          *)
OfScript(s, m) ==
  /\ m.status = "SCRIPT_GENERATING" => m.scenes \subseteq made[s]
  /\ m.status = "SCRIPT_READY" => m.scenes = made[s]

(* What the backend is told, or will be, when a callback is sent.           *)
LEMMA NotifyScripted ==
  ASSUME TypeOK, ScriptInv, NEW s \in Sets, NEW m \in Messages, OfScript(s, m), Notify(s, m),
         UNCHANGED <<tried, made>>, NEW step \in {"none", "scene"},
         pc' = [pc EXCEPT ![s] = step], pc[s] # "none",
         m.status = "SCRIPT_READY" => step = "none",
         job' = job \/ job' = [job EXCEPT ![s] = "COMPLETED"],
         step = "scene" => pc[s] = "patch"
  PROVE  ScriptInv'
<1>1. /\ \A z \in Sets \ {s} : job'[z] = job[z] /\ pc'[z] = pc[z]
      /\ pc'[s] = step /\ job'[s] # "NONE"
      /\ status[s] # "SCRIPT_READY" /\ \A x \in late[s] : x.status # "SCRIPT_READY"
      /\ patched[s] \subseteq made[s]
      /\ \A x \in late[s] : x.status = "SCRIPT_GENERATING" => x.scenes \subseteq made[s]
  BY DEF TypeOK, ScriptInv, Scripted, NotBegun, PatchMade, Final
<1>2. /\ \A z \in Sets \ {s} : late'[z] = late[z]
      /\ \A x \in late'[s] : x \in late[s] \/ x = m
      /\ \A z \in Sets \ {s} : /\ status'[z] = status[z] /\ patched'[z] = patched[z]
                              /\ script'[z] = script[z]
      /\ \/ UNCHANGED <<status[s], patched[s], script[s]>>
         \/ /\ status'[s] = m.status
            /\ patched'[s] = IF m.status = "SCRIPT_GENERATING" THEN patched[s] \cup m.scenes
                             ELSE patched[s]
            /\ script'[s] = IF m.status = "SCRIPT_READY" THEN m.scenes ELSE script[s]
  <2>1. CASE Apply(s, m) /\ UNCHANGED late
    BY <2>1 DEF Apply, TypeOK
  <2>2. CASE UNCHANGED <<backendVars, late>>
    BY <2>2 DEF backendVars
  <2>3. CASE late' = [late EXCEPT ![s] = @ \cup {m}] /\ UNCHANGED backendVars
    <3>1. late'[s] = late[s] \cup {m} /\ \A z \in Sets \ {s} : late'[z] = late[z]
      BY <2>3 DEF TypeOK
    <3>2. QED
      BY <2>3, <3>1 DEF backendVars
  <2>4. QED
    BY <2>1, <2>2, <2>3 DEF Notify
<1>3. Scripted(s)'
  <2>1. NotBegun(s)'
    BY <1>1 DEF NotBegun
  <2>2. PatchMade(s)'
    BY <1>1, <1>2 DEF PatchMade, OfScript
  <2>3. Final(s)'
    BY <1>1, <1>2 DEF Final, OfScript
  <2>4. QED
    BY <2>1, <2>2, <2>3 DEF Scripted
<1>4. \A z \in Sets \ {s} : Scripted(z)'
  BY <1>1, <1>2, OthersScripted
<1>5. QED
  BY <1>3, <1>4 DEF ScriptInv

(* What the backend is told when a late callback is applied at last.        *)
LEMMA LateScripted ==
  ASSUME TypeOK, ScriptInv, NEW s \in Sets, ApplyLate(s)
  PROVE  ScriptInv'
<1>1. PICK m \in late[s] : Apply(s, m) /\ late' = [late EXCEPT ![s] = @ \ {m}]
  BY DEF ApplyLate
<1>2. OfScript(s, m) /\ job[s] # "NONE" /\ (m.status = "SCRIPT_READY" => pc[s] = "none")
  BY <1>1 DEF OfScript, ScriptInv, Scripted, NotBegun, PatchMade, Final
<1>3. /\ \A z \in Sets \ {s} : /\ late'[z] = late[z] /\ status'[z] = status[z]
                              /\ patched'[z] = patched[z] /\ script'[z] = script[z]
      /\ late'[s] \subseteq late[s] /\ status'[s] = m.status
      /\ patched'[s] = IF m.status = "SCRIPT_GENERATING" THEN patched[s] \cup m.scenes
                       ELSE patched[s]
      /\ script'[s] = IF m.status = "SCRIPT_READY" THEN m.scenes ELSE script[s]
  BY <1>1 DEF Apply, TypeOK
<1>4. UNCHANGED <<job, pc, tried, made>>
  BY DEF ApplyLate, sceneVars
<1>5. Scripted(s)'
  BY <1>2, <1>3, <1>4 DEF OfScript, ScriptInv, Scripted, NotBegun, PatchMade, Final
<1>6. \A z \in Sets \ {s} : Scripted(z)'
  BY <1>3, <1>4, OthersScripted
<1>7. QED
  BY <1>5, <1>6 DEF ScriptInv

LEMMA ScriptStep ==
  ASSUME Faults \cap {"outline", "restart"} = {}, TypeOK, ScriptInv, [Next]_vars
  PROVE  ScriptInv'
<1>1. ASSUME NEW s \in Sets, Start(s) PROVE ScriptInv'
  <2>1. \A z \in Sets \ {s} : Scripted(z)'
    BY <1>1, OthersScripted DEF Start, Locked, TypeOK
  <2>2. patched[s] = {} /\ late[s] = {}
    BY <1>1 DEF Start, ScriptInv, Scripted, NotBegun
  <2>3. /\ pc'[s] = "documents" /\ job'[s] = "PROCESSING" /\ made'[s] = {}
        /\ status'[s] # "SCRIPT_READY" /\ UNCHANGED <<patched, script, late>>
    <3>1. status[s] = "CREATED"
      BY <1>1 DEF Start, ScriptInv, Scripted, NotBegun
    <3>2. QED
      BY <1>1, <3>1 DEF Start, Locked, TypeOK
  <2>4. Scripted(s)'
    BY <2>2, <2>3 DEF Scripted, NotBegun, PatchMade, Final
  <2>5. QED
    BY <2>1, <2>4 DEF ScriptInv
<1>2. ASSUME NEW s \in Sets, StartAgain(s) PROVE ScriptInv'
  <2>1. UNCHANGED <<job, pc, tried, made, patched, script, late>>
    BY <1>2 DEF StartAgain, sceneVars
  <2>2. job[s] # "NONE"
    BY <1>2 DEF StartAgain
  <2>3. \A z \in Sets : status'[z] = status[z] \/ (z = s /\ status'[z] = "LOCKED")
    <3>1. status' = [status EXCEPT ![s] = IF status[s] \in {"CREATED", "FAILED"}
                                          THEN "LOCKED" ELSE status[s]]
      BY <1>2 DEF StartAgain, Locked
    <3>2. status \in [Sets -> {"CREATED", "LOCKED"} \cup
                              {"SCRIPT_GENERATING", "SCRIPT_READY", "FAILED"}]
      BY DEF TypeOK
    <3>3. QED
      BY <3>1, <3>2
  <2>4. QED
    BY <2>1, <2>2, <2>3 DEF ScriptInv, Scripted, NotBegun, PatchMade, Final
<1>3. ASSUME NEW s \in Sets,
             \/ FetchDocuments(s) \/ (\E d \in Docs : TakeDocument(s, d)) \/ ReadMilvus(s)
             \/ ProcessDocument(s) \/ Parse(s)
      PROVE  ScriptInv'
  BY <1>3, DocumentsScripted DEF ProcessDocument
<1>4. ASSUME NEW s \in Sets, WriteScript(s) PROVE ScriptInv'
  BY <1>4, WritingScripted
<1>5. ASSUME NEW s \in Sets, SendPatch(s) PROVE ScriptInv'
  <2>1. /\ Message(s, "SCRIPT_GENERATING", {tried[s]}) \in Messages
        /\ OfScript(s, Message(s, "SCRIPT_GENERATING", {tried[s]}))
    BY <1>5, MessageType DEF SendPatch, Message, OfScript, ScriptInv, Scripted, PatchMade, TypeOK
  <2>2. Message(s, "SCRIPT_GENERATING", {tried[s]}).status # "SCRIPT_READY"
    BY DEF Message
  <2>3. QED
    BY <1>5, <2>1, <2>2, NotifyScripted DEF SendPatch, Goto, sceneVars
<1>6. ASSUME NEW s \in Sets, SendSuccess(s) PROVE ScriptInv'
  <2>1. /\ Message(s, "SCRIPT_READY", made[s]) \in Messages
        /\ OfScript(s, Message(s, "SCRIPT_READY", made[s]))
    BY MessageType DEF Message, OfScript, TypeOK
  <2>2. QED
    BY <1>6, <2>1, NotifyScripted DEF SendSuccess, Goto, sceneVars
<1>7. ASSUME NEW s \in Sets, SendFailure(s) PROVE ScriptInv'
  <2>1. Message(s, "FAILED", {}) \in Messages /\ OfScript(s, Message(s, "FAILED", {}))
    BY MessageType DEF Message, OfScript
  <2>2. QED
    BY <1>7, <2>1, NotifyScripted DEF SendFailure, Goto, sceneVars
<1>8. ASSUME NEW s \in Sets, ApplyLate(s) PROVE ScriptInv'
  BY <1>8, LateScripted
<1>9. ASSUME Restart PROVE FALSE
  BY <1>9 DEF Restart
<1>10. CASE UNCHANGED vars
  BY <1>10 DEF vars, sceneVars, backendVars, ScriptInv, Scripted, NotBegun, PatchMade, Final
<1>11. QED
  BY <1>1, <1>2, <1>3, <1>4, <1>5, <1>6, <1>7, <1>8, <1>9, <1>10
     DEF Next, Pipeline, GenerateScript

(* The script of a set that is SCRIPT_READY has every scene the backend was *)
(* sent as a patch, also when callbacks are lost or applied late, as long   *)
(* as no scene raises outside its attempts (the script is given up for the  *)
(* fallback after patches were sent) and no restart begins the set anew.    *)
THEOREM PatchesInScriptSafe ==
  ASSUME Faults \cap {"outline", "restart"} = {} PROVE Spec => []PatchesInScript
<1>1. Init => ScriptInv
  BY DEF Init, ScriptInv, Scripted, NotBegun, PatchMade, Final
<1>2. ScriptInv => PatchesInScript
  BY DEF ScriptInv, Scripted, PatchMade, Final, PatchesInScript
<1>3. TypeOK /\ ScriptInv /\ [Next]_vars => ScriptInv'
  BY ScriptStep
<1>4. QED
  BY <1>1, <1>2, <1>3, TypeCorrect, PTL DEF Spec
=============================================================================
