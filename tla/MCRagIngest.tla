----------------------------- MODULE MCRagIngest -----------------------------
(* Instances of RagIngest for TLC. *)
EXTENDS RagIngest

PromptFaults == {"reject", "fail", "milvus", "patch"}

(* RAGFlow is prompt but may fail, or everything but a lost PATCH happens,  *)
(* a failing Milvus between callback and PATCH included.                    *)
PromptOrFaulty == {PromptFaults, FaultKinds \ {"patch"}}

(* RAGFlow answers too late, and is prompt otherwise. *)
OnlyLostReply == {{"lostReply"}}
=============================================================================
