------------------------------- MODULE Drafts -------------------------------
(***************************************************************************)
(* The services that draft something for people to approve and share one   *)
(* LLM: FAQ drafts, quizzes and suggestions for gaps in the documents.     *)
(***************************************************************************)
EXTENDS FaqDraft, Quiz

CONSTANTS
  Gaps,       \* requests for suggestions
  Workloads   \* the quizzes and suggestions that may come with a batch

ASSUME DraftsAssumption ==
  /\ Clients = Items \cup Quizzes \cup Gaps
  /\ Items \cap Quizzes = {} /\ Items \cap Gaps = {} /\ Quizzes \cap Gaps = {}
  /\ \A w \in Workloads : w \in [batch : Batches, quizzes : SUBSET Quizzes, gaps : SUBSET Gaps]

VARIABLE
  suggestion  \* the answer to a request for suggestions

draftVars == <<llmVars, settings, searchVars, faqVars, quizVars, suggestion>>

TypeOK ==
  /\ at \in [Clients -> {"waiting", "input", "embed", "open", "load", "search", "context",
                         "llm", "llm2", "output", "check", "selfcheck", "suggest", "done"}]
  /\ tries \in [Clients -> 0..LlmRetries]
  /\ FaqTypeOK
  /\ QuizTypeOK
  /\ suggestion \in [Gaps -> {"none", "LLM", "fallback"}]

(* A request that does not come is done with from the start. *)
Init ==
  /\ FaqInit
  /\ QuizInit
  /\ suggestion = [g \in Gaps |-> "none"]
  /\ tries = [c \in Clients |-> 0]
  /\ \E w \in Workloads :
       /\ w.batch = batch
       /\ at = [c \in Clients |->
                  IF c \in Served THEN "waiting"
                  ELSE IF c \in w.quizzes THEN "llm"
                  ELSE IF c \in w.gaps THEN "suggest" ELSE "done"]

(* The text parses. *)
Suggested(g) ==
  /\ "text" \in CallEnds(g)
  /\ suggestion' = [suggestion EXCEPT ![g] = "LLM"]

(* It does not, or there is none: one suggestion per domain of the gaps. *)
Fallback(g) ==
  suggestion' = [suggestion EXCEPT ![g] = "fallback"]

Suggest(g) ==
  /\ g \in Gaps
  /\ at[g] = "suggest"
  /\ Suggested(g) \/ Fallback(g)
  /\ Goes(g, "done")

SuggestPosting(g) ==
  /\ g \in Gaps
  /\ PostAgain(g)
  /\ UNCHANGED suggestion

FaqStep(i) ==
  /\ ItemStep(i)
  /\ UNCHANGED <<settings, quizVars, suggestion>>

BatchStep ==
  /\ BatchReturns
  /\ UNCHANGED <<settings, quizVars, suggestion>>

QuestionStep(q) ==
  /\ QuizStep(q)
  /\ UNCHANGED <<settings, searchVars, faqVars, suggestion>>

GapStep(g) ==
  /\ Suggest(g) \/ SuggestPosting(g)
  /\ UNCHANGED <<settings, searchVars, faqVars, quizVars>>

Next ==
  \/ \E i \in Items : FaqStep(i)
  \/ BatchStep
  \/ \E q \in Quizzes : QuestionStep(q)
  \/ \E g \in Gaps : GapStep(g)

Spec == Init /\ [][Next]_draftVars

(* Every await ends: clients have timeouts, and a slot is taken by those    *)
(* who wait for it as soon as it is free.                                   *)
Fairness ==
  /\ \A i \in Items : WF_draftVars(FaqStep(i))
  /\ WF_draftVars(BatchStep)
  /\ \A q \in Quizzes : WF_draftVars(QuestionStep(q))
  /\ \A g \in Gaps : WF_draftVars(GapStep(g))

FairSpec == Spec /\ Fairness

-----------------------------------------------------------------------------
(* Every request is served to its end and a batch is answered, however      *)
(* often the LLM has to be asked and whatever its items run into            *)
(* (retry_async_operation, _process_single_item, generate_faq_draft_batch). *)
RequestsEnd == <>[](outcome = "answered" /\ \A c \in Clients : at[c] = "done")
=============================================================================
