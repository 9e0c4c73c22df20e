------------------------------ MODULE FaqDraft ------------------------------
(***************************************************************************)
(* A batch of FAQ drafts.  The items of a batch run under a semaphore; an  *)
(* item checks its texts for personal data, finds documents unless the     *)
(* request brought some, asks the LLM, once more when the answer does not  *)
(* parse, and checks the answer.  Whatever fails is the item's result.     *)
(***************************************************************************)
EXTENDS Retrieval, FiniteSets

CONSTANTS
  Items,     \* items of the batch
  Batches,   \* batches to serve, see Requests
  Settings   \* configurations to serve them under, see SettingKinds

(* A question: any, one with personal data, one of the forbidden questions, *)
(* or one much like it.  sure: avg_intent_confidence reaches the threshold. *)
Questions == {"plain", "personal", "forbidden", "similar"}

Requests ==
  [question : Questions, sure : BOOLEAN, domain : Domains,
   given : SUBSET Docs]  \* top_docs

NoBatch == [slots |-> 0]

(* pii: PII_ENABLED and its URL.  milvus: MILVUS_ENABLED.  filter:          *)
(* RAG_DATASET_FILTER_ENABLED.  field: the collection has a dataset_id.     *)
(* rules: the forbidden questions are enabled and their file is readable.   *)
(* fuzzy: FORBIDDEN_QUERY_FUZZY_ENABLED.  strict: the two FAQ settings that *)
(* block instead of warning.                                                *)
SettingKinds ==
  [pii : BOOLEAN, milvus : BOOLEAN, filter : BOOLEAN, field : BOOLEAN,
   rules : BOOLEAN, fuzzy : BOOLEAN, strict : BOOLEAN]

ASSUME FaqAssumption ==
  /\ Items = Searchers
  /\ \A b \in Batches : b = NoBatch
       \/ /\ b.slots \in 1..10
          /\ DOMAIN b.item \subseteq Items
          /\ \A i \in DOMAIN b.item : b.item[i] \in Requests
  /\ Settings \subseteq SettingKinds

VARIABLES
  batch,    \* the batch being served
  context,  \* the documents of an item's prompt
  answer,   \* the LLM's answer of an item, parsed
  result,   \* an item's result
  outcome   \* the endpoint's: running, or answered

faqVars == <<batch, context, answer, result, outcome>>

(* Whether the answer or its summary has personal data, its status, and     *)
(* whether a field is something else than text, as a JSON answer's may be.  *)
Answers == [pii : BOOLEAN, low : BOOLEAN, odd : BOOLEAN]

NoAnswer == [pii |-> FALSE, low |-> FALSE, odd |-> FALSE]

FaqErrors ==
  {"LOW_CONFIDENCE", "PII_DETECTED", "FORBIDDEN_QUERY", "SEARCH_FAILED", "NO_DOCS_FOUND",
   "PII_DETECTED_CONTEXT", "LLM_FAILED", "PARSE_FAILED", "PII_DETECTED_OUTPUT",
   "LOW_RELEVANCE_CONTEXT"}

Results == {"none", "SUCCESS", "UNEXPECTED"} \cup FaqErrors

Served == IF batch = NoBatch THEN {} ELSE DOMAIN batch.item

FaqTypeOK ==
  /\ RetrievalTypeOK
  /\ settings \in Settings
  /\ batch \in Batches
  /\ context \in [Items -> SUBSET Docs]
  /\ answer \in [Items -> Answers]
  /\ result \in [Items -> Results]
  /\ outcome \in {"running", "answered"}

FaqInit ==
  /\ RetrievalInit
  /\ settings \in Settings
  /\ batch \in Batches
  /\ context = [i \in Items |-> {}]
  /\ answer = [i \in Items |-> NoAnswer]
  /\ result = [i \in Items |-> "none"]
  /\ outcome = IF batch = NoBatch THEN "answered" ELSE "running"

Request(i) == batch.item[i]

-----------------------------------------------------------------------------
(* What is asked of others. *)

(* The service for personal data sees what there is, or is down. *)
ServiceVerdicts(personal) == {IF personal THEN "pii" ELSE "clean", "down"}

(* Without the service every text passes. *)
Verdicts(personal) ==
  IF settings.pii THEN ServiceVerdicts(personal) ELSE {"clean"}

InputVerdicts(i) ==
  Verdicts(Request(i).question = "personal" \/ \E d \in Request(i).given : d.pii)

ContextVerdicts(i) == Verdicts(\E d \in found[i] : d.pii)

OutputVerdicts(i) == Verdicts(answer[i].pii)

(* The rules are read once; without them no question is forbidden. *)
RulesLoaded == settings.rules

FuzzyMatch(question) == settings.fuzzy /\ question = "similar"

IsForbidden(question) ==
  RulesLoaded /\ (question = "forbidden" \/ FuzzyMatch(question))

-----------------------------------------------------------------------------
(* The end of an item, which frees its slot. *)

Ends(i, r) ==
  /\ Goes(i, "done")
  /\ result' = [result EXCEPT ![i] = r]
  /\ UNCHANGED <<batch, outcome>>

Fails(i, error) ==
  /\ Ends(i, error)
  /\ UNCHANGED <<context, answer>>

Continues(i, place) ==
  /\ Goes(i, place)
  /\ UNCHANGED <<batch, result, outcome>>

Active == {i \in Served : at[i] \notin {"waiting", "done"}}

(* The item has a slot; a doubtful intent is an error when that is asked    *)
(* for, and a line of the log otherwise.                                    *)
TakeSlot(i) ==
  /\ i \in Served
  /\ at[i] = "waiting"
  /\ Cardinality(Active) < batch.slots
  /\ \/ /\ settings.strict /\ ~Request(i).sure
        /\ Fails(i, "LOW_CONFIDENCE")
     \/ /\ settings.strict => Request(i).sure
        /\ Continues(i, "input")
        /\ UNCHANGED <<context, answer>>
  /\ UNCHANGED searchVars

InputRefused(i) ==
  /\ at[i] = "input"
  /\ \/ "pii" \in InputVerdicts(i) /\ Fails(i, "PII_DETECTED")
     \/ "down" \in InputVerdicts(i) /\ Fails(i, "UNEXPECTED")
  /\ UNCHANGED searchVars

(* Documents that came with the request are the context as they are. *)
InputGiven(i) ==
  /\ at[i] = "input"
  /\ "clean" \in InputVerdicts(i)
  /\ Request(i).given # {}
  /\ context' = [context EXCEPT ![i] = Request(i).given]
  /\ Continues(i, "llm")
  /\ UNCHANGED <<searchVars, answer>>

(* Otherwise the question is searched, unless it is forbidden. *)
InputSearched(i) ==
  /\ at[i] = "input"
  /\ "clean" \in InputVerdicts(i)
  /\ Request(i).given = {}
  /\ \/ /\ IsForbidden(Request(i).question)
        /\ Fails(i, "FORBIDDEN_QUERY")
        /\ UNCHANGED searchVars
     \/ /\ ~IsForbidden(Request(i).question) /\ ~settings.milvus
        /\ Fails(i, "SEARCH_FAILED")
        /\ UNCHANGED searchVars
     \/ /\ ~IsForbidden(Request(i).question) /\ settings.milvus
        /\ SearchStarts(i, Request(i).domain)
        /\ Continues(i, "embed")
        /\ UNCHANGED <<context, answer>>

-----------------------------------------------------------------------------
(* The search. *)

SearchFound(i) ==
  /\ \E docs \in SUBSET Docs :
       /\ Searched(i, docs)
       /\ IF docs = {} THEN Fails(i, "NO_DOCS_FOUND")
                       ELSE Continues(i, "context") /\ UNCHANGED <<context, answer>>

(* A failed search is one without documents. *)
SearchFailed(i) ==
  /\ SearchLost(i)
  /\ Fails(i, "NO_DOCS_FOUND")

Opening(i) ==
  /\ Embeds(i) \/ Opens(i) \/ Loads(i)
  /\ UNCHANGED faqVars

ContextChecked(i) ==
  /\ at[i] = "context"
  /\ \E v \in ContextVerdicts(i) :
       CASE v = "pii"   -> Fails(i, "PII_DETECTED_CONTEXT")
         [] v = "down"  -> Fails(i, "UNEXPECTED")
         [] v = "clean" -> /\ context' = [context EXCEPT ![i] = found[i]]
                           /\ Continues(i, "llm")
                           /\ UNCHANGED answer
  /\ UNCHANGED searchVars

-----------------------------------------------------------------------------
(* The LLM. *)

(* The text parses. *)
Parsed(i) ==
  /\ \E a \in Answers : answer' = [answer EXCEPT ![i] = a]
  /\ Continues(i, "output")
  /\ UNCHANGED context

Asked(i) ==
  /\ at[i] = "llm"
  /\ \/ "error" \in CallEnds(i) /\ Fails(i, "LLM_FAILED")
     \/ "text" \in CallEnds(i) /\ Parsed(i)
     \/ "text" \in CallEnds(i) /\ Continues(i, "llm2") /\ UNCHANGED <<context, answer>>
  /\ UNCHANGED searchVars

(* Variant: the second answer is not checked. *)
AskedAgain_Trusting(i) ==
  /\ at[i] = "llm2"
  /\ \E a \in Answers :
       /\ answer' = [answer EXCEPT ![i] = a]
       /\ Ends(i, "SUCCESS")
       /\ UNCHANGED <<searchVars, context>>

(* The second call and its parsing are outside of the handler of the first: *)
(* an error, and JSON that is no object, are unexpected.                    *)
AskedAgain(i) ==
  /\ at[i] = "llm2"
  /\ \/ CallEnds(i) \cap {"error", "text"} # {} /\ Fails(i, "UNEXPECTED")
     \/ "text" \in CallEnds(i) /\ (Parsed(i) \/ Fails(i, "PARSE_FAILED"))
  /\ UNCHANGED searchVars

Drafted(i) ==
  /\ Ends(i, "SUCCESS")
  /\ UNCHANGED <<context, answer>>

(* The check of the answer; what it says of its relevance is second.  A     *)
(* field that is no text raises where it is first used as one: before the   *)
(* check, after it, or when the draft is made.                              *)
OutputChecked(i) ==
  /\ at[i] = "output"
  /\ \/ answer[i].odd /\ Fails(i, "UNEXPECTED")
     \/ "down" \in OutputVerdicts(i) /\ Fails(i, "UNEXPECTED")
     \/ "pii" \in OutputVerdicts(i) /\ Fails(i, "PII_DETECTED_OUTPUT")
     \/ /\ "clean" \in OutputVerdicts(i) /\ answer[i].low /\ settings.strict
        /\ Fails(i, "LOW_RELEVANCE_CONTEXT")
     \/ /\ "clean" \in OutputVerdicts(i) /\ ~answer[i].odd
        /\ ~(answer[i].low /\ settings.strict)
        /\ Drafted(i)
  /\ UNCHANGED searchVars

Posting(i) ==
  /\ i \in Items
  /\ PostAgain(i)
  /\ UNCHANGED <<searchVars, faqVars>>

-----------------------------------------------------------------------------
ItemStep(i) ==
  \/ TakeSlot(i) \/ InputRefused(i) \/ InputGiven(i) \/ InputSearched(i)
  \/ Opening(i) \/ SearchFound(i) \/ SearchFailed(i) \/ ContextChecked(i)
  \/ Posting(i) \/ Asked(i) \/ AskedAgain(i) \/ OutputChecked(i)

(* gather returns when each of the items has its result. *)
BatchReturns ==
  /\ outcome = "running"
  /\ \A i \in Served : at[i] = "done"
  /\ outcome' = "answered"
  /\ UNCHANGED <<llmVars, searchVars, batch, context, answer, result>>

-----------------------------------------------------------------------------
(* Where the service for personal data is in use, a draft comes from a      *)
(* question, documents and an answer without any: none of the three checks  *)
(* is passed over on any way through search, second call and failures       *)
(* (generate_faq_draft).                                                    *)
PiiStopsDraft ==
  settings.pii =>
    \A i \in Served : result[i] = "SUCCESS" =>
      /\ Request(i).question # "personal"
      /\ ~\E d \in context[i] : d.pii
      /\ ~answer[i].pii

(* A draft rests on documents, and on documents of its domain's datasets    *)
(* when it searched for them in a collection that has datasets, also in the *)
(* searches made before anybody knew that it has (search_as_sources).       *)
DraftStaysInDataset ==
  \A i \in Served : result[i] = "SUCCESS" =>
    /\ context[i] # {}
    /\ Request(i).given = {} /\ settings.filter /\ settings.field =>
         context[i] \subseteq Within(FilterExpr(Request(i).domain))

(* An outage of the search is not told as a question without documents:     *)
(* rag_handler.py raises RagSearchUnavailableError for an outage and counts *)
(* an empty result as none.  search_as_sources, which answers an outage     *)
(* with no documents, breaks it.                                            *)
OutageIsNotEmpty ==
  \A i \in lost : result[i] # "NO_DOCS_FOUND"
=============================================================================
