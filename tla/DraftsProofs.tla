---------------------------- MODULE DraftsProofs ----------------------------
(***************************************************************************)
(* Proofs about Drafts, for any number of items, documents, quizzes and    *)
(* questions and every configuration.  FaqInv follows an item from check   *)
(* to check; QuizInv follows a question from the LLM to the response.      *)
(***************************************************************************)
EXTENDS Drafts, Integers, TLAPS

-----------------------------------------------------------------------------
(* Places and types. *)

Places ==
  {"waiting", "input", "embed", "open", "load", "search", "context",
   "llm", "llm2", "output", "check", "selfcheck", "suggest", "done"}

LlmTypeOK ==
  /\ at \in [Clients -> Places]
  /\ tries \in [Clients -> 0..LlmRetries]

(* Only what is served moves, and a question is looked at in "selfcheck".   *)
TypeInv ==
  /\ TypeOK
  /\ \A i \in Items : at[i] # "done" => i \in Served
  /\ \A q \in Quizzes : at[q] = "selfcheck" => left[q] # {}

LEMMA LlmOfType == TypeOK <=> LlmTypeOK /\ FaqTypeOK /\ QuizTypeOK
                               /\ suggestion \in [Gaps -> {"none", "LLM", "fallback"}]
BY DEF TypeOK, LlmTypeOK, Places

LEMMA Disjoint ==
  /\ Items \subseteq Clients /\ Quizzes \subseteq Clients /\ Gaps \subseteq Clients
  /\ \A i \in Items : i \notin Quizzes /\ i \notin Gaps
  /\ \A q \in Quizzes : q \notin Gaps
BY DraftsAssumption

(* A client goes to a place and the others stay where they are. *)
LEMMA GoesType ==
  ASSUME LlmTypeOK, NEW c \in Clients, NEW place \in Places, Goes(c, place)
  PROVE  /\ LlmTypeOK'
         /\ at'[c] = place
         /\ \A o \in Clients \ {c} : at'[o] = at[o]
<1>1. at' \in [Clients -> Places] /\ at'[c] = place /\ \A o \in Clients \ {c} : at'[o] = at[o]
  BY DEF Goes, LlmTypeOK
<1>2. 0 \in 0..LlmRetries
  BY LlmAssumption
<1>3. tries' \in [Clients -> 0..LlmRetries]
  BY <1>2 DEF Goes, LlmTypeOK
<1>4. QED
  BY <1>1, <1>3 DEF LlmTypeOK

LEMMA PostType ==
  ASSUME LlmTypeOK, NEW c \in Clients, PostAgain(c)
  PROVE  LlmTypeOK' /\ at' = at
<1>1. tries[c] + 1 \in 0..LlmRetries
  BY LlmAssumption DEF PostAgain, LlmTypeOK
<1>2. QED
  BY <1>1 DEF PostAgain, LlmTypeOK

(* The request of an item that is served. *)
LEMMA RequestType ==
  ASSUME TypeOK, NEW i \in Served
  PROVE  i \in Items /\ Request(i) \in Requests
BY FaqAssumption DEF TypeOK, FaqTypeOK, Served, Request

-----------------------------------------------------------------------------
(* What a step of an item touches. *)

SearchFrame(i) ==
  /\ RetrievalTypeOK'
  /\ \A o \in Items \ {i} : found'[o] = found[o] /\ filter'[o] = filter[o]

WritingFrame(i) ==
  /\ context' \in [Items -> SUBSET Docs]
  /\ answer' \in [Items -> Answers]
  /\ \A o \in Items \ {i} : context'[o] = context[o] /\ answer'[o] = answer[o]

ItemFrame(i) ==
  /\ LlmTypeOK' /\ FaqTypeOK'
  /\ SearchFrame(i) /\ WritingFrame(i)
  /\ \A o \in Clients \ {i} : at'[o] = at[o]
  /\ \A o \in Items \ {i} : result'[o] = result[o]
  /\ UNCHANGED <<settings, batch>>

LEMMA SearchUntouched ==
  ASSUME TypeOK, UNCHANGED searchVars, NEW i \in Items
  PROVE  SearchFrame(i)
BY DEF TypeOK, FaqTypeOK, searchVars, SearchFrame, RetrievalTypeOK

LEMMA WritingUntouched ==
  ASSUME TypeOK, UNCHANGED <<context, answer>>, NEW i \in Items
  PROVE  WritingFrame(i)
BY DEF TypeOK, FaqTypeOK, WritingFrame

LEMMA ContinuesFrame ==
  ASSUME TypeOK, NEW i \in Items, NEW place \in Places, Continues(i, place),
         SearchFrame(i), WritingFrame(i), UNCHANGED settings
  PROVE  ItemFrame(i) /\ at'[i] = place /\ UNCHANGED result
<1>1. LlmTypeOK' /\ at'[i] = place /\ \A o \in Clients \ {i} : at'[o] = at[o]
  BY LlmOfType, Disjoint, GoesType DEF Continues
<1>2. FaqTypeOK' /\ UNCHANGED <<batch, result>>
  BY DEF Continues, TypeOK, FaqTypeOK, SearchFrame, WritingFrame
<1>3. QED
  BY <1>1, <1>2 DEF ItemFrame

LEMMA EndsFrame ==
  ASSUME TypeOK, NEW i \in Items, NEW r \in Results, Ends(i, r),
         SearchFrame(i), UNCHANGED <<context, answer, settings>>
  PROVE  ItemFrame(i) /\ at'[i] = "done" /\ result'[i] = r
<1>1. LlmTypeOK' /\ at'[i] = "done" /\ \A o \in Clients \ {i} : at'[o] = at[o]
  BY LlmOfType, Disjoint, GoesType DEF Ends, Places
<1>2. WritingFrame(i)
  BY WritingUntouched
<1>3. /\ result' \in [Items -> Results] /\ result'[i] = r
      /\ \A o \in Items \ {i} : result'[o] = result[o]
  BY DEF Ends, TypeOK, FaqTypeOK
<1>4. FaqTypeOK' /\ UNCHANGED batch
  BY <1>2, <1>3 DEF Ends, TypeOK, FaqTypeOK, SearchFrame, WritingFrame
<1>5. QED
  BY <1>1, <1>2, <1>3, <1>4 DEF ItemFrame

(* An item that fails; the ways to do so are errors of the service. *)
Failing(i) ==
  \E error \in Results \ {"none", "SUCCESS"} : Fails(i, error)

LEMMA FailingFrame ==
  ASSUME TypeOK, NEW i \in Items, Failing(i), SearchFrame(i), UNCHANGED settings
  PROVE  ItemFrame(i) /\ at'[i] = "done" /\ result'[i] # "SUCCESS" /\ UNCHANGED <<context, answer>>
BY EndsFrame DEF Failing, Fails

LEMMA FailsIsFailing ==
  ASSUME NEW i, NEW error \in FaqErrors \cup {"UNEXPECTED"}, Fails(i, error)
  PROVE  Failing(i)
BY DEF Failing, FaqErrors, Results

-----------------------------------------------------------------------------
(* An item on its way. *)

SearchPlaces == {"embed", "open", "load", "search"}
WritePlaces  == {"llm", "llm2", "output"}

(* What a search for the item may bring. *)
InDataset(i, docs) ==
  Request(i).given = {} /\ settings.filter /\ settings.field =>
    docs \subseteq Within(FilterExpr(Request(i).domain))

Filtered(i) ==
  settings.filter /\ settings.field => filter[i] = FilterExpr(Request(i).domain)

ItemInv(i) ==
  /\ result[i] = "SUCCESS" => at[i] = "done"
  /\ at[i] \in SearchPlaces \cup {"context"} \cup WritePlaces \/ result[i] = "SUCCESS" =>
       (settings.pii => Request(i).question # "personal")
  /\ at[i] \in SearchPlaces => Request(i).given = {} /\ Filtered(i)
  /\ at[i] = "context" => found[i] # {} /\ InDataset(i, found[i])
  /\ at[i] \in WritePlaces \/ result[i] = "SUCCESS" =>
       /\ context[i] # {} /\ InDataset(i, context[i])
       /\ settings.pii => \A d \in context[i] : ~d.pii
  /\ result[i] = "SUCCESS" /\ settings.pii => ~answer[i].pii

(* A collection with the field is never taken for one without. *)
FieldKnown == settings.field => field # "no"

FaqInv == FieldKnown /\ \A i \in Served : ItemInv(i)

(* An item that fails, from any place. *)
LEMMA FailingKeeps ==
  ASSUME TypeInv, FaqInv, NEW i \in Served, at[i] # "done", Failing(i),
         SearchFrame(i), UNCHANGED settings
  PROVE  ItemFrame(i) /\ ItemInv(i)'
<1>1. i \in Items
  BY RequestType DEF TypeInv
<1>2. ItemFrame(i) /\ at'[i] = "done" /\ result'[i] # "SUCCESS"
  BY <1>1, FailingFrame DEF TypeInv
<1>3. QED
  BY <1>2 DEF ItemInv, SearchPlaces, WritePlaces

LEMMA TakeSlotKeeps ==
  ASSUME TypeInv, FaqInv, NEW i \in Items, TakeSlot(i), UNCHANGED settings
  PROVE  ItemFrame(i) /\ ItemInv(i)' /\ FieldKnown'
<1>1. i \in Served /\ at[i] # "done" /\ result[i] # "SUCCESS" /\ SearchFrame(i) /\ FieldKnown'
  BY SearchUntouched DEF TakeSlot, TypeInv, FaqInv, ItemInv, FieldKnown, searchVars
<1>2. CASE Failing(i)
  BY <1>1, <1>2, FailingKeeps
<1>3. CASE Continues(i, "input") /\ UNCHANGED <<context, answer>>
  <2>1. "input" \in Places
    BY DEF Places
  <2>2. ItemFrame(i) /\ at'[i] = "input" /\ UNCHANGED result
    BY <1>1, <1>3, <2>1, ContinuesFrame, WritingUntouched DEF TypeInv
  <2>3. QED
    BY <1>1, <2>2 DEF ItemInv, SearchPlaces, WritePlaces
<1>4. QED
  BY <1>1, <1>2, <1>3, FailsIsFailing DEF TakeSlot, FaqErrors

LEMMA InputRefusedKeeps ==
  ASSUME TypeInv, FaqInv, NEW i \in Items, InputRefused(i), UNCHANGED settings
  PROVE  ItemFrame(i) /\ ItemInv(i)' /\ FieldKnown'
<1>1. i \in Served /\ at[i] # "done" /\ SearchFrame(i) /\ FieldKnown'
  BY SearchUntouched DEF InputRefused, TypeInv, FaqInv, FieldKnown, searchVars
<1>2. Failing(i)
  BY FailsIsFailing DEF InputRefused, FaqErrors
<1>3. QED
  BY <1>1, <1>2, FailingKeeps

(* What the service lets through has no personal data. *)
LEMMA CleanInput ==
  ASSUME TypeInv, NEW i \in Served, "clean" \in InputVerdicts(i), settings.pii
  PROVE  Request(i).question # "personal" /\ \A d \in Request(i).given : ~d.pii
<1>1. CASE Request(i).question = "personal" \/ \E d \in Request(i).given : d.pii
  BY <1>1 DEF InputVerdicts, Verdicts, ServiceVerdicts
<1>2. QED
  BY <1>1

LEMMA CleanContext ==
  ASSUME TypeInv, NEW i \in Served, "clean" \in ContextVerdicts(i), settings.pii
  PROVE  \A d \in found[i] : ~d.pii
<1>1. CASE \E d \in found[i] : d.pii
  BY <1>1 DEF ContextVerdicts, Verdicts, ServiceVerdicts
<1>2. QED
  BY <1>1

LEMMA CleanOutput ==
  ASSUME TypeInv, NEW i \in Served, "clean" \in OutputVerdicts(i), settings.pii
  PROVE  ~answer[i].pii
BY DEF OutputVerdicts, Verdicts, ServiceVerdicts

LEMMA InputGivenKeeps ==
  ASSUME TypeInv, FaqInv, NEW i \in Items, InputGiven(i), UNCHANGED settings
  PROVE  ItemFrame(i) /\ ItemInv(i)' /\ FieldKnown'
<1>1. i \in Served /\ at[i] = "input" /\ result[i] # "SUCCESS" /\ SearchFrame(i) /\ FieldKnown'
  BY SearchUntouched DEF InputGiven, TypeInv, FaqInv, ItemInv, FieldKnown, searchVars
<1>2. Request(i).given \in SUBSET Docs
  BY <1>1, RequestType DEF TypeInv, Requests
<1>3. WritingFrame(i) /\ context'[i] = Request(i).given
  BY <1>2 DEF InputGiven, WritingFrame, TypeInv, TypeOK, FaqTypeOK
<1>4. "llm" \in Places
  BY DEF Places
<1>5. ItemFrame(i) /\ at'[i] = "llm" /\ UNCHANGED result
  BY <1>1, <1>3, <1>4, ContinuesFrame DEF InputGiven, TypeInv
<1>6. settings.pii => Request(i).question # "personal" /\ \A d \in context'[i] : ~d.pii
  BY <1>1, <1>3, CleanInput DEF InputGiven
<1>7. context'[i] # {} /\ ~(Request(i).given = {})
  BY <1>3 DEF InputGiven
<1>8. Request(i)' = Request(i) /\ settings' = settings
  BY <1>5 DEF ItemFrame, Request
<1>9. ItemInv(i)'
  BY <1>1, <1>5, <1>6, <1>7, <1>8 DEF ItemInv, InDataset, Filtered, SearchPlaces, WritePlaces
<1>10. QED
  BY <1>1, <1>5, <1>9

(* The filter of a search names the domain's datasets, in a collection that *)
(* has some, from the first search on.                                      *)
LEMMA StartsFiltered ==
  ASSUME TypeInv, FieldKnown, NEW i \in Served, SearchStarts(i, Request(i).domain)
  PROVE  /\ SearchFrame(i) /\ UNCHANGED field
         /\ settings.filter /\ settings.field => filter'[i] = FilterExpr(Request(i).domain)
<1>1. i \in Items /\ Request(i).domain \in Domains
  BY RequestType DEF TypeInv, Requests
<1>2. FilterFor(Request(i).domain) \in SUBSET {d.dataset : d \in Docs}
  BY <1>1, RetrievalAssumption DEF FilterFor, FilterExpr
<1>3. /\ filter \in [Items -> SUBSET {d.dataset : d \in Docs}]
      /\ filter' = [filter EXCEPT ![i] = FilterFor(Request(i).domain)]
  BY FaqAssumption DEF SearchStarts, TypeInv, TypeOK, FaqTypeOK, RetrievalTypeOK
<1>4. /\ filter' \in [Items -> SUBSET {d.dataset : d \in Docs}]
      /\ filter'[i] = FilterFor(Request(i).domain)
      /\ \A o \in Items \ {i} : filter'[o] = filter[o]
  BY <1>1, <1>2, <1>3
<1>5. SearchFrame(i)
  BY <1>4, FaqAssumption
     DEF SearchStarts, SearchFrame, TypeInv, TypeOK, FaqTypeOK, RetrievalTypeOK
<1>6. QED
  BY <1>4, <1>5 DEF SearchStarts, FilterFor, FieldKnown

LEMMA InputSearchedKeeps ==
  ASSUME TypeInv, FaqInv, NEW i \in Items, InputSearched(i), UNCHANGED settings
  PROVE  ItemFrame(i) /\ ItemInv(i)' /\ FieldKnown'
<1>1. i \in Served /\ at[i] = "input" /\ result[i] # "SUCCESS"
  BY DEF InputSearched, TypeInv, FaqInv, ItemInv
<1>2. CASE Failing(i) /\ UNCHANGED searchVars
  <2>1. SearchFrame(i) /\ FieldKnown'
    BY <1>2, SearchUntouched DEF TypeInv, FaqInv, FieldKnown, searchVars
  <2>2. QED
    BY <1>1, <1>2, <2>1, FailingKeeps
<1>3. CASE /\ SearchStarts(i, Request(i).domain)
           /\ Continues(i, "embed")
           /\ UNCHANGED <<context, answer>>
  <2>1. /\ SearchFrame(i) /\ UNCHANGED field
        /\ settings.filter /\ settings.field => filter'[i] = FilterExpr(Request(i).domain)
    BY <1>1, <1>3, StartsFiltered DEF FaqInv
  <2>2. "embed" \in Places
    BY DEF Places
  <2>3. ItemFrame(i) /\ at'[i] = "embed" /\ UNCHANGED result
    BY <1>3, <2>1, <2>2, ContinuesFrame, WritingUntouched DEF TypeInv
  <2>4. settings.pii => Request(i).question # "personal"
    BY <1>1, CleanInput DEF InputSearched
  <2>5. Request(i)' = Request(i) /\ settings' = settings /\ Request(i).given = {}
    BY <2>3 DEF ItemFrame, Request, InputSearched
  <2>6. Filtered(i)'
    BY <2>1, <2>5 DEF Filtered, FilterExpr
  <2>7. ItemInv(i)'
    BY <1>1, <2>3, <2>4, <2>5, <2>6 DEF ItemInv, SearchPlaces, WritePlaces
  <2>8. QED
    BY <2>1, <2>3, <2>7 DEF FaqInv, FieldKnown
<1>4. QED
  BY <1>2, <1>3, FailsIsFailing DEF InputSearched, FaqErrors

LEMMA OpeningKeeps ==
  ASSUME TypeInv, FaqInv, NEW i \in Items, Opening(i), UNCHANGED settings
  PROVE  ItemFrame(i) /\ ItemInv(i)' /\ FieldKnown'
<1>1. PICK place \in {"open", "load", "search"} : Goes(i, place)
  BY DEF Opening, Embeds, Opens, Loads
<1>2. i \in Served /\ at[i] \in SearchPlaces /\ result[i] # "SUCCESS" /\ UNCHANGED <<filter, found>>
  BY DEF Opening, Embeds, Opens, Loads, searchVars, TypeInv, FaqInv, ItemInv, SearchPlaces
<1>3. SearchFrame(i) /\ FieldKnown'
  BY <1>2 DEF Opening, Embeds, Opens, Loads, searchVars, SearchFrame, FaqInv, FieldKnown,
     TypeInv, TypeOK, FaqTypeOK, RetrievalTypeOK
<1>4. place \in Places
  BY DEF Places
<1>5. Continues(i, place) /\ UNCHANGED <<context, answer>>
  BY <1>1 DEF Opening, Continues, faqVars
<1>6. ItemFrame(i) /\ at'[i] = place
  BY <1>3, <1>4, <1>5, ContinuesFrame, WritingUntouched DEF TypeInv
<1>7. /\ UNCHANGED <<result, settings>> /\ Request(i)' = Request(i)
      /\ Filtered(i) => Filtered(i)'
  BY <1>2, <1>5, <1>6 DEF Continues, ItemFrame, Request, Filtered
<1>8. ItemInv(i)'
  BY <1>2, <1>6, <1>7 DEF FaqInv, ItemInv, SearchPlaces, WritePlaces
<1>9. QED
  BY <1>3, <1>6, <1>8

(* What is found lies within the filter, and the gate only drops of it. *)
LEMMA FoundWithin ==
  ASSUME TypeInv, NEW i \in Items, NEW docs \in SUBSET Docs, Searched(i, docs)
  PROVE  /\ docs \subseteq Within(filter[i])
         /\ SearchFrame(i) /\ found'[i] = docs
<1>1. docs \subseteq Within(filter[i])
  BY DEF Searched, Near, Gated
<1>2. /\ found' \in [Items -> SUBSET Docs] /\ found'[i] = docs
      /\ \A o \in Items \ {i} : found'[o] = found[o]
  BY FaqAssumption DEF Searched, TypeInv, TypeOK, FaqTypeOK, RetrievalTypeOK
<1>3. SearchFrame(i)
  BY <1>2, FaqAssumption DEF Searched, SearchFrame, TypeInv, TypeOK, FaqTypeOK, RetrievalTypeOK
<1>4. QED
  BY <1>1, <1>2, <1>3

LEMMA SearchFoundKeeps ==
  ASSUME TypeInv, FaqInv, NEW i \in Items, SearchFound(i), UNCHANGED settings
  PROVE  ItemFrame(i) /\ ItemInv(i)' /\ FieldKnown'
<1>1. PICK docs \in SUBSET Docs :
        /\ Searched(i, docs)
        /\ IF docs = {} THEN Fails(i, "NO_DOCS_FOUND")
                        ELSE Continues(i, "context") /\ UNCHANGED <<context, answer>>
  BY DEF SearchFound
<1>2. /\ i \in Served /\ at[i] = "search" /\ result[i] # "SUCCESS" /\ FieldKnown'
      /\ ItemInv(i)
  BY <1>1 DEF Searched, TypeInv, FaqInv, ItemInv, FieldKnown
<1>3. docs \subseteq Within(filter[i]) /\ SearchFrame(i) /\ found'[i] = docs
  BY <1>1, FoundWithin
<1>4. CASE docs = {}
  <2>1. Failing(i)
    BY <1>1, <1>4, FailsIsFailing DEF FaqErrors
  <2>2. QED
    BY <1>2, <1>3, <2>1, FailingKeeps
<1>5. CASE docs # {}
  <2>1. "context" \in Places
    BY DEF Places
  <2>2. ItemFrame(i) /\ at'[i] = "context" /\ UNCHANGED result
    BY <1>1, <1>3, <1>5, <2>1, ContinuesFrame, WritingUntouched DEF TypeInv
  <2>3. Request(i)' = Request(i) /\ settings' = settings
    BY <2>2 DEF ItemFrame, Request
  <2>4. Filtered(i) /\ (settings.pii => Request(i).question # "personal")
    BY <1>2 DEF ItemInv, SearchPlaces
  <2>5. found'[i] # {} /\ InDataset(i, found[i])'
    BY <1>3, <1>5, <2>3, <2>4 DEF Filtered, InDataset
  <2>6. ItemInv(i)'
    BY <1>2, <2>2, <2>3, <2>4, <2>5 DEF ItemInv, SearchPlaces, WritePlaces
  <2>7. QED
    BY <1>2, <2>2, <2>6
<1>6. QED
  BY <1>4, <1>5

LEMMA SearchFailedKeeps ==
  ASSUME TypeInv, FaqInv, NEW i \in Items, SearchFailed(i), UNCHANGED settings
  PROVE  ItemFrame(i) /\ ItemInv(i)' /\ FieldKnown'
<1>1. i \in Served /\ at[i] # "done" /\ FieldKnown'
  BY DEF SearchFailed, SearchLost, TypeInv, FaqInv, FieldKnown
<1>2. /\ found' \in [Items -> SUBSET Docs] /\ lost' \subseteq Items
      /\ \A o \in Items \ {i} : found'[o] = found[o]
  BY FaqAssumption DEF SearchFailed, SearchLost, TypeInv, TypeOK, FaqTypeOK, RetrievalTypeOK
<1>3. SearchFrame(i)
  BY <1>2, FaqAssumption
     DEF SearchFailed, SearchLost, SearchFrame, TypeInv, TypeOK, FaqTypeOK, RetrievalTypeOK
<1>4. Failing(i)
  BY FailsIsFailing DEF SearchFailed, FaqErrors
<1>5. QED
  BY <1>1, <1>3, <1>4, FailingKeeps

LEMMA ContextCheckedKeeps ==
  ASSUME TypeInv, FaqInv, NEW i \in Items, ContextChecked(i), UNCHANGED settings
  PROVE  ItemFrame(i) /\ ItemInv(i)' /\ FieldKnown'
<1>1. PICK v \in ContextVerdicts(i) :
        CASE v = "pii"   -> Fails(i, "PII_DETECTED_CONTEXT")
          [] v = "down"  -> Fails(i, "UNEXPECTED")
          [] v = "clean" -> /\ context' = [context EXCEPT ![i] = found[i]]
                            /\ Continues(i, "llm")
                            /\ UNCHANGED answer
  BY DEF ContextChecked
<1>2. /\ i \in Served /\ at[i] = "context" /\ result[i] # "SUCCESS" /\ FieldKnown'
      /\ ItemInv(i) /\ SearchFrame(i)
  BY SearchUntouched DEF ContextChecked, TypeInv, FaqInv, ItemInv, FieldKnown, searchVars
<1>3. v \in {"pii", "down", "clean"}
  BY DEF ContextVerdicts, Verdicts, ServiceVerdicts
<1>4. CASE v \in {"pii", "down"}
  <2>1. Failing(i)
    BY <1>1, <1>4, FailsIsFailing DEF FaqErrors
  <2>2. QED
    BY <1>2, <2>1, FailingKeeps
<1>5. CASE v = "clean"
  <2>1. context' = [context EXCEPT ![i] = found[i]] /\ Continues(i, "llm") /\ UNCHANGED answer
    BY <1>1, <1>5
  <2>2. found[i] \in SUBSET Docs
    BY FaqAssumption DEF TypeInv, TypeOK, FaqTypeOK, RetrievalTypeOK
  <2>3. WritingFrame(i) /\ context'[i] = found[i]
    BY <2>1, <2>2 DEF WritingFrame, TypeInv, TypeOK, FaqTypeOK
  <2>4. "llm" \in Places
    BY DEF Places
  <2>5. ItemFrame(i) /\ at'[i] = "llm" /\ UNCHANGED result
    BY <1>2, <2>1, <2>3, <2>4, ContinuesFrame DEF TypeInv
  <2>6. Request(i)' = Request(i) /\ settings' = settings
    BY <2>5 DEF ItemFrame, Request
  <2>7. settings.pii => \A d \in context'[i] : ~d.pii
    BY <1>2, <1>5, <2>3, CleanContext
  <2>8. /\ context'[i] # {} /\ InDataset(i, context[i])'
        /\ settings.pii => Request(i).question # "personal"
    BY <1>2, <2>3, <2>6 DEF ItemInv, InDataset
  <2>9. ItemInv(i)'
    BY <1>2, <2>5, <2>6, <2>7, <2>8 DEF ItemInv, SearchPlaces, WritePlaces
  <2>10. QED
    BY <1>2, <2>5, <2>9
<1>6. QED
  BY <1>3, <1>4, <1>5

(* An answer is stored, and nothing else is known of it. *)
LEMMA ParsedKeeps ==
  ASSUME TypeInv, FaqInv, NEW i \in Served, at[i] \in {"llm", "llm2"}, Parsed(i),
         UNCHANGED <<searchVars, settings>>
  PROVE  ItemFrame(i) /\ ItemInv(i)'
<1>1. i \in Items /\ SearchFrame(i) /\ "output" \in Places
  BY RequestType, SearchUntouched DEF TypeInv, searchVars, Places
<1>2. WritingFrame(i) /\ UNCHANGED context
  BY <1>1 DEF Parsed, WritingFrame, TypeInv, TypeOK, FaqTypeOK
<1>3. ItemFrame(i) /\ at'[i] = "output" /\ UNCHANGED result
  BY <1>1, <1>2, ContinuesFrame DEF Parsed, TypeInv
<1>4. Request(i)' = Request(i) /\ settings' = settings /\ InDataset(i, context[i])' = InDataset(i, context[i])
  BY <1>2, <1>3 DEF ItemFrame, Request, InDataset
<1>5. QED
  BY <1>2, <1>3, <1>4 DEF FaqInv, ItemInv, SearchPlaces, WritePlaces

LEMMA AskedKeeps ==
  ASSUME TypeInv, FaqInv, NEW i \in Items, Asked(i) \/ AskedAgain(i), UNCHANGED settings
  PROVE  ItemFrame(i) /\ ItemInv(i)' /\ FieldKnown'
<1>1. /\ i \in Served /\ at[i] \in {"llm", "llm2"} /\ SearchFrame(i) /\ FieldKnown'
      /\ UNCHANGED searchVars /\ ItemInv(i)
  BY SearchUntouched DEF Asked, AskedAgain, TypeInv, FaqInv, FieldKnown, searchVars
<1>2. CASE Failing(i)
  BY <1>1, <1>2, FailingKeeps
<1>3. CASE Parsed(i)
  BY <1>1, <1>3, ParsedKeeps
<1>4. CASE Continues(i, "llm2") /\ UNCHANGED <<context, answer>>
  <2>1. "llm2" \in Places
    BY DEF Places
  <2>2. ItemFrame(i) /\ at'[i] = "llm2" /\ UNCHANGED result
    BY <1>1, <1>4, <2>1, ContinuesFrame, WritingUntouched DEF TypeInv
  <2>3. Request(i)' = Request(i) /\ settings' = settings /\ InDataset(i, context[i])' = InDataset(i, context[i])
    BY <1>4, <2>2 DEF ItemFrame, Request, InDataset
  <2>4. ItemInv(i)'
    BY <1>1, <1>4, <2>2, <2>3 DEF ItemInv, SearchPlaces, WritePlaces
  <2>5. QED
    BY <1>1, <2>2, <2>4
<1>5. QED
  BY <1>2, <1>3, <1>4, FailsIsFailing DEF Asked, AskedAgain, FaqErrors

LEMMA OutputCheckedKeeps ==
  ASSUME TypeInv, FaqInv, NEW i \in Items, OutputChecked(i), UNCHANGED settings
  PROVE  ItemFrame(i) /\ ItemInv(i)' /\ FieldKnown'
<1>1. \/ \E error \in FaqErrors \cup {"UNEXPECTED"} : Fails(i, error)
      \/ "clean" \in OutputVerdicts(i) /\ Drafted(i)
  BY DEF OutputChecked, FaqErrors
<1>2. /\ i \in Served /\ at[i] = "output" /\ SearchFrame(i) /\ FieldKnown' /\ ItemInv(i)
  BY SearchUntouched DEF OutputChecked, TypeInv, FaqInv, FieldKnown, searchVars
<1>4. Failing(i) \/ ("clean" \in OutputVerdicts(i) /\ Drafted(i))
  BY <1>1, FailsIsFailing
<1>5. CASE Failing(i)
  BY <1>2, <1>5, FailingKeeps
<1>6. CASE "clean" \in OutputVerdicts(i) /\ Drafted(i)
  <2>1. "SUCCESS" \in Results
    BY DEF Results
  <2>2. ItemFrame(i) /\ at'[i] = "done" /\ UNCHANGED <<context, answer>>
    BY <1>2, <1>6, <2>1, EndsFrame DEF Drafted, TypeInv
  <2>3. Request(i)' = Request(i) /\ settings' = settings /\ InDataset(i, context[i])' = InDataset(i, context[i])
    BY <2>2 DEF ItemFrame, Request, InDataset
  <2>4. settings.pii => ~answer[i].pii
    BY <1>2, <1>6, CleanOutput
  <2>5. ItemInv(i)'
    BY <1>2, <2>2, <2>3, <2>4 DEF ItemInv, SearchPlaces, WritePlaces
  <2>6. QED
    BY <1>2, <2>2, <2>5
<1>7. QED
  BY <1>4, <1>5, <1>6

LEMMA PostingKeeps ==
  ASSUME TypeInv, FaqInv, NEW i \in Items, Posting(i), UNCHANGED settings
  PROVE  ItemFrame(i) /\ (i \in Served => ItemInv(i)') /\ FieldKnown' /\ at' = at
<1>1. LlmTypeOK' /\ at' = at
  BY LlmOfType, Disjoint, PostType DEF Posting, TypeInv
<1>2. SearchFrame(i) /\ WritingFrame(i) /\ UNCHANGED <<searchVars, faqVars>>
  BY SearchUntouched, WritingUntouched DEF Posting, faqVars, TypeInv
<1>3. FaqTypeOK'
  BY <1>2 DEF faqVars, SearchFrame, TypeInv, TypeOK, FaqTypeOK
<1>4. ItemFrame(i)
  BY <1>1, <1>2, <1>3 DEF ItemFrame, faqVars
<1>5. i \in Served => ItemInv(i)'
  BY <1>1, <1>2 DEF searchVars, faqVars, FaqInv, ItemInv, InDataset, Filtered, Request
<1>6. QED
  BY <1>1, <1>2, <1>4, <1>5 DEF searchVars, FaqInv, FieldKnown

(* Every step of an item leaves the other items and the quizzes alone.      *)
LEMMA FaqStepKeeps ==
  ASSUME TypeInv, FaqInv, NEW i \in Items, FaqStep(i)
  PROVE  ItemFrame(i) /\ FaqInv' /\ TypeInv'
<1>1. ItemStep(i) /\ UNCHANGED <<settings, quizVars, suggestion>>
  BY DEF FaqStep
<1>2. ItemFrame(i) /\ (i \in Served => ItemInv(i)') /\ FieldKnown'
  BY <1>1, TakeSlotKeeps, InputRefusedKeeps, InputGivenKeeps, InputSearchedKeeps, OpeningKeeps,
     SearchFoundKeeps, SearchFailedKeeps, ContextCheckedKeeps, AskedKeeps, OutputCheckedKeeps,
     PostingKeeps
     DEF ItemStep
<1>3. at'[i] # "done" => i \in Served
  <2>1. CASE Posting(i)
    BY <1>1, <2>1, PostingKeeps DEF TypeInv
  <2>2. CASE ~Posting(i)
    <3>1. at[i] # "done"
      BY <1>1, <2>2 DEF ItemStep, TakeSlot, InputRefused, InputGiven, InputSearched, Opening, Embeds,
         Opens, Loads, SearchFound, Searched, SearchFailed, SearchLost, ContextChecked, Asked,
         AskedAgain, OutputChecked
    <3>2. QED
      BY <3>1 DEF TypeInv
  <2>3. QED
    BY <2>1, <2>2
<1>4. Served' = Served
  BY <1>2 DEF ItemFrame, Served
<1>5. \A o \in Served \ {i} : ItemInv(o)'
  <2>1. SUFFICES ASSUME NEW o \in Served \ {i} PROVE ItemInv(o)'
    OBVIOUS
  <2>2. o \in Items /\ o \in Clients /\ ItemInv(o)
    BY RequestType, Disjoint DEF TypeInv, FaqInv
  <2>3. /\ at'[o] = at[o] /\ result'[o] = result[o] /\ context'[o] = context[o]
        /\ answer'[o] = answer[o] /\ found'[o] = found[o] /\ filter'[o] = filter[o]
        /\ UNCHANGED <<settings, batch>>
    BY <1>2, <2>1, <2>2 DEF ItemFrame, SearchFrame, WritingFrame
  <2>4. QED
    BY <2>2, <2>3 DEF ItemInv, InDataset, Filtered, Request
<1>6. FaqInv'
  BY <1>2, <1>4, <1>5 DEF FaqInv
<1>7. QuizTypeOK' /\ suggestion' = suggestion /\ left' = left
  BY <1>1 DEF quizVars, TypeInv, TypeOK, QuizTypeOK
<1>8. TypeOK'
  BY <1>2, <1>7, LlmOfType DEF ItemFrame, LlmTypeOK, Places, TypeInv, TypeOK
<1>9. \A o \in Items : at'[o] # "done" => o \in Served
  BY <1>2, <1>3, Disjoint DEF ItemFrame, TypeInv
<1>10. \A q \in Quizzes : at'[q] = at[q]
  BY <1>2, Disjoint DEF ItemFrame
<1>11. QED
  BY <1>2, <1>4, <1>6, <1>7, <1>8, <1>9, <1>10 DEF TypeInv

-----------------------------------------------------------------------------
(* A question on its way. *)

(* The form and the stem of a question; the block it names is the request's *)
(* or none.                                                                 *)
Asking(q, x) ==
  WellFormed(x) /\ Fresh(x, q) /\ x.block \in BlocksOf[q] \cup {NoBlock}

Checked(q, x) ==
  /\ WellFormed(x) /\ Fresh(x, q)
  /\ x.keyed => x.found \cap BlocksOf[q] # {}
  /\ <<q, x>> \in vouched

QuestionInv(q) ==
  /\ \A x \in left[q] : Asking(q, x)
  /\ at[q] = "selfcheck" => SourceOk(First(q), q)
  /\ \A x \in passed[q] \cup delivered[q] : Checked(q, x)

QuizInv == \A q \in Quizzes : QuestionInv(q)

QuizFrame(q) ==
  /\ LlmTypeOK' /\ QuizTypeOK'
  /\ \A o \in Clients \ {q} : at'[o] = at[o]
  /\ \A o \in Quizzes \ {q} :
       left'[o] = left[o] /\ passed'[o] = passed[o] /\ delivered'[o] = delivered[o]
  /\ vouched \subseteq vouched'

LEMMA FirstLeft ==
  ASSUME NEW q, left[q] # {}
  PROVE  First(q) \in left[q]
BY DEF First

(* Naming no block instead of a foreign one changes nothing else. *)
LEMMA AssembledKeeps ==
  ASSUME NEW q \in Quizzes, NEW x \in Made, WellFormed(x), Fresh(x, q)
  PROVE  Asking(q, Assembled(x, q))
<1>1. x \in QuestionKinds(UNION {BlocksOf[p] : p \in Quizzes})
  BY QuizAssumption
<1>2. /\ Assembled(x, q).stem = x.stem /\ Assembled(x, q).options = x.options
      /\ Assembled(x, q).correct = x.correct
      /\ Assembled(x, q).block = IF x.block \in BlocksOf[q] THEN x.block ELSE NoBlock
  BY <1>1 DEF Assembled, QuestionKinds
<1>3. QED
  BY <1>2 DEF Asking, WellFormed, Fresh

(* A quiz that goes to a place, with its tables as they were. *)
LEMMA QuizGoes ==
  ASSUME TypeInv, NEW q \in Quizzes, NEW place \in Places, Goes(q, place)
  PROVE  LlmTypeOK' /\ at'[q] = place /\ \A o \in Clients \ {q} : at'[o] = at[o]
BY LlmOfType, Disjoint, GoesType DEF TypeInv

LEMMA EmptyKeeps ==
  ASSUME TypeInv, QuizInv, NEW q \in Quizzes, Empty(q)
  PROVE  QuizFrame(q) /\ QuestionInv(q)' /\ at'[q] # "selfcheck"
<1>1. LlmTypeOK' /\ at'[q] = "done" /\ \A o \in Clients \ {q} : at'[o] = at[o]
  BY QuizGoes DEF Empty, Places
<1>2. UNCHANGED <<left, passed, delivered, lastQc, vouched>>
  BY DEF Empty, quizVars
<1>3. QED
  BY <1>1, <1>2 DEF QuizFrame, QuizInv, QuestionInv, Checked, TypeInv, TypeOK, QuizTypeOK

LEMMA GenerateKeeps ==
  ASSUME TypeInv, QuizInv, NEW q \in Quizzes, Generate(q)
  PROVE  QuizFrame(q) /\ QuestionInv(q)' /\ at'[q] # "selfcheck"
<1>1. CASE Empty(q)
  BY <1>1, EmptyKeeps
<1>2. ASSUME NEW questions \in SUBSET Made, Generated(q, questions), ~Empty(q)
      PROVE  QuizFrame(q) /\ QuestionInv(q)' /\ at'[q] # "selfcheck"
  <2> DEFINE kept == {Assembled(x, q) : x \in {y \in questions : WellFormed(y) /\ Fresh(y, q)}}
  <2>1. Goes(q, "check") /\ left' = [left EXCEPT ![q] = kept]
        /\ UNCHANGED <<passed, delivered, lastQc, vouched>>
    BY <1>2 DEF Generated
  <2>2. kept \subseteq Assembling /\ \A x \in kept : Asking(q, x)
    BY AssembledKeeps DEF Assembling
  <2> HIDE DEF kept
  <2>3. /\ left' \in [Quizzes -> SUBSET Assembling] /\ left'[q] = kept
        /\ \A o \in Quizzes \ {q} : left'[o] = left[o]
    BY <2>1, <2>2 DEF TypeInv, TypeOK, QuizTypeOK
  <2>4. LlmTypeOK' /\ at'[q] = "check" /\ \A o \in Clients \ {q} : at'[o] = at[o]
    BY <2>1, QuizGoes DEF Places
  <2>5. QuizFrame(q)
    BY <2>1, <2>3, <2>4 DEF QuizFrame, TypeInv, TypeOK, QuizTypeOK
  <2>6. QuestionInv(q)'
    BY <2>1, <2>2, <2>3, <2>4 DEF QuizInv, QuestionInv, Checked, Asking
  <2>7. QED
    BY <2>4, <2>5, <2>6
<1>3. QED
  BY <1>1, <1>2 DEF Generate

LEMMA CheckNextKeeps ==
  ASSUME TypeInv, QuizInv, NEW q \in Quizzes, CheckNext(q)
  PROVE  QuizFrame(q) /\ QuestionInv(q)' /\ (at'[q] = "selfcheck" => left'[q] # {})
<1>1. CASE SourceOk(First(q), q) /\ Goes(q, "selfcheck") /\ UNCHANGED left
  <2>1. LlmTypeOK' /\ at'[q] = "selfcheck" /\ \A o \in Clients \ {q} : at'[o] = at[o]
    BY <1>1, QuizGoes DEF Places
  <2>2. UNCHANGED <<left, passed, delivered, lastQc, vouched>> /\ left[q] # {}
    BY <1>1 DEF CheckNext
  <2>3. First(q)' = First(q)
    BY <2>2 DEF First
  <2>4. QuestionInv(q)'
    BY <1>1, <2>2, <2>3 DEF QuizInv, QuestionInv, Checked, Asking, SourceOk, Sources
  <2>5. QuizFrame(q)
    BY <2>1, <2>2 DEF QuizFrame, TypeInv, TypeOK, QuizTypeOK
  <2>6. QED
    BY <2>2, <2>4, <2>5
<1>2. CASE UNCHANGED llmVars /\ left' = [left EXCEPT ![q] = @ \ {First(q)}]
  <2>1. UNCHANGED <<at, tries, passed, delivered, lastQc, vouched>> /\ at[q] = "check"
    BY <1>2 DEF CheckNext, llmVars
  <2>2. /\ left' \in [Quizzes -> SUBSET Assembling] /\ left'[q] \subseteq left[q]
        /\ \A o \in Quizzes \ {q} : left'[o] = left[o]
    BY <1>2 DEF TypeInv, TypeOK, QuizTypeOK
  <2>3. QuizFrame(q)
    BY <2>1, <2>2, LlmOfType DEF QuizFrame, LlmTypeOK, TypeInv, TypeOK, QuizTypeOK
  <2>4. QuestionInv(q)'
    BY <2>1, <2>2 DEF QuizInv, QuestionInv, Checked, Asking
  <2>5. QED
    BY <2>1, <2>3, <2>4
<1>3. QED
  BY <1>1, <1>2 DEF CheckNext

(* The second look passes what is then vouched for, and nothing else. *)
LEMMA SelfCheckKeeps ==
  ASSUME TypeInv, QuizInv, NEW q \in Quizzes, SelfCheck(q)
  PROVE  QuizFrame(q) /\ QuestionInv(q)' /\ at'[q] # "selfcheck"
<1> DEFINE x == First(q)
<1>1. x \in left[q] /\ x \in Assembling
  BY FirstLeft DEF SelfCheck, TypeInv, TypeOK, QuizTypeOK
<1>2. Asking(q, x) /\ SourceOk(x, q)
  BY <1>1 DEF SelfCheck, QuizInv, QuestionInv
<1>3. x.keyed => x.found \cap BlocksOf[q] # {}
  BY <1>2 DEF Asking, SourceOk, Sources
<1>4. LlmTypeOK' /\ at'[q] = "check" /\ \A o \in Clients \ {q} : at'[o] = at[o]
  BY QuizGoes DEF SelfCheck, Places
<1>5. PICK verdict \in {"pass", "fail", "none"} :
        /\ passed' = IF Passes(verdict) THEN [passed EXCEPT ![q] = @ \cup {x}] ELSE passed
        /\ vouched' = IF verdict = "pass" THEN vouched \cup {<<q, x>>} ELSE vouched
  BY DEF SelfCheck
<1>6. left' = [left EXCEPT ![q] = @ \ {x}] /\ UNCHANGED <<delivered, lastQc>>
  BY DEF SelfCheck
<1> HIDE DEF x
<1>7. /\ left' \in [Quizzes -> SUBSET Assembling] /\ left'[q] \subseteq left[q]
      /\ \A o \in Quizzes \ {q} : left'[o] = left[o]
  BY <1>6 DEF TypeInv, TypeOK, QuizTypeOK
<1>8. /\ passed' \in [Quizzes -> SUBSET Assembling]
      /\ \A o \in Quizzes \ {q} : passed'[o] = passed[o]
      /\ \A y \in passed'[q] : y \in passed[q] \/ (y = x /\ verdict = "pass")
  BY <1>1, <1>5 DEF Passes, TypeInv, TypeOK, QuizTypeOK
<1>9. vouched' \subseteq Quizzes \X Assembling /\ vouched \subseteq vouched'
  BY <1>1, <1>5 DEF TypeInv, TypeOK, QuizTypeOK
<1>10. QuizFrame(q)
  BY <1>4, <1>6, <1>7, <1>8, <1>9 DEF QuizFrame, TypeInv, TypeOK, QuizTypeOK
<1>11. verdict = "pass" => <<q, x>> \in vouched'
  BY <1>5
<1>12. \A y \in passed'[q] \cup delivered'[q] : Checked(q, y)'
  BY <1>2, <1>3, <1>6, <1>8, <1>9, <1>11 DEF QuizInv, QuestionInv, Checked, Asking
<1>13. \A y \in left'[q] : Asking(q, y)
  BY <1>7 DEF QuizInv, QuestionInv
<1>14. QuestionInv(q)'
  BY <1>4, <1>12, <1>13 DEF QuestionInv, Asking
<1>15. QED
  BY <1>4, <1>10, <1>14

LEMMA RespondKeeps ==
  ASSUME TypeInv, QuizInv, NEW q \in Quizzes, Respond(q)
  PROVE  QuizFrame(q) /\ QuestionInv(q)' /\ at'[q] # "selfcheck"
<1>1. LlmTypeOK' /\ at'[q] = "done" /\ \A o \in Clients \ {q} : at'[o] = at[o]
  BY QuizGoes DEF Respond, Places
<1>2. UNCHANGED <<left, passed, vouched>> /\ lastQc' = q
  BY DEF Respond
<1>3. /\ delivered' \in [Quizzes -> SUBSET Assembling] /\ delivered'[q] = passed[q]
      /\ \A o \in Quizzes \ {q} : delivered'[o] = delivered[o]
  BY DEF Respond, TypeInv, TypeOK, QuizTypeOK
<1>4. QuizFrame(q)
  BY <1>1, <1>2, <1>3 DEF QuizFrame, TypeInv, TypeOK, QuizTypeOK
<1>5. QuestionInv(q)'
  BY <1>1, <1>2, <1>3 DEF QuizInv, QuestionInv, Checked, Asking
<1>6. QED
  BY <1>1, <1>4, <1>5

LEMMA QuizPostingKeeps ==
  ASSUME TypeInv, QuizInv, NEW q \in Quizzes, QuizPosting(q)
  PROVE  QuizFrame(q) /\ QuestionInv(q)' /\ (at'[q] = "selfcheck" => left'[q] # {})
<1>1. LlmTypeOK' /\ at' = at
  BY LlmOfType, Disjoint, PostType DEF QuizPosting, TypeInv
<1>2. UNCHANGED <<left, passed, delivered, lastQc, vouched>>
  BY DEF QuizPosting, quizVars
<1>3. First(q)' = First(q)
  BY <1>2 DEF First
<1>4. QuizFrame(q)
  BY <1>1, <1>2 DEF QuizFrame, TypeInv, TypeOK, QuizTypeOK
<1>5. QuestionInv(q)'
  BY <1>1, <1>2, <1>3 DEF QuizInv, QuestionInv, Checked, Asking, SourceOk, Sources
<1>6. QED
  BY <1>1, <1>2, <1>4, <1>5 DEF TypeInv

(* Every step of a quiz leaves the other quizzes and the items alone.       *)
LEMMA QuestionStepKeeps ==
  ASSUME TypeInv, QuizInv, FaqInv, NEW q \in Quizzes, QuestionStep(q)
  PROVE  TypeInv' /\ QuizInv' /\ FaqInv'
<1>1. QuizStep(q) /\ UNCHANGED <<settings, searchVars, faqVars, suggestion>>
  BY DEF QuestionStep
<1>2. QuizFrame(q) /\ QuestionInv(q)' /\ (at'[q] = "selfcheck" => left'[q] # {})
  BY <1>1, GenerateKeeps, CheckNextKeeps, SelfCheckKeeps, RespondKeeps, QuizPostingKeeps
     DEF QuizStep
<1>3. ASSUME NEW o \in Quizzes \ {q}
      PROVE  QuestionInv(o)' /\ (at'[o] = "selfcheck" => left'[o] # {})
  <2>1. /\ left'[o] = left[o] /\ passed'[o] = passed[o] /\ delivered'[o] = delivered[o]
        /\ vouched \subseteq vouched' /\ at'[o] = at[o]
    BY <1>2, Disjoint DEF QuizFrame
  <2>2. First(o)' = First(o)
    BY <2>1 DEF First
  <2>3. QED
    BY <2>1, <2>2 DEF QuizInv, QuestionInv, Checked, Asking, SourceOk, Sources, TypeInv
<1>4. QuizInv'
  BY <1>2, <1>3 DEF QuizInv
<1>5. \A i \in Items : at'[i] = at[i]
  BY <1>2, Disjoint DEF QuizFrame
<1>6. FaqTypeOK' /\ Served' = Served
  BY <1>1 DEF searchVars, faqVars, Served, TypeInv, TypeOK, FaqTypeOK, RetrievalTypeOK
<1>7. TypeInv'
  <2>1. TypeOK'
    <3>1. LlmTypeOK' /\ QuizTypeOK' /\ suggestion \in [Gaps -> {"none", "LLM", "fallback"}]
      BY <1>2, LlmOfType DEF QuizFrame, TypeInv
    <3>2. QED
      BY <1>1, <1>6, <3>1 DEF LlmTypeOK, Places, TypeOK
  <2>2. \A i \in Items : at'[i] # "done" => i \in Served'
    BY <1>5, <1>6 DEF TypeInv
  <2>3. \A o \in Quizzes : at'[o] = "selfcheck" => left'[o] # {}
    BY <1>2, <1>3
  <2>4. QED
    BY <2>1, <2>2, <2>3 DEF TypeInv
<1>8. FaqInv'
  <2>1. \A i \in Served : i \in Items
    BY RequestType DEF TypeInv
  <2>2. ASSUME NEW i \in Served PROVE ItemInv(i)'
    BY <1>1, <1>5, <2>1, <2>2
       DEF FaqInv, ItemInv, InDataset, Filtered, Request, searchVars, faqVars
  <2>3. QED
    BY <1>1, <1>6, <2>2 DEF FaqInv, FieldKnown, searchVars
<1>9. QED
  BY <1>4, <1>7, <1>8

LEMMA GapStepKeeps ==
  ASSUME TypeInv, QuizInv, FaqInv, NEW g \in Gaps, GapStep(g)
  PROVE  TypeInv' /\ QuizInv' /\ FaqInv'
<1>1. UNCHANGED <<settings, searchVars, faqVars, quizVars>>
  BY DEF GapStep
<1>2. LlmTypeOK' /\ \A o \in Clients \ {g} : at'[o] = at[o]
  <2>1. CASE Goes(g, "done")
    BY <2>1, LlmOfType, Disjoint, GoesType DEF Places, TypeInv
  <2>2. CASE PostAgain(g)
    BY <2>2, LlmOfType, Disjoint, PostType DEF TypeInv
  <2>3. QED
    BY <2>1, <2>2 DEF GapStep, Suggest, SuggestPosting
<1>3. suggestion' \in [Gaps -> {"none", "LLM", "fallback"}]
  BY DEF GapStep, Suggest, Suggested, Fallback, SuggestPosting, TypeInv, TypeOK
<1>4. \A i \in Items : at'[i] = at[i]
  BY <1>2, Disjoint
<1>5. \A q \in Quizzes : at'[q] = at[q] /\ left'[q] = left[q]
  BY <1>1, <1>2, Disjoint DEF quizVars
<1>6. FaqTypeOK' /\ QuizTypeOK' /\ Served' = Served
  BY <1>1 DEF searchVars, faqVars, quizVars, Served, TypeInv, TypeOK, FaqTypeOK, RetrievalTypeOK,
     QuizTypeOK
<1>7. TypeOK'
  BY <1>2, <1>3, <1>6 DEF LlmTypeOK, Places, TypeOK
<1>8. TypeInv'
  BY <1>4, <1>5, <1>6, <1>7 DEF TypeInv
<1>9. QuizInv'
  <2>1. ASSUME NEW q \in Quizzes PROVE QuestionInv(q)'
    <3>1. First(q)' = First(q)
      BY <1>1 DEF First, quizVars
    <3>2. QED
      BY <1>1, <1>5, <2>1, <3>1
         DEF QuizInv, QuestionInv, Checked, Asking, SourceOk, Sources, quizVars
  <2>2. QED
    BY <2>1 DEF QuizInv
<1>10. FaqInv'
  <2>1. \A i \in Served : i \in Items
    BY RequestType DEF TypeInv
  <2>2. ASSUME NEW i \in Served PROVE ItemInv(i)'
    BY <1>1, <1>4, <2>1, <2>2
       DEF FaqInv, ItemInv, InDataset, Filtered, Request, searchVars, faqVars
  <2>3. QED
    BY <1>1, <1>6, <2>2 DEF FaqInv, FieldKnown, searchVars
<1>11. QED
  BY <1>8, <1>9, <1>10

(* The answer to a batch, and a step of nobody. *)
LEMMA RestKeeps ==
  ASSUME TypeInv, QuizInv, FaqInv, BatchStep \/ UNCHANGED draftVars
  PROVE  TypeInv' /\ QuizInv' /\ FaqInv'
<1>1. /\ UNCHANGED <<at, tries, settings, searchVars, quizVars, suggestion>>
      /\ UNCHANGED <<batch, context, answer, result>>
      /\ outcome' \in {"running", "answered"}
  BY DEF BatchStep, BatchReturns, draftVars, llmVars, faqVars, TypeInv, TypeOK, FaqTypeOK
<1>2. Served' = Served /\ FaqTypeOK' /\ QuizTypeOK'
  BY <1>1 DEF Served, searchVars, quizVars, TypeInv, TypeOK, FaqTypeOK, RetrievalTypeOK, QuizTypeOK
<1>3. TypeOK'
  BY <1>1, <1>2 DEF TypeInv, TypeOK
<1>4. TypeInv'
  BY <1>1, <1>2, <1>3 DEF TypeInv, quizVars
<1>5. QuizInv'
  <2>1. ASSUME NEW q \in Quizzes PROVE QuestionInv(q)'
    <3>1. First(q)' = First(q)
      BY <1>1 DEF First, quizVars
    <3>2. QED
      BY <1>1, <2>1, <3>1
         DEF QuizInv, QuestionInv, Checked, Asking, SourceOk, Sources, quizVars
  <2>2. QED
    BY <2>1 DEF QuizInv
<1>6. FaqInv'
  <2>1. ASSUME NEW i \in Served PROVE ItemInv(i)'
    BY <1>1, <2>1 DEF FaqInv, ItemInv, InDataset, Filtered, Request, searchVars
  <2>2. QED
    BY <1>1, <1>2, <2>1 DEF FaqInv, FieldKnown, searchVars
<1>7. QED
  BY <1>4, <1>5, <1>6

-----------------------------------------------------------------------------
(* Theorems. *)

DraftInv == TypeInv /\ QuizInv /\ FaqInv

LEMMA InitInv == Init => DraftInv
<1> SUFFICES ASSUME Init PROVE DraftInv
  OBVIOUS
<1>1. PICK w \in Workloads :
        /\ w.batch = batch
        /\ at = [c \in Clients |->
                   IF c \in Served THEN "waiting"
                   ELSE IF c \in w.quizzes THEN "llm"
                   ELSE IF c \in w.gaps THEN "suggest" ELSE "done"]
  BY DEF Init
<1>2. at \in [Clients -> {"waiting", "llm", "suggest", "done"}]
  BY <1>1
<1>3. LlmTypeOK
  <2>1. 0 \in 0..LlmRetries
    BY LlmAssumption
  <2>2. QED
    BY <1>2, <2>1 DEF Init, LlmTypeOK, Places
<1>4. w.quizzes \subseteq Quizzes /\ w.gaps \subseteq Gaps /\ batch \in Batches
  BY <1>1, DraftsAssumption
<1>5. Served \subseteq Items
  BY <1>4, FaqAssumption DEF Served
<1>6. \A i \in Items : at[i] # "done" => i \in Served
  BY <1>1, <1>4, Disjoint
<1>7. NoAnswer \in Answers
  BY DEF NoAnswer, Answers
<1>8. FaqTypeOK
  <2>1. RetrievalTypeOK
    BY DEF Init, FaqInit, RetrievalInit, RetrievalTypeOK
  <2>2. QED
    BY <1>7, <2>1 DEF Init, FaqInit, FaqTypeOK, Results
<1>9. QuizTypeOK
  BY DEF Init, QuizInit, QuizTypeOK
<1>10. TypeOK
  BY <1>3, <1>8, <1>9 DEF Init, LlmTypeOK, Places, TypeOK
<1>11. TypeInv
  BY <1>2, <1>6, <1>10, Disjoint DEF TypeInv
<1>12. QuizInv
  BY <1>2, Disjoint DEF Init, QuizInit, QuizInv, QuestionInv
<1>13. FaqInv
  <2>1. \A i \in Served : result[i] = "none" /\ at[i] = "waiting"
    BY <1>1, <1>5, Disjoint DEF Init, FaqInit
  <2>2. FieldKnown
    BY DEF Init, FaqInit, RetrievalInit, FieldKnown
  <2>3. QED
    BY <2>1, <2>2 DEF FaqInv, ItemInv, SearchPlaces, WritePlaces
<1>14. QED
  BY <1>11, <1>12, <1>13 DEF DraftInv

LEMMA StepInv == DraftInv /\ [Next]_draftVars => DraftInv'
<1> SUFFICES ASSUME DraftInv, [Next]_draftVars PROVE DraftInv'
  OBVIOUS
<1> USE DEF DraftInv
<1>1. ASSUME NEW i \in Items, FaqStep(i) PROVE DraftInv'
  <2>1. TypeInv' /\ FaqInv' /\ ItemFrame(i)
    BY <1>1, FaqStepKeeps
  <2>2. UNCHANGED quizVars /\ \A q \in Quizzes : at'[q] = at[q]
    BY <1>1, <2>1, Disjoint DEF FaqStep, ItemFrame
  <2>3. ASSUME NEW q \in Quizzes PROVE QuestionInv(q)'
    <3>1. First(q)' = First(q)
      BY <2>2 DEF First, quizVars
    <3>2. QED
      BY <2>2, <2>3, <3>1
         DEF QuizInv, QuestionInv, Checked, Asking, SourceOk, Sources, quizVars
  <2>4. QED
    BY <2>1, <2>3 DEF QuizInv
<1>2. CASE \E q \in Quizzes : QuestionStep(q)
  BY <1>2, QuestionStepKeeps
<1>3. CASE \E g \in Gaps : GapStep(g)
  BY <1>3, GapStepKeeps
<1>4. CASE BatchStep \/ UNCHANGED draftVars
  BY <1>4, RestKeeps
<1>5. QED
  BY <1>1, <1>2, <1>3, <1>4 DEF Next

LEMMA DraftsCorrect == Spec => []DraftInv
BY InitInv, StepInv, PTL DEF Spec

(* Places, tables and results keep their types, and only what is served     *)
(* moves.                                                                   *)
THEOREM TypeCorrect == Spec => []TypeOK
<1>1. DraftInv => TypeOK
  BY DEF DraftInv, TypeInv
<1>2. QED
  BY <1>1, DraftsCorrect, PTL

(* Where the service for personal data is in use, no draft is delivered     *)
(* past one of the three checks (generate_faq_draft).                       *)
THEOREM PiiSafe == Spec => []PiiStopsDraft
<1>1. DraftInv => PiiStopsDraft
  BY DEF DraftInv, FaqInv, ItemInv, PiiStopsDraft
<1>2. QED
  BY <1>1, DraftsCorrect, PTL

(* A draft rests on documents, and on those of its domain's datasets when   *)
(* it searched for them, whatever the searches beside it learn meanwhile    *)
(* (search_as_sources).                                                     *)
THEOREM DatasetSafe == Spec => []DraftStaysInDataset
<1>1. DraftInv => DraftStaysInDataset
  BY DEF DraftInv, FaqInv, ItemInv, InDataset, DraftStaysInDataset
<1>2. QED
  BY <1>1, DraftsCorrect, PTL

(* Each delivered question passed every check, the LLM's second look in the *)
(* same quiz included (generate_quiz, validate_quiz_set).                   *)
THEOREM CheckedSafe == Spec => []DeliveredIsChecked
<1>1. DraftInv => DeliveredIsChecked
  BY DEF DraftInv, QuizInv, QuestionInv, Checked, DeliveredIsChecked
<1>2. QED
  BY <1>1, DraftsCorrect, PTL
=============================================================================
