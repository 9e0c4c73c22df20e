------------------------------ MODULE RagIngest ------------------------------
(***************************************************************************)
(* Ingestion of policy documents: the backend posts a document, a          *)
(* background call hands it to RAGFlow, RAGFlow calls back, and the        *)
(* backend is told the outcome with the text found in Milvus.  An          *)
(* in-memory cache with two TTLs and a size limit refuses repeated posts.  *)
(*                                                                         *)
(* RAGFlow, Milvus and the backend's row are external.  Time is the age of *)
(* the cache entries; a tick is longer than any HTTP timeout and no longer *)
(* than the shorter TTL.                                                   *)
(***************************************************************************)
EXTENDS Naturals, FiniteSets, FiniteSetsExt

CONSTANTS
  Docs,      \* document ids
  Versions,  \* versions of a document, positive numbers
  Slots,     \* bounds the ingests alive at once, in RAGFlow or here
  PTTL,      \* ticks a PROCESSING entry lives (300 s)
  CTTL,      \* ticks a COMPLETED or FAILED entry lives (24 h)
  MaxSize,   \* entries the cache is cut to (10000)
  FaultSets  \* the combinations of faults the environment chooses from

FaultKinds ==
  {"reject",        \* RAGFlow refuses or cannot be reached
   "lostReply",     \* RAGFlow accepts, the reply does not arrive in time
   "fail",          \* the ingest fails in RAGFlow
   "slow",          \* RAGFlow takes longer than PTTL
   "lostCallback",  \* the callback never arrives
   "milvus",        \* the text cannot be read
   "patch",         \* the backend does not get the PATCH
   "crowd",         \* more documents are posted than the cache holds
   "restart"}       \* the gateway restarts

ASSUME ConstantsAssumption ==
  /\ Docs # {} /\ Versions # {} /\ Versions \subseteq Nat \ {0}
  /\ PTTL \in Nat \ {0} /\ CTTL \in Nat /\ PTTL <= CTTL
  /\ MaxSize \in Nat \ {0}
  /\ FaultSets \subseteq SUBSET FaultKinds

Keys == Docs \X Versions

VARIABLES
  entry,     \* _ingest_cache: status per (documentId, version), "NONE" without
  age,       \* ticks since the entry's timestamp
  key,       \* the document a slot ingests
  call,      \* call_ragflow: "idle", "sent", or "accepted" while the reply is due
  work,      \* RAGFlow: "none", "working", "reported" while the callback is due
  outcome,   \* what RAGFlow reported
  handler,   \* ingest_callback: "none", "reading" Milvus or "patching"
  text,      \* version of the text the handler read, 0 without
  indexed,   \* version of a document whose chunks are in Milvus, 0 without
  backend,   \* status of the document in the backend
  content,   \* version of the text the backend received, 0 without
  faults     \* what may go wrong in this behaviour, fixed from the start

cacheVars   == <<entry, age>>
slotVars    == <<key, call, work, outcome, handler, text>>
outsideVars == <<indexed, backend, content, faults>>
vars        == <<cacheVars, slotVars, outsideVars>>

Outcomes == {"COMPLETED", "FAILED"}
Statuses == {"NONE", "PROCESSING"} \cup Outcomes

TypeOK ==
  /\ entry \in [Keys -> Statuses]
  /\ age \in [Keys -> 0..(CTTL + 1)]
  /\ key \in [Slots -> Keys]
  /\ call \in [Slots -> {"idle", "sent", "accepted"}]
  /\ work \in [Slots -> {"none", "working", "reported"}]
  /\ outcome \in [Slots -> Outcomes]
  /\ handler \in [Slots -> {"none", "reading", "patching"}]
  /\ text \in [Slots -> Versions \cup {0}]
  /\ indexed \in [Docs -> Versions \cup {0}]
  /\ backend \in [Keys -> {"PROCESSING"} \cup Outcomes]
  /\ content \in [Keys -> Versions \cup {0}]
  /\ faults \in FaultSets

Init ==
  /\ entry = [k \in Keys |-> "NONE"]
  /\ age = [k \in Keys |-> 0]
  /\ key = [c \in Slots |-> CHOOSE k \in Keys : TRUE]
  /\ call = [c \in Slots |-> "idle"]
  /\ work = [c \in Slots |-> "none"]
  /\ outcome = [c \in Slots |-> "FAILED"]
  /\ handler = [c \in Slots |-> "none"]
  /\ text = [c \in Slots |-> 0]
  /\ indexed = [d \in Docs |-> 0]
  /\ backend = [k \in Keys |-> "PROCESSING"]
  /\ content = [k \in Keys |-> 0]
  /\ faults \in FaultSets

Busy(c) == call[c] # "idle" \/ work[c] # "none" \/ handler[c] # "none"

-----------------------------------------------------------------------------
(* The cache. *)

TTL(status) == IF status = "PROCESSING" THEN PTTL ELSE CTTL

Fresh(k) == entry[k] # "NONE" /\ age[k] <= TTL(entry[k])

Cleaned == [k \in Keys |-> IF Fresh(k) THEN entry[k] ELSE "NONE"]

(* The entries beyond the limit once k is marked. *)
Excess(k) ==
  Max({0, Cardinality({e \in Keys \ {k} : Cleaned[e] # "NONE"}) + 1 - MaxSize})

(* The oldest entries make room. *)
Evicted(k) ==
  LET others == {e \in Keys \ {k} : Cleaned[e] # "NONE"}
      excess == Excess(k)
  IN {old \in SUBSET others :
        /\ Cardinality(old) = excess
        /\ \A e \in old, f \in others \ old : age[e] >= age[f]}

(* _get_cached_status has cleaned up; the request is marked, the cache cut. *)
MarkProcessing(k) ==
  /\ \E old \in Evicted(k) :
       entry' = [e \in Keys |->
                   CASE e = k -> "PROCESSING"
                     [] e \in old -> "NONE"
                     [] OTHER -> Cleaned[e]]
  /\ age' = [e \in Keys |-> IF e = k \/ entry'[e] = "NONE" THEN 0 ELSE age[e]]

(* _mark_request_completed: no clean-up, no limit. *)
MarkCompleted(k, status) ==
  /\ entry' = [entry EXCEPT ![k] = status]
  /\ age' = [age EXCEPT ![k] = 0]

ClearCache(k) ==
  /\ entry' = [entry EXCEPT ![k] = "NONE"]
  /\ age' = [age EXCEPT ![k] = 0]

-----------------------------------------------------------------------------
(* POST /rag-documents/ingest and the background call. *)

(* Variant: the cache is not consulted. *)
Post_Unchecked(k, c) ==
  /\ "crowd" \in faults \/ Excess(k) = 0
  /\ ~Busy(c)
  /\ MarkProcessing(k)
  /\ key' = [key EXCEPT ![c] = k]
  /\ call' = [call EXCEPT ![c] = "sent"]
  /\ UNCHANGED <<work, outcome, handler, text, outsideVars>>

Post(k, c) ==
  /\ ~Fresh(k)
  /\ "crowd" \in faults \/ Excess(k) = 0
  /\ ~Busy(c)
  /\ MarkProcessing(k)
  /\ key' = [key EXCEPT ![c] = k]
  /\ call' = [call EXCEPT ![c] = "sent"]
  /\ UNCHANGED <<work, outcome, handler, text, outsideVars>>

(* Variant: a hit renews the entry, as in a real LRU. *)
PostAgain_Renews(k) ==
  /\ Fresh(k)
  /\ entry' = Cleaned
  /\ age' = [age EXCEPT ![k] = 0]
  /\ UNCHANGED <<slotVars, outsideVars>>

(* A repeated post is answered from the cache; expired entries go. *)
PostAgain(k) ==
  /\ Fresh(k)
  /\ entry' = Cleaned
  /\ age' = [e \in Keys |-> IF entry'[e] = "NONE" THEN 0 ELSE age[e]]
  /\ UNCHANGED <<slotVars, outsideVars>>

Accept(c) ==
  /\ call[c] = "sent"
  /\ call' = [call EXCEPT ![c] = "accepted"]
  /\ work' = [work EXCEPT ![c] = "working"]
  /\ UNCHANGED <<cacheVars, key, outcome, handler, text, outsideVars>>

Reply(c) ==
  /\ call[c] = "accepted"
  /\ call' = [call EXCEPT ![c] = "idle"]
  /\ UNCHANGED <<cacheVars, key, work, outcome, handler, text, outsideVars>>

(* Variant: the error is logged and the entry kept. *)
CallFails_Kept(c) ==
  /\ \/ call[c] = "sent" /\ "reject" \in faults
     \/ call[c] = "accepted" /\ "lostReply" \in faults
  /\ call' = [call EXCEPT ![c] = "idle"]
  /\ UNCHANGED <<cacheVars, key, work, outcome, handler, text, outsideVars>>

(* Any error of the call, a timeout after RAGFlow accepted included, clears *)
(* the entry whatever it says by now.                                       *)
CallFails(c) ==
  /\ \/ call[c] = "sent" /\ "reject" \in faults
     \/ call[c] = "accepted" /\ "lostReply" \in faults
  /\ call' = [call EXCEPT ![c] = "idle"]
  /\ ClearCache(key[c])
  /\ UNCHANGED <<key, work, outcome, handler, text, outsideVars>>

-----------------------------------------------------------------------------
(* RAGFlow: replace = TRUE, the new chunks take the place of the document's. *)

Index(c) ==
  /\ work[c] = "working"
  /\ work' = [work EXCEPT ![c] = "reported"]
  /\ \/ /\ outcome' = [outcome EXCEPT ![c] = "COMPLETED"]
        /\ indexed' = [indexed EXCEPT ![key[c][1]] = key[c][2]]
     \/ /\ "fail" \in faults
        /\ outcome' = [outcome EXCEPT ![c] = "FAILED"]
        /\ UNCHANGED indexed
  /\ UNCHANGED <<cacheVars, key, call, handler, text, backend, content, faults>>

CallbackLost(c) ==
  /\ "lostCallback" \in faults
  /\ work[c] = "reported"
  /\ work' = [work EXCEPT ![c] = "none"]
  /\ UNCHANGED <<cacheVars, key, call, outcome, handler, text, outsideVars>>

-----------------------------------------------------------------------------
(* POST /callbacks/ragflow/ingest. *)

Callback(c) ==
  /\ work[c] = "reported"
  /\ work' = [work EXCEPT ![c] = "none"]
  /\ MarkCompleted(key[c], outcome[c])
  /\ handler' = [handler EXCEPT ![c] =
                   IF outcome[c] = "COMPLETED" THEN "reading" ELSE "patching"]
  /\ text' = [text EXCEPT ![c] = 0]
  /\ UNCHANGED <<key, call, outcome, outsideVars>>

(* Variant: the error of Milvus leaves the handler before the PATCH. *)
ReadText_Raises(c) ==
  /\ handler[c] = "reading"
  /\ \/ /\ handler' = [handler EXCEPT ![c] = "patching"]
        /\ text' = [text EXCEPT ![c] = indexed[key[c][1]]]
     \/ /\ "milvus" \in faults
        /\ handler' = [handler EXCEPT ![c] = "none"]
        /\ UNCHANGED text
  /\ UNCHANGED <<cacheVars, key, call, work, outcome, outsideVars>>

(* get_full_document_text asks for the document, not for its version; an    *)
(* error leaves the callback without a text and is no reason to stop.       *)
ReadText(c) ==
  /\ handler[c] = "reading"
  /\ handler' = [handler EXCEPT ![c] = "patching"]
  /\ \/ text' = [text EXCEPT ![c] = indexed[key[c][1]]]
     \/ "milvus" \in faults /\ UNCHANGED text
  /\ UNCHANGED <<cacheVars, key, call, work, outcome, outsideVars>>

(* update_rag_document_status; an error is logged, RAGFlow gets its 200. *)
Patch(c) ==
  /\ handler[c] = "patching"
  /\ handler' = [handler EXCEPT ![c] = "none"]
  /\ \/ /\ backend' = [backend EXCEPT ![key[c]] = outcome[c]]
        /\ content' = [content EXCEPT ![key[c]] = IF text[c] # 0 THEN text[c] ELSE @]
     \/ "patch" \in faults /\ UNCHANGED <<backend, content>>
  /\ text' = [text EXCEPT ![c] = 0]
  /\ UNCHANGED <<cacheVars, key, call, work, outcome, indexed, faults>>

-----------------------------------------------------------------------------
(* Time passes when no call and no handler waits for an answer.  Without    *)
(* "slow", RAGFlow reports before the entry expires.                        *)
Tick ==
  /\ \A c \in Slots : call[c] = "idle" /\ handler[c] = "none"
  /\ "slow" \in faults \/ \A c \in Slots : work[c] # "none" => age[key[c]] < PTTL
  /\ age' = [k \in Keys |-> IF entry[k] # "NONE" /\ age[k] <= CTTL
                            THEN age[k] + 1 ELSE age[k]]
  /\ UNCHANGED <<entry, slotVars, outsideVars>>

(* The gateway forgets its cache, calls and handlers; RAGFlow goes on. *)
Restart ==
  /\ "restart" \in faults
  /\ entry' = [k \in Keys |-> "NONE"]
  /\ age' = [k \in Keys |-> 0]
  /\ call' = [c \in Slots |-> "idle"]
  /\ handler' = [c \in Slots |-> "none"]
  /\ UNCHANGED <<key, work, outcome, text, outsideVars>>

Next ==
  \/ \E k \in Keys : PostAgain(k) \/ \E c \in Slots : Post(k, c)
  \/ \E c \in Slots :
       \/ Accept(c)
       \/ Reply(c)
       \/ CallFails(c)
       \/ Index(c)
       \/ CallbackLost(c)
       \/ Callback(c)
       \/ ReadText(c)
       \/ Patch(c)
  \/ Tick
  \/ Restart

Spec == Init /\ [][Next]_vars

-----------------------------------------------------------------------------
(* Properties. *)

Ingesting(c) == call[c] # "idle" \/ work[c] # "none"

(* RAGFlow reports in time, its replies and callbacks arrive, the gateway   *)
(* goes on and the cache is large enough.                                   *)
Prompt == faults \subseteq {"reject", "fail", "milvus", "patch"}

(* The same version of a document is never ingested twice at the same time: *)
(* the idempotency check of the POST handler.                               *)
SingleIngest ==
  Prompt =>
    \A b, c \in Slots : Ingesting(b) /\ Ingesting(c) /\ key[b] = key[c] => b = c

(* A PROCESSING entry has somebody who will settle it: nothing that fails   *)
(* before the callback leaves the document blocked behind the cache.        *)
ProcessingHasOwner ==
  Prompt =>
    \A k \in Keys : entry[k] = "PROCESSING" => \E c \in Slots : Ingesting(c) /\ key[c] = k

(* Whatever else goes wrong, a failing Milvus in between included, if       *)
(* PATCHes arrive the cache never answers an outcome that the backend was   *)
(* not told and nobody is telling it.                                       *)
OutcomeOnItsWay ==
  "patch" \notin faults =>
    \A k \in Keys : entry[k] \in Outcomes =>
      \/ backend[k] \in Outcomes
      \/ \E c \in Slots : handler[c] # "none" /\ key[c] = k

(* An outcome is remembered for CTTL, which is what keeps a document that   *)
(* was ingested from being ingested again (rag_documents.py:67).  A reply   *)
(* that is late breaks it: the error path erases the outcome.               *)
OutcomeRemembered ==
  [][\A k \in Keys : entry[k] \in Outcomes /\ age[k] <= CTTL => entry'[k] # "NONE"]_vars

(* Fairness: RAGFlow answers and reports, handlers run, time passes.        *)
Fairness ==
  /\ \A c \in Slots :
       /\ WF_vars(Accept(c) \/ Reply(c) \/ CallFails(c))
       /\ WF_vars(Index(c))
       /\ WF_vars(Callback(c) \/ CallbackLost(c))
       /\ WF_vars(ReadText(c))
       /\ WF_vars(Patch(c))
  /\ SF_vars(Tick)

FairSpec == Spec /\ Fairness

(* A document is never blocked by an ingest whose callback was lost: it can *)
(* be posted again once the entry expires, however often it was posted      *)
(* meanwhile.                                                               *)
ProcessingExpires ==
  \A k \in Keys : (entry[k] = "PROCESSING" /\ Fresh(k))
                    ~> ~(entry[k] = "PROCESSING" /\ Fresh(k))

=============================================================================
