----------------------------- MODULE Retrieval -----------------------------
(***************************************************************************)
(* RagHandler and MilvusSearchClient: a search embeds the query over HTTP, *)
(* then opens the collection, once for all, and searches it in a thread.   *)
(* The dataset filter of a search is decided before its first await, from  *)
(* what an earlier search may have learnt of the collection's fields.      *)
(***************************************************************************)
EXTENDS Llm

CONSTANTS
  Searchers,  \* requests that may search
  Domains,    \* domains of requests
  Docs,       \* documents of the collection: dataset, and whether with PII
  DatasetsOf  \* the datasets of a domain; none when it is not mapped

DocKinds == [dataset : STRING, pii : BOOLEAN]

ASSUME RetrievalAssumption ==
  /\ Searchers \subseteq Clients
  /\ DatasetsOf \in [Domains -> SUBSET {d.dataset : d \in Docs}]

VARIABLES
  settings,    \* the configuration, see FaqDraft; never changes
  collection,  \* self._collection: none, made but not loaded, loaded
  field,       \* self._has_dataset_id_field: unknown, yes, no
  filter,      \* the datasets a search is limited to; none when it is not
  found,       \* what a search gave its caller
  lost         \* history: searches that failed

searchVars == <<collection, field, filter, found, lost>>

RetrievalTypeOK ==
  /\ collection \in {"none", "made", "loaded"}
  /\ field \in {"unknown", "yes", "no"}
  /\ filter \in [Searchers -> SUBSET {d.dataset : d \in Docs}]
  /\ found \in [Searchers -> SUBSET Docs]
  /\ lost \subseteq Searchers

RetrievalInit ==
  /\ collection = "none"
  /\ field = "unknown"
  /\ filter = [s \in Searchers |-> {}]
  /\ found = [s \in Searchers |-> {}]
  /\ lost = {}

(* get_dataset_filter_expr: POLICY, and EDUCATION when it is configured. *)
FilterExpr(domain) == DatasetsOf[domain]

(* Variant: filters only what is known to have the field. *)
FilterFor_Known(domain) ==
  IF settings.filter /\ field = "yes" THEN FilterExpr(domain) ELSE {}

FilterFor(domain) ==
  IF settings.filter /\ field # "no" THEN FilterExpr(domain) ELSE {}

Within(datasets) ==
  {d \in Docs : datasets = {} \/ d.dataset \in datasets}

(* search_as_sources up to the await of the embedding. *)
SearchStarts(s, domain) ==
  /\ filter' = [filter EXCEPT ![s] = FilterFor(domain)]
  /\ UNCHANGED <<collection, field, found, lost>>

(* The embedding server answers; the search goes on in a thread. *)
Embeds(s) ==
  /\ at[s] = "embed"
  /\ Goes(s, "open")
  /\ UNCHANGED searchVars

(* _get_collection_sync: what is set is used, loaded or not. *)
Opens(s) ==
  /\ at[s] = "open"
  /\ IF collection = "none"
       THEN collection' = "made" /\ Goes(s, "load")
       ELSE UNCHANGED collection /\ Goes(s, "search")
  /\ UNCHANGED <<field, filter, found, lost>>

(* The collection is loaded and its fields are read. *)
Loads(s) ==
  /\ at[s] = "load"
  /\ collection' = "loaded"
  /\ field' = IF settings.field THEN "yes" ELSE "no"
  /\ Goes(s, "search")
  /\ UNCHANGED <<filter, found, lost>>

(* apply_low_relevance_gate: too far, or without the words of the question, *)
(* the documents are dropped but for the first.                             *)
Gated(docs) == {docs} \cup {{d} : d \in docs}

(* What Milvus may find for a search: the nearest within its filter. *)
Near(s) == SUBSET Within(filter[s])

(* The search ends with documents, or without: that is no failure. *)
Searched(s, docs) ==
  /\ at[s] = "search"
  /\ \E near \in Near(s) : docs \in Gated(near)
  /\ found' = [found EXCEPT ![s] = docs]
  /\ UNCHANGED <<collection, field, filter, lost>>

(* The embedding server, Milvus, the collection or its load failed: the     *)
(* client logs it and has found nothing.                                    *)
SearchLost(s) ==
  /\ at[s] \in {"embed", "open", "load", "search"}
  /\ found' = [found EXCEPT ![s] = {}]
  /\ lost' = lost \cup {s}
  /\ UNCHANGED <<collection, field, filter>>
=============================================================================
