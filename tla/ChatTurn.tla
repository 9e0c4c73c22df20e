------------------------------ MODULE ChatTurn ------------------------------
(***************************************************************************)
(* ChatService.handle_chat: a message goes through the forbidden-query     *)
(* filter, PII masking, the router, retrieval or the backend, the LLM and  *)
(* the masking of its answer.  Messages are handled concurrently; they     *)
(* share the router's store.                                               *)
(*                                                                         *)
(* What a text says is left open: every verdict of the filters, of the     *)
(* router's rules and of the keyword resolver is possible.                 *)
(***************************************************************************)
EXTENDS Router

CONSTANT Traced  \* bounds the messages that are followed beyond the router;
                 \* the others matter for what they do to its store

ASSUME TracedAssumption == Traced \subseteq Messages

VARIABLES
  blocked,   \* what the forbidden-query filter forbade: "rag", "backend"
  used,      \* services called with the message: "backend", "llm"
  masked,    \* texts that went through the PII service: "input", "output"
  reply,     \* the kind of answer
  reported   \* the CHAT_TURN event was emitted

turnVars == <<blocked, used, masked, reply, reported>>
vars     == <<at, routerVars, mode, turnVars>>

Places ==
  {"new", "masking", "routing", "llmRouter", "settling", "facts", "drafting",
   "fetching", "llm", "maskOut", "logging", "reporting", "answered", "raised"}

Replies ==
  {"none",
   "canned",     \* a fixed text
   "question",   \* the router's clarification or confirmation
   "prompt",     \* a question that handle_chat asks by itself
   "generated",  \* the LLM's text
   "fallback"}   \* an apology

TypeOK ==
  /\ RouterTypeOK
  /\ at \in [Messages -> Places]
  /\ blocked \in [Messages -> SUBSET {"rag", "backend"}]
  /\ used \in [Messages -> SUBSET {"backend", "llm"}]
  /\ masked \in [Messages -> SUBSET {"input", "output"}]
  /\ reply \in [Messages -> Replies]
  /\ reported \in [Messages -> BOOLEAN]

Init ==
  /\ RouterInit
  /\ at = [m \in Messages |-> "new"]
  /\ blocked = [m \in Messages |-> {}]
  /\ used = [m \in Messages |-> {}]
  /\ masked = [m \in Messages |-> {}]
  /\ reply = [m \in Messages |-> "none"]
  /\ reported = [m \in Messages |-> FALSE]

Goto(m, place)  == at' = [at EXCEPT ![m] = place]
Draft(m, kind)  == reply' = [reply EXCEPT ![m] = kind]
Mask(m, text)   == masked' = [masked EXCEPT ![m] = @ \cup {text}]
Call(m, served) == used' = [used EXCEPT ![m] = @ \cup {served}]
Report(m)       == reported' = [reported EXCEPT ![m] = TRUE]

(* handle_chat returns; most of its early returns emit no CHAT_TURN. *)
Answer(m, kind) == Goto(m, "answered") /\ Draft(m, kind)

-----------------------------------------------------------------------------
(* Before the router. *)

(* A request without messages is answered at once; so is a query that may  *)
(* neither be searched nor asked of the backend.                           *)
Receive(m) ==
  /\ at[m] = "new"
  /\ \/ m \in Traced /\ Answer(m, "fallback") /\ UNCHANGED <<blocked, reported>>
     \/ \E verdict \in SUBSET {"rag", "backend"} :
          /\ m \in Traced \/ verdict = {}
          /\ blocked' = [blocked EXCEPT ![m] = verdict]
          /\ \/ verdict = {"rag", "backend"} /\ Answer(m, "canned") /\ Report(m)
             \/ /\ verdict # {"rag", "backend"} /\ Goto(m, "masking")
                /\ UNCHANGED <<reply, reported>>
  /\ UNCHANGED <<routerVars, mode, used, masked>>

(* A complaint is answered at once by a fixed apology. *)
ComplaintFastPath(m) == Answer(m, "canned")

(* The INPUT stage, and the fast path for complaints behind it. *)
MaskInput(m) ==
  /\ at[m] = "masking"
  /\ \/ /\ Mask(m, "input")
        /\ \/ ComplaintFastPath(m)
           \/ /\ Goto(m, IF mode = "off" THEN "settling" ELSE "routing")
              /\ UNCHANGED reply
        /\ UNCHANGED reported
     \/ Answer(m, "fallback") /\ Report(m) /\ UNCHANGED masked
  /\ UNCHANGED <<routerVars, mode, blocked, used>>

RouteMessage(m) == Route(m) /\ UNCHANGED turnVars
RouterAnswers(m) == LlmRouted(m) /\ UNCHANGED turnVars

-----------------------------------------------------------------------------
(* After the router. *)

(* What the router decided ends the turn: a question, help, not understood. *)
Decided(m) ==
  /\ at[m] = "settling" /\ m \in Traced /\ ~Ignored(routed[m].result)
  /\ \/ routed[m].asked /\ Answer(m, "question")
     \/ /\ ~routed[m].asked /\ routed[m].result.route \in {"HELP", "NONE"}
        /\ Answer(m, "canned")
  /\ UNCHANGED <<routerVars, mode, blocked, used, masked, reported>>

(* IntentService.classify: by intent, domain and role. *)
IntentRoutes == {"RAG_INTERNAL", "MIXED_BACKEND_RAG", "BACKEND_API", "LLM_ONLY"}

(* The message is handled by a route: the router's, or IntentService's     *)
(* where there is no result or handle_chat disregards it.                  *)
Takes(m, route) ==
  /\ at[m] = "settling" /\ m \in Traced
  /\ \/ Ignored(routed[m].result) /\ route \in IntentRoutes
     \/ ~routed[m].asked /\ routed[m].result.route = route

(* Without a base URL the client answers by itself; errors are answers too. *)
AskBackend(m) == Call(m, "backend") \/ UNCHANGED used

(* fetch_for_mixed: a role, domain and intent without data ask for none. *)
FetchForMixed(m) ==
  \/ UNCHANGED used
  \/ "backend" \notin blocked[m] /\ AskBackend(m)

(* A search is called with an argument it does not have (model=) and       *)
(* raises; beside it, MIXED_BACKEND_RAG has started to ask the backend.    *)
SearchRaises(m) ==
  /\ \/ Takes(m, "RAG_INTERNAL") /\ UNCHANGED used
     \/ Takes(m, "MIXED_BACKEND_RAG") /\ FetchForMixed(m)
  /\ Goto(m, "raised")
  /\ UNCHANGED <<routerVars, mode, blocked, masked, reply, reported>>

AskLlm(m) ==
  /\ Takes(m, "LLM_ONLY")
  /\ Goto(m, "llm")
  /\ UNCHANGED <<routerVars, mode, turnVars>>

(* BACKEND_API without a sub-intent: by its keywords and its domain the    *)
(* query asks for nothing known, for a critical action or for a look-up.   *)
SubIntentsOf(m) ==
  IF routed[m].result.sub = "" THEN {"", "quiz", "check"} ELSE {routed[m].result.sub}

(* In the first two cases the user is asked, without the router's knowing. *)
ResolverAsks(m) ==
  /\ Takes(m, "BACKEND_API")
  /\ routed[m].result.sub = ""
  /\ SubIntentsOf(m) \cap {"", "quiz"} # {}
  /\ Answer(m, "prompt")
  /\ UNCHANGED <<routerVars, mode, blocked, used, masked, reported>>

(* A look-up, the router's or the resolver's, is answered from facts. *)
Personalize(m) ==
  /\ Takes(m, "BACKEND_API")
  /\ "check" \in SubIntentsOf(m)
  /\ Goto(m, "facts")
  /\ UNCHANGED <<routerVars, mode, turnVars>>

(* resolve_facts: every error but a block is an answer with an error; what *)
(* is raised becomes the backend's fallback text.                          *)
ResolveFacts(m) ==
  /\ at[m] = "facts"
  /\ \/ /\ "backend" \in blocked[m]
        /\ Answer(m, "fallback") /\ UNCHANGED used
     \/ /\ "backend" \notin blocked[m]
        /\ Goto(m, "drafting") /\ (Call(m, "backend") \/ UNCHANGED used)
        /\ UNCHANGED reply
  /\ UNCHANGED <<routerVars, mode, blocked, masked, reported>>

(* AnswerGenerator.generate: an error or no data has a text of its own;    *)
(* when the LLM fails, a template tells the facts.                         *)
AnswerOf(m, kind) ==
  \/ kind = "canned" /\ UNCHANGED used
  \/ kind \in {"canned", "generated"} /\ Call(m, "llm")

(* Either text is masked, and a failure of the PII service ends in the     *)
(* fallback text.                                                          *)
TellFacts(m) ==
  /\ at[m] = "drafting"
  /\ \E kind \in {"canned", "generated"} :
       /\ AnswerOf(m, kind)
       /\ \/ Mask(m, "output") /\ Answer(m, kind)
          \/ UNCHANGED masked /\ Answer(m, "fallback")
  /\ UNCHANGED <<routerVars, mode, blocked, reported>>

(* fetch_for_api: any other sub-intent.  The block is checked outside its  *)
(* try, so that it raises.                                                 *)
Fetch(m) ==
  /\ Takes(m, "BACKEND_API")
  /\ routed[m].result.sub \in {"check", "quiz", "status"}
  /\ \/ "backend" \in blocked[m] /\ Goto(m, "raised") /\ UNCHANGED used
     \/ "backend" \notin blocked[m] /\ Goto(m, "fetching") /\ AskBackend(m)
  /\ UNCHANGED <<routerVars, mode, blocked, masked, reply, reported>>

(* Data or none: the LLM is asked in either case. *)
Fetched(m) ==
  /\ at[m] = "fetching"
  /\ Goto(m, "llm")
  /\ UNCHANGED <<routerVars, mode, turnVars>>

(* generate_chat_completion_with_usage: a text or, with the retries used   *)
(* up, an error; without a base URL, or with one outside, no call is made  *)
(* and the text is a fixed one.                                            *)
Completion(m, outcome) ==
  \/ outcome \in {"generated", "error"} /\ Call(m, "llm")
  \/ outcome = "canned" /\ UNCHANGED used

(* Variant: an error of the LLM starts the attempt over, without a bound. *)
Generate_Retry(m) ==
  /\ at[m] = "llm"
  /\ \E outcome \in {"generated", "canned", "error"} :
       /\ Completion(m, outcome)
       /\ \/ outcome # "error" /\ Draft(m, outcome) /\ Goto(m, "maskOut")
          \/ outcome = "error" /\ UNCHANGED reply /\ Goto(m, "fetching")
  /\ UNCHANGED <<routerVars, mode, blocked, masked, reported>>

(* The answerability gate lets everything through; an error of the LLM     *)
(* becomes an apology, which goes the way of an answer.                    *)
Generate(m) ==
  /\ at[m] = "llm"
  /\ \E outcome \in {"generated", "canned", "error"} :
       /\ Completion(m, outcome)
       /\ Draft(m, IF outcome = "error" THEN "fallback" ELSE outcome)
  /\ Goto(m, "maskOut")
  /\ UNCHANGED <<routerVars, mode, blocked, masked, reported>>

(* Variant: without the PII service the answer is returned as it is. *)
MaskOutput_FailOpen(m) ==
  /\ at[m] = "maskOut"
  /\ Goto(m, "logging")
  /\ Mask(m, "output") \/ UNCHANGED masked
  /\ UNCHANGED <<routerVars, mode, blocked, used, reply, reported>>

MaskOutput(m) ==
  /\ at[m] = "maskOut"
  /\ \/ Mask(m, "output") /\ Goto(m, "logging") /\ UNCHANGED <<reply, reported>>
     \/ Answer(m, "fallback") /\ Report(m) /\ UNCHANGED masked
  /\ UNCHANGED <<routerVars, mode, blocked, used>>

(* _send_ai_log: the texts are masked for the log, whose entry is made     *)
(* with arguments it does not have (ab_model=): none is sent.  What is     *)
(* raised is swallowed.                                                    *)
LogTurn(m) ==
  /\ at[m] = "logging"
  /\ Goto(m, "reporting")
  /\ UNCHANGED <<routerVars, mode, turnVars>>

ReportTurn(m) ==
  /\ at[m] = "reporting"
  /\ Goto(m, "answered") /\ Report(m)
  /\ UNCHANGED <<routerVars, mode, blocked, used, masked, reply>>

-----------------------------------------------------------------------------
Handle(m) ==
  \/ MaskInput(m) \/ RouteMessage(m) \/ RouterAnswers(m)
  \/ Decided(m) \/ SearchRaises(m) \/ AskLlm(m)
  \/ ResolverAsks(m) \/ Personalize(m) \/ ResolveFacts(m) \/ TellFacts(m)
  \/ Fetch(m) \/ Fetched(m) \/ Generate(m) \/ MaskOutput(m)
  \/ LogTurn(m) \/ ReportTurn(m)

Expire(s) == Elapse(s) /\ UNCHANGED turnVars

Next ==
  \/ \E m \in Messages : Receive(m) \/ Handle(m)
  \/ \E s \in Sessions : Expire(s)

Spec == Init /\ [][Next]_vars

(* Every await ends: HTTP calls carry timeouts.  Nobody has to write.      *)
FairSpec == Spec /\ \A m \in Messages : WF_vars(Handle(m))

-----------------------------------------------------------------------------
(* Properties. *)

(* The PII service is fail-closed: nothing of a message leaves for the     *)
(* router's LLM, the backend or the LLM before its input was masked, and   *)
(* no generated text is returned that was not masked itself, on the way of *)
(* personalized answers as on the long one.                                *)
FailClosed ==
  \A m \in Messages :
    /\ at[m] \in {"routing", "llmRouter"} \/ used[m] # {} => "input" \in masked[m]
    /\ at[m] = "answered" /\ reply[m] = "generated" => "output" \in masked[m]

(* A query that the filter keeps from the backend never reaches it, by     *)
(* whichever of the three ways to the backend it is routed.                *)
BlockedStaysOut ==
  \A m \in Messages : "backend" \in blocked[m] => "backend" \notin used[m]

(* Every message that is received is answered or ends in an error.         *)
TurnEnds ==
  \A m \in Traced : at[m] # "new" ~> at[m] \in {"answered", "raised"}

(* The router's store is the question board of OpenQuestion: an expired    *)
(* question is closed, and what was read while the LLM router thought      *)
(* neither reopens a question nor lets another message answer it.          *)
Asker(action) == IF action.kind = "none" THEN NoMessage ELSE action.by

Open     == [s \in Sessions |-> Asker(Current(s))]
Answered == [m \in Messages |-> Asker(consumed[m])]
Read     == {m \in Messages : at[m] \notin {"new", "masking", "routing", "llmRouter"}}

Questions == INSTANCE OpenQuestion WITH open <- Open, answer <- Answered, read <- Read

ImplementsQuestions == Questions!Spec

(* handle_chat "handles errors without raising exceptions"                 *)
(* (chat_service.py:443).  Every message routed to a search breaks it.     *)
NeverRaises == \A m \in Messages : at[m] # "raised"
=============================================================================
