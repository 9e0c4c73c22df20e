------------------------------- MODULE Router -------------------------------
(***************************************************************************)
(* RouterOrchestrator: a message is classified by rules and, when these    *)
(* are not sure, by an LLM; a question that the user must answer first is  *)
(* kept per session in PendingActionStore and decides how the session's    *)
(* next message is read.                                                   *)
(*                                                                         *)
(* Only the call of the LLM router is an await: between it and the rest    *)
(* other messages of the session may read and write the store.             *)
(***************************************************************************)
EXTENDS Naturals

CONSTANTS
  Messages,   \* messages of users, each sent once
  Sessions,   \* chat sessions
  SessionOf,  \* the session a message belongs to
  NoMessage,  \* no message
  Modes,      \* settings to check: "off", "rules" or "llm"
  LlmAnswers  \* what the LLM router may answer, before it is validated

Intents == {"QA", "BACKEND_STATUS", "GENERAL_CHAT", "SYSTEM_HELP", "UNKNOWN"}
Routes  == {"RAG_INTERNAL", "BACKEND_API", "LLM_ONLY", "HELP", "NONE"}

(* No sub-intent, a look-up, a critical action, an answered clarification. *)
SubIntents == {"", "check", "quiz", "status"}

(* Confidence: below 0.5, from 0.5, from 0.85 (no second classification).  *)
Confidences == {"low", "mid", "high"}

RouterResults ==
  [intent : Intents, route : Routes, sub : SubIntents, sure : Confidences,
   clarify : BOOLEAN, confirm : BOOLEAN]

ASSUME RouterAssumption ==
  /\ NoMessage \notin Messages
  /\ SessionOf \in [Messages -> Sessions]
  /\ Modes \subseteq {"off", "rules", "llm"}
  /\ LlmAnswers \subseteq RouterResults

VARIABLES
  at,        \* where handle_chat is with a message
  pending,   \* PendingActionStore: the question a session has to answer
  routed,    \* the orchestrator's result, and whether it asks the user
  consumed,  \* the pending question a message was read as the answer to
  shown,     \* the message whose question the session saw last
  mode       \* ROUTER_ORCHESTRATOR_ENABLED and ROUTER_USE_LLM

routerVars == <<pending, routed, consumed, shown>>

RouteFor ==
  [QA |-> "RAG_INTERNAL", BACKEND_STATUS |-> "BACKEND_API",
   GENERAL_CHAT |-> "LLM_ONLY", SYSTEM_HELP |-> "HELP", UNKNOWN |-> "NONE"]

Plain(intent, sub, sure) ==
  [intent |-> intent, route |-> RouteFor[intent], sub |-> sub, sure |-> sure,
   clarify |-> FALSE, confirm |-> FALSE]

(* handle_chat disregards such a result, question included. *)
Ignored(result) == result.intent = "UNKNOWN" /\ result.sure = "low"

Unrouted == [result |-> Plain("UNKNOWN", "", "low"), asked |-> FALSE]

NoPending ==
  [kind |-> "none", by |-> NoMessage, result |-> Unrouted.result, late |-> FALSE]

PendingActions ==
  [kind : {"none", "clarify", "confirm"}, by : Messages \cup {NoMessage},
   result : RouterResults, late : BOOLEAN]

RouterTypeOK ==
  /\ pending \in [Sessions -> PendingActions]
  /\ routed \in [Messages -> [result : RouterResults, asked : BOOLEAN]]
  /\ consumed \in [Messages -> PendingActions]
  /\ shown \in [Sessions -> Messages \cup {NoMessage}]
  /\ mode \in Modes

RouterInit ==
  /\ pending = [s \in Sessions |-> NoPending]
  /\ routed = [m \in Messages |-> Unrouted]
  /\ consumed = [m \in Messages |-> NoPending]
  /\ shown = [s \in Sessions |-> NoMessage]
  /\ mode \in Modes

-----------------------------------------------------------------------------
(* Classification. *)

BoundaryResult == [Plain("UNKNOWN", "", "low") EXCEPT !.clarify = TRUE]
CriticalResult == [Plain("BACKEND_STATUS", "quiz", "high") EXCEPT !.confirm = TRUE]

(* What _classify_by_keywords can return; "QA" is policy and education.    *)
KeywordResults ==
  {Plain("BACKEND_STATUS", "check", "high"), Plain("QA", "", "high"),
   Plain("SYSTEM_HELP", "", "high"), Plain("GENERAL_CHAT", "", "mid"),
   Plain("QA", "", "mid")}

RuleResults == {BoundaryResult, CriticalResult} \cup KeywordResults

(* Variant: the confirmation of critical actions is left to the LLM. *)
ValidateAndFix_Trusting(answer) ==
  [answer EXCEPT
     !.clarify = @ \/ (answer.intent = "BACKEND_STATUS" /\ answer.sub = ""),
     !.route = RouteFor[answer.intent]]

ValidateAndFix(answer) ==
  [answer EXCEPT
     !.clarify = @ \/ (answer.intent = "BACKEND_STATUS" /\ answer.sub = ""),
     !.confirm = @ \/ answer.sub = "quiz",
     !.route = RouteFor[answer.intent]]

(* The LLM cannot be reached, or its answer is not JSON. *)
LlmFallback == BoundaryResult

-----------------------------------------------------------------------------
(* The store. *)

(* get: a clarification expires, a confirmation has no expires_at. *)
Current(s) ==
  IF pending[s].kind = "clarify" /\ pending[s].late THEN NoPending ELSE pending[s]

Without(s) == [pending EXCEPT ![s] = NoPending]

(* ROUTER_PENDING_TIMEOUT_SECONDS have passed since the question was asked. *)
Elapse(s) ==
  /\ pending[s].kind # "none" /\ ~pending[s].late
  /\ pending' = [pending EXCEPT ![s].late = TRUE]
  /\ UNCHANGED <<routed, consumed, shown, at, mode>>

-----------------------------------------------------------------------------
(* How route() ends; store is PendingActionStore as it was left so far.     *)

Release(m, result) ==
  /\ routed' = [routed EXCEPT ![m] = [result |-> result, asked |-> FALSE]]
  /\ at' = [at EXCEPT ![m] = "settling"]

(* Variant: a question that is already waiting is not replaced. *)
Ask_KeepsFirst(m, kind, result, store) ==
  LET s == SessionOf[m]
  IN /\ pending' = IF store[s].kind # "none" THEN store ELSE
                     [store EXCEPT ![s] = [kind |-> kind, by |-> m,
                                           result |-> result, late |-> FALSE]]
     /\ routed' = [routed EXCEPT ![m] = [result |-> result, asked |-> TRUE]]
     /\ shown' = IF Ignored(result) THEN shown ELSE [shown EXCEPT ![s] = m]
     /\ at' = [at EXCEPT ![m] = "settling"]

(* _create_clarify_result, _create_confirmation_result *)
Ask(m, kind, result, store) ==
  LET s == SessionOf[m]
  IN /\ pending' = [store EXCEPT ![s] = [kind |-> kind, by |-> m,
                                         result |-> result, late |-> FALSE]]
     /\ routed' = [routed EXCEPT ![m] = [result |-> result, asked |-> TRUE]]
     /\ shown' = IF Ignored(result) THEN shown ELSE [shown EXCEPT ![s] = m]
     /\ at' = [at EXCEPT ![m] = "settling"]

(* The last steps of route(): the confirmation gate. *)
Finish(m, result, store) ==
  \/ result.confirm /\ Ask(m, "confirm", result, store)
  \/ ~result.confirm /\ Release(m, result) /\ pending' = store /\ UNCHANGED shown

Classify(m, result, store) ==
  \/ result.clarify /\ Ask(m, "clarify", result, store)
  \/ /\ ~result.clarify
     /\ result.sure = "high" \/ mode = "rules"
     /\ Finish(m, result, store)
  \/ /\ ~result.clarify /\ result.sure # "high" /\ mode = "llm"
     /\ at' = [at EXCEPT ![m] = "llmRouter"]
     /\ pending' = store
     /\ UNCHANGED <<routed, shown>>

Consume(m) == consumed' = [consumed EXCEPT ![m] = Current(SessionOf[m])]

-----------------------------------------------------------------------------
(* A message. *)

(* Nothing is pending: a new query. *)
NewQuery(m) ==
  /\ Current(SessionOf[m]).kind = "none"
  /\ \E result \in RuleResults : Classify(m, result, Without(SessionOf[m]))
  /\ UNCHANGED consumed

(* Variant: the confirmed action stays in the store. *)
Confirm_Kept(m) ==
  /\ Release(m, [Current(SessionOf[m]).result EXCEPT !.confirm = FALSE])
  /\ UNCHANGED pending

(* handle_confirmation with "yes" and with "no" *)
Confirm(m) ==
  /\ Release(m, [Current(SessionOf[m]).result EXCEPT !.confirm = FALSE])
  /\ pending' = Without(SessionOf[m])

Decline(m) ==
  /\ Release(m, Plain("GENERAL_CHAT", "", "low"))
  /\ pending' = Without(SessionOf[m])

AnswerConfirmation(m) ==
  /\ Current(SessionOf[m]).kind = "confirm"
  /\ \/ (Confirm(m) \/ Decline(m)) /\ Consume(m) /\ UNCHANGED shown
     \/ /\ routed' = [routed EXCEPT ![m] =
                        [result |-> Current(SessionOf[m]).result, asked |-> TRUE]]
        /\ at' = [at EXCEPT ![m] = "settling"]
        /\ UNCHANGED <<pending, consumed, shown>>

(* _resolve_clarify_answer: only the EDU and POLICY groups have keywords   *)
(* for the intents a clarification can have.                               *)
Resolved(intent) ==
  IF intent \notin {"QA", "BACKEND_STATUS"} THEN {} ELSE
    {[Plain(intent, "status", "high") EXCEPT !.route = "BACKEND_API"],
     [Plain(intent, "", "high") EXCEPT !.route = "RAG_INTERNAL"]}

(* The question is deleted first.  A long answer, or a short one without   *)
(* keyword joined to the original query, is a new query.                   *)
AnswerClarification(m) ==
  /\ Current(SessionOf[m]).kind = "clarify"
  /\ Consume(m)
  /\ \/ /\ \E result \in Resolved(Current(SessionOf[m]).result.intent) : Release(m, result)
        /\ pending' = Without(SessionOf[m])
        /\ UNCHANGED shown
     \/ \E result \in RuleResults : Classify(m, result, Without(SessionOf[m]))

(* RouterOrchestrator.route up to its end or to the call of the LLM router *)
Route(m) ==
  /\ at[m] = "routing"
  /\ NewQuery(m) \/ AnswerConfirmation(m) \/ AnswerClarification(m)
  /\ UNCHANGED mode

(* The LLM router has answered; the store is not read again. *)
LlmRouted(m) ==
  /\ at[m] = "llmRouter"
  /\ \E answer \in LlmAnswers \cup {LlmFallback} :
       LET result == ValidateAndFix(answer)
       IN \/ result.clarify /\ Ask(m, "clarify", result, pending)
          \/ ~result.clarify /\ Finish(m, result, pending)
  /\ UNCHANGED <<consumed, mode>>

-----------------------------------------------------------------------------
(* Properties. *)

(* A question is answered by one message only: two messages that are under *)
(* way together never both confirm, decline or resolve it.                 *)
ConsumedOnce ==
  \A m, n \in Messages :
    m # n /\ consumed[m].kind # "none" /\ consumed[n].kind # "none" =>
      consumed[m].by # consumed[n].by

(* A critical action that the orchestrator releases was confirmed: its     *)
(* message answered the question about that very action.                   *)
CriticalNeedsConfirmation ==
  \A m \in Messages :
    routed[m].result.sub = "quiz" /\ ~routed[m].asked =>
      /\ consumed[m].kind = "confirm"
      /\ routed[m].result = [consumed[m].result EXCEPT !.confirm = FALSE]

(* A yes or a no speaks of the question the session saw last, whatever     *)
(* other messages of the session asked in between.                         *)
AnswersLastQuestion ==
  [][\A m \in Messages :
       consumed'[m] # consumed[m] /\ consumed'[m].kind = "confirm"
         /\ ~Ignored(consumed'[m].result) =>
       consumed'[m].by = shown[SessionOf[m]]]_<<at, routerVars, mode>>

(* No message is read as the answer to a clarification that has expired.   *)
ClarifiedInTime ==
  \A m \in Messages : consumed[m].kind = "clarify" => ~consumed[m].late
=============================================================================
