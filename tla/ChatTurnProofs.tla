--------------------------- MODULE ChatTurnProofs ---------------------------
(***************************************************************************)
(* Theorems about ChatTurn, for all messages, sessions and LLM answers.    *)
(***************************************************************************)
EXTENDS ChatTurn, TLAPS

Early == {"new", "masking", "routing", "llmRouter"}

Question(m, kind, result) ==
  [kind |-> kind, by |-> m, result |-> result, late |-> FALSE]

(* The four ways a message leaves the router, or waits for its LLM.         *)
Asks(m) ==
  \E kind \in {"clarify", "confirm"}, result \in RouterResults :
    /\ pending' = [pending EXCEPT ![SessionOf[m]] = Question(m, kind, result)]
    /\ routed' = [routed EXCEPT ![m] = [result |-> result, asked |-> TRUE]]
    /\ shown' = IF Ignored(result) THEN shown ELSE [shown EXCEPT ![SessionOf[m]] = m]
    /\ at' = [at EXCEPT ![m] = "settling"]

Releases(m) ==
  \E result \in RouterResults :
    /\ Release(m, result)
    /\ pending' = Without(SessionOf[m]) \/ (pending' = pending /\ consumed' = consumed)
    /\ shown' = shown
    /\ \/ result.sub # "quiz"
       \/ /\ Current(SessionOf[m]).kind = "confirm" /\ Consume(m)
          /\ result = [Current(SessionOf[m]).result EXCEPT !.confirm = FALSE]

Waits(m) ==
  /\ at' = [at EXCEPT ![m] = "llmRouter"]
  /\ pending' = Without(SessionOf[m])
  /\ UNCHANGED <<routed, shown>>

AsksAgain(m) ==
  /\ routed' = [routed EXCEPT ![m] =
                  [result |-> Current(SessionOf[m]).result, asked |-> TRUE]]
  /\ at' = [at EXCEPT ![m] = "settling"]
  /\ UNCHANGED <<pending, consumed, shown>>

RouterEffect(m) ==
  /\ at[m] \in {"routing", "llmRouter"} /\ mode' = mode
  /\ Asks(m) \/ Releases(m) \/ Waits(m) \/ AsksAgain(m)
  /\ \/ /\ UNCHANGED consumed
        /\ Asks(m) \/ pending' = pending \/ Current(SessionOf[m]).kind = "none"
     \/ at[m] = "routing" /\ Current(SessionOf[m]).kind # "none" /\ Consume(m)

-----------------------------------------------------------------------------
(* Facts about the router's results. *)

LEMMA RouteForType == \A intent \in Intents : RouteFor[intent] \in Routes
BY DEF RouteFor, Intents, Routes

LEMMA PlainType ==
  ASSUME NEW intent \in Intents, NEW sub \in SubIntents, NEW sure \in Confidences
  PROVE  /\ Plain(intent, sub, sure) \in RouterResults
         /\ Plain(intent, sub, sure).sub = sub
BY RouteForType DEF Plain, RouterResults

LEMMA RuleResultsType ==
  /\ RuleResults \subseteq RouterResults
  /\ \A r \in RuleResults : ~r.confirm => r.sub # "quiz"
<1> USE DEF Intents, SubIntents, Confidences
<1>1. \A r \in KeywordResults : r \in RouterResults /\ r.sub # "quiz"
  <2>1. Plain("BACKEND_STATUS", "check", "high") \in RouterResults
        /\ Plain("BACKEND_STATUS", "check", "high").sub = "check"
    BY PlainType
  <2>2. Plain("QA", "", "high") \in RouterResults /\ Plain("QA", "", "high").sub = ""
    BY PlainType
  <2>3. Plain("SYSTEM_HELP", "", "high") \in RouterResults
        /\ Plain("SYSTEM_HELP", "", "high").sub = ""
    BY PlainType
  <2>4. Plain("GENERAL_CHAT", "", "mid") \in RouterResults
        /\ Plain("GENERAL_CHAT", "", "mid").sub = ""
    BY PlainType
  <2>5. Plain("QA", "", "mid") \in RouterResults /\ Plain("QA", "", "mid").sub = ""
    BY PlainType
  <2>6. SUFFICES ASSUME NEW r \in KeywordResults
                 PROVE  r \in RouterResults /\ r.sub # "quiz"
    OBVIOUS
  <2>7. \/ r = Plain("BACKEND_STATUS", "check", "high")
        \/ r = Plain("QA", "", "high")
        \/ r = Plain("SYSTEM_HELP", "", "high")
        \/ r = Plain("GENERAL_CHAT", "", "mid")
        \/ r = Plain("QA", "", "mid")
    BY <2>6 DEF KeywordResults
  <2>8. CASE r = Plain("BACKEND_STATUS", "check", "high")
    BY <2>8, <2>1
  <2>9. CASE r \in {Plain("QA", "", "high"), Plain("SYSTEM_HELP", "", "high"),
                    Plain("GENERAL_CHAT", "", "mid"), Plain("QA", "", "mid")}
    BY <2>9, <2>2, <2>3, <2>4, <2>5
  <2>10. QED
    BY <2>7, <2>8, <2>9
<1>2. BoundaryResult \in RouterResults /\ BoundaryResult.sub # "quiz"
  <2>1. Plain("UNKNOWN", "", "low") \in RouterResults /\ Plain("UNKNOWN", "", "low").sub = ""
    BY PlainType
  <2>2. QED
    BY <2>1 DEF BoundaryResult, RouterResults
<1>3. CriticalResult \in RouterResults /\ CriticalResult.confirm
  <2>1. Plain("BACKEND_STATUS", "quiz", "high") \in RouterResults
    BY PlainType
  <2>2. QED
    BY <2>1 DEF CriticalResult, RouterResults
<1>4. QED
  BY <1>1, <1>2, <1>3 DEF RuleResults

LEMMA ValidatedType ==
  ASSUME NEW answer \in LlmAnswers \cup {LlmFallback}
  PROVE  /\ ValidateAndFix(answer) \in RouterResults
         /\ ~ValidateAndFix(answer).confirm => ValidateAndFix(answer).sub # "quiz"
<1>1. answer \in RouterResults
  BY RouterAssumption, RuleResultsType DEF LlmFallback, RuleResults
<1>2. RouteFor[answer.intent] \in Routes
  BY <1>1, RouteForType DEF RouterResults
<1>3. QED
  BY <1>1, <1>2 DEF ValidateAndFix, RouterResults

LEMMA ResolvedType ==
  ASSUME NEW intent
  PROVE  \A r \in Resolved(intent) : r \in RouterResults /\ r.sub # "quiz"
<1>1. ASSUME NEW result \in RouterResults, NEW route \in Routes
      PROVE  /\ [result EXCEPT !.route = route] \in RouterResults
             /\ [result EXCEPT !.route = route].sub = result.sub
  BY <1>1 DEF RouterResults
<1>2. CASE intent \in {"QA", "BACKEND_STATUS"}
  <2>1. intent \in Intents /\ {"", "status"} \subseteq SubIntents /\ "high" \in Confidences
        /\ {"BACKEND_API", "RAG_INTERNAL"} \subseteq Routes
    BY <1>2 DEF Intents, SubIntents, Confidences, Routes
  <2>2. \A sub \in {"", "status"} : /\ Plain(intent, sub, "high") \in RouterResults
                                    /\ Plain(intent, sub, "high").sub = sub
    BY <2>1, PlainType
  <2> DEFINE Asked == [Plain(intent, "status", "high") EXCEPT !.route = "BACKEND_API"]
             Known == [Plain(intent, "", "high") EXCEPT !.route = "RAG_INTERNAL"]
  <2>3. Asked \in RouterResults /\ Asked.sub = "status"
    BY <1>1, <2>1, <2>2
  <2>4. Known \in RouterResults /\ Known.sub = ""
    BY <1>1, <2>1, <2>2
  <2>5. Resolved(intent) = {Asked, Known}
    BY <1>2 DEF Resolved
  <2> HIDE DEF Asked, Known
  <2>6. QED
    BY <2>3, <2>4, <2>5
<1>3. QED
  BY <1>2 DEF Resolved

LEMMA UnroutedType ==
  /\ Unrouted \in [result : RouterResults, asked : BOOLEAN]
  /\ Unrouted.result.sub # "quiz"
  /\ NoPending \in PendingActions /\ NoPending.kind = "none"
<1>1. Plain("UNKNOWN", "", "low") \in RouterResults /\ Plain("UNKNOWN", "", "low").sub = ""
  BY PlainType DEF Intents, SubIntents, Confidences
<1>2. QED
  BY <1>1 DEF Unrouted, NoPending, PendingActions

LEMMA CurrentType ==
  ASSUME RouterTypeOK, NEW s \in Sessions
  PROVE  /\ Current(s) \in PendingActions
         /\ Current(s).kind # "none" => Current(s) = pending[s]
         /\ Current(s).kind = "clarify" => ~Current(s).late
BY UnroutedType DEF Current, RouterTypeOK, PendingActions

-----------------------------------------------------------------------------
(* Every step of the router has one of these effects. *)

LEMMA AskEffect ==
  ASSUME RouterTypeOK, NEW m \in Messages, NEW result \in RouterResults,
         NEW kind \in {"clarify", "confirm"}, NEW store \in {pending, Without(SessionOf[m])},
         Ask(m, kind, result, store)
  PROVE  Asks(m)
<1>1. SessionOf[m] \in Sessions
  BY RouterAssumption
<1>2. \A q : [Without(SessionOf[m]) EXCEPT ![SessionOf[m]] = q]
               = [pending EXCEPT ![SessionOf[m]] = q]
  BY <1>1 DEF Without, RouterTypeOK
<1>3. QED
  BY <1>2 DEF Ask, Asks, Question

LEMMA ClassifyEffect ==
  ASSUME RouterTypeOK, NEW m \in Messages, NEW result \in RuleResults,
         Classify(m, result, Without(SessionOf[m]))
  PROVE  Asks(m) \/ Waits(m) \/ Releases(m)
<1>1. result \in RouterResults /\ (~result.confirm => result.sub # "quiz")
  BY RuleResultsType
<1>2. CASE \E kind \in {"clarify", "confirm"} : Ask(m, kind, result, Without(SessionOf[m]))
  BY <1>1, <1>2, AskEffect
<1>3. CASE ~result.confirm /\ Release(m, result) /\ pending' = Without(SessionOf[m])
           /\ UNCHANGED shown
  BY <1>1, <1>3 DEF Releases
<1>4. CASE at' = [at EXCEPT ![m] = "llmRouter"] /\ pending' = Without(SessionOf[m])
           /\ UNCHANGED <<routed, shown>>
  BY <1>4 DEF Waits
<1>5. QED
  BY <1>2, <1>3, <1>4 DEF Classify, Finish

LEMMA RouteEffect ==
  ASSUME RouterTypeOK, NEW m \in Messages, Route(m)
  PROVE  RouterEffect(m)
<1> DEFINE p == Current(SessionOf[m])
<1>1. at[m] = "routing" /\ mode' = mode
  BY DEF Route
<1>2. SessionOf[m] \in Sessions
  BY RouterAssumption
<1>3. p \in PendingActions
  BY <1>2, CurrentType
<1>4. CASE NewQuery(m)
  BY <1>1, <1>4, ClassifyEffect DEF NewQuery, RouterEffect
<1>5. CASE AnswerConfirmation(m)
  <2>1. p.kind = "confirm"
    BY <1>5 DEF AnswerConfirmation
  <2>2. CASE Confirm(m) /\ Consume(m) /\ UNCHANGED shown
    <3>1. [p.result EXCEPT !.confirm = FALSE] \in RouterResults
      BY <1>3 DEF PendingActions, RouterResults
    <3>2. Releases(m)
      BY <2>1, <2>2, <3>1 DEF Confirm, Releases
    <3>3. QED
      BY <1>1, <2>1, <2>2, <3>2 DEF RouterEffect
  <2>3. CASE Decline(m) /\ Consume(m) /\ UNCHANGED shown
    <3>1. Plain("GENERAL_CHAT", "", "low") \in RouterResults
          /\ Plain("GENERAL_CHAT", "", "low").sub # "quiz"
      BY PlainType DEF Intents, SubIntents, Confidences
    <3>2. Releases(m)
      BY <2>3, <3>1 DEF Decline, Releases
    <3>3. QED
      BY <1>1, <2>1, <2>3, <3>2 DEF RouterEffect
  <2>4. CASE AsksAgain(m)
    BY <1>1, <2>4 DEF RouterEffect, AsksAgain
  <2>5. QED
    BY <1>5, <2>2, <2>3, <2>4 DEF AnswerConfirmation, AsksAgain
<1>6. CASE AnswerClarification(m)
  <2>1. p.kind # "none" /\ Consume(m)
    BY <1>6 DEF AnswerClarification
  <2>2. CASE \E result \in RuleResults : Classify(m, result, Without(SessionOf[m]))
    BY <1>1, <2>1, <2>2, ClassifyEffect DEF RouterEffect
  <2>3. CASE /\ \E result \in Resolved(p.result.intent) : Release(m, result)
             /\ pending' = Without(SessionOf[m]) /\ UNCHANGED shown
    <3>1. Releases(m)
      BY <2>3, ResolvedType DEF Releases
    <3>2. QED
      BY <1>1, <2>1, <3>1 DEF RouterEffect
  <2>4. QED
    BY <1>6, <2>2, <2>3 DEF AnswerClarification
<1>7. QED
  BY <1>4, <1>5, <1>6 DEF Route

LEMMA LlmRoutedEffect ==
  ASSUME RouterTypeOK, NEW m \in Messages, LlmRouted(m)
  PROVE  RouterEffect(m)
<1>1. PICK answer \in LlmAnswers \cup {LlmFallback} :
        \/ Ask(m, "clarify", ValidateAndFix(answer), pending)
        \/ Finish(m, ValidateAndFix(answer), pending)
  BY DEF LlmRouted
<1>2. at[m] = "llmRouter" /\ mode' = mode /\ consumed' = consumed
  BY DEF LlmRouted
<1>3. CASE \E kind \in {"clarify", "confirm"} : Ask(m, kind, ValidateAndFix(answer), pending)
  BY <1>2, <1>3, ValidatedType, AskEffect DEF RouterEffect
<1>4. CASE ~ValidateAndFix(answer).confirm /\ Release(m, ValidateAndFix(answer))
           /\ pending' = pending /\ UNCHANGED shown
  BY <1>2, <1>4, ValidatedType DEF RouterEffect, Releases
<1>5. QED
  BY <1>1, <1>3, <1>4 DEF Finish

(* The steps of a message that leave the router's state alone. *)
Local(m) ==
  \/ Receive(m) \/ MaskInput(m) \/ Decided(m) \/ SearchRaises(m) \/ AskLlm(m)
  \/ ResolverAsks(m) \/ Personalize(m) \/ ResolveFacts(m) \/ TellFacts(m)
  \/ Fetch(m) \/ Fetched(m) \/ Generate(m) \/ MaskOutput(m) \/ LogTurn(m) \/ ReportTurn(m)

LEMMA NextCases ==
  ASSUME RouterTypeOK, [Next]_vars
  PROVE  \/ \E m \in Messages : Local(m)
         \/ \E m \in Messages : RouterEffect(m) /\ UNCHANGED turnVars
         \/ \E s \in Sessions : Expire(s)
         \/ UNCHANGED vars
<1>1. ASSUME NEW m \in Messages, Handle(m)
      PROVE  Local(m) \/ (RouterEffect(m) /\ UNCHANGED turnVars)
  BY <1>1, RouteEffect, LlmRoutedEffect DEF Handle, Local, RouteMessage, RouterAnswers
<1>2. QED
  BY <1>1 DEF Next, Local

LEMMA LocalKeepsRouter ==
  ASSUME NEW m \in Messages, Local(m)
  PROVE  UNCHANGED <<routerVars, mode>>
BY DEF Local, Receive, MaskInput, ComplaintFastPath, Decided, SearchRaises, AskLlm, ResolverAsks, Personalize,
       ResolveFacts, TellFacts, AnswerOf, Fetch, Fetched, Generate, Completion, MaskOutput, LogTurn, ReportTurn

-----------------------------------------------------------------------------
(* Types. *)

LEMMA RouterTypesStep ==
  ASSUME TypeOK, NEW m \in Messages, RouterEffect(m), UNCHANGED turnVars
  PROVE  TypeOK'
<1> DEFINE s == SessionOf[m]
           p == Current(s)
<1>1. s \in Sessions
  BY RouterAssumption
<1>2. p \in PendingActions /\ NoPending \in PendingActions
  BY <1>1, CurrentType, UnroutedType DEF TypeOK
<1>3. consumed' \in [Messages -> PendingActions] /\ mode' \in Modes
  BY <1>2 DEF RouterEffect, Consume, TypeOK, RouterTypeOK
<1>4. Without(s) \in [Sessions -> PendingActions]
  BY <1>2 DEF Without, TypeOK, RouterTypeOK
<1>5. /\ pending' \in [Sessions -> PendingActions]
      /\ routed' \in [Messages -> [result : RouterResults, asked : BOOLEAN]]
      /\ shown' \in [Sessions -> Messages \cup {NoMessage}]
      /\ at' \in [Messages -> Places]
  <2>1. CASE Asks(m)
    <3>1. PICK kind \in {"clarify", "confirm"}, result \in RouterResults :
            /\ pending' = [pending EXCEPT ![s] = Question(m, kind, result)]
            /\ routed' = [routed EXCEPT ![m] = [result |-> result, asked |-> TRUE]]
            /\ shown' = IF Ignored(result) THEN shown ELSE [shown EXCEPT ![s] = m]
            /\ at' = [at EXCEPT ![m] = "settling"]
      BY <2>1 DEF Asks
    <3>2. Question(m, kind, result) \in PendingActions
      BY DEF Question, PendingActions
    <3>3. [result |-> result, asked |-> TRUE] \in [result : RouterResults, asked : BOOLEAN]
      OBVIOUS
    <3>4. QED
      BY <3>1, <3>2, <3>3 DEF TypeOK, RouterTypeOK, Places
  <2>2. CASE Releases(m)
    <3>1. PICK result \in RouterResults : Release(m, result)
      BY <2>2 DEF Releases
    <3>2. [result |-> result, asked |-> FALSE] \in [result : RouterResults, asked : BOOLEAN]
      OBVIOUS
    <3>3. QED
      BY <2>2, <3>1, <3>2, <1>4 DEF Releases, Release, TypeOK, RouterTypeOK, Places
  <2>3. CASE Waits(m)
    BY <2>3, <1>4 DEF Waits, TypeOK, RouterTypeOK, Places
  <2>4. CASE AsksAgain(m)
    <3>1. [result |-> p.result, asked |-> TRUE] \in [result : RouterResults, asked : BOOLEAN]
      BY <1>2 DEF PendingActions
    <3>2. QED
      BY <2>4, <3>1 DEF AsksAgain, TypeOK, RouterTypeOK, Places
  <2>5. QED
    BY <2>1, <2>2, <2>3, <2>4 DEF RouterEffect
<1>6. QED
  BY <1>3, <1>5 DEF TypeOK, RouterTypeOK, turnVars

(* What a local step changes, variable by variable. *)
LocalShape(m) ==
  /\ \E place \in Places : Goto(m, place)
  /\ UNCHANGED reply \/ \E kind \in Replies : Draft(m, kind)
  /\ UNCHANGED reported \/ Report(m)
  /\ UNCHANGED masked \/ \E text \in {"input", "output"} : Mask(m, text)
  /\ UNCHANGED used \/ \E served \in {"backend", "llm"} : Call(m, served)
  /\ \/ UNCHANGED blocked
     \/ \E verdict \in SUBSET {"rag", "backend"} : blocked' = [blocked EXCEPT ![m] = verdict]

LEMMA LocalHasShape ==
  ASSUME NEW m \in Messages, Local(m)
  PROVE  LocalShape(m)
<1> USE DEF Places, Replies, Answer, turnVars, LocalShape
<1>1. CASE Receive(m)
  BY <1>1 DEF Receive
<1>2. CASE MaskInput(m)
  BY <1>2 DEF MaskInput, ComplaintFastPath
<1>3. CASE Decided(m) \/ SearchRaises(m) \/ AskLlm(m)
  BY <1>3 DEF Decided, SearchRaises, FetchForMixed, AskBackend, AskLlm
<1>4. CASE ResolverAsks(m) \/ Personalize(m) \/ ResolveFacts(m)
  BY <1>4 DEF ResolverAsks, Personalize, ResolveFacts
<1>5. CASE Fetch(m) \/ Fetched(m) \/ TellFacts(m)
  BY <1>5 DEF Fetch, AskBackend, Fetched, TellFacts, AnswerOf
<1>6. CASE Generate(m) \/ MaskOutput(m) \/ LogTurn(m) \/ ReportTurn(m)
  BY <1>6 DEF Generate, Completion, MaskOutput, LogTurn, ReportTurn
<1>7. QED
  BY <1>1, <1>2, <1>3, <1>4, <1>5, <1>6 DEF Local

LEMMA LocalTypesStep ==
  ASSUME TypeOK, NEW m \in Messages, Local(m)
  PROVE  TypeOK'
<1>1. RouterTypeOK'
  BY LocalKeepsRouter DEF routerVars, TypeOK, RouterTypeOK
<1>2. LocalShape(m)
  BY LocalHasShape
<1>3. at' \in [Messages -> Places]
  BY <1>2 DEF LocalShape, Goto, TypeOK
<1>4. reply' \in [Messages -> Replies]
  BY <1>2 DEF LocalShape, Draft, TypeOK
<1>5. reported' \in [Messages -> BOOLEAN]
  BY <1>2 DEF LocalShape, Report, TypeOK
<1>6. masked' \in [Messages -> SUBSET {"input", "output"}]
  BY <1>2 DEF LocalShape, Mask, TypeOK
<1>7. used' \in [Messages -> SUBSET {"backend", "llm"}]
  BY <1>2 DEF LocalShape, Call, TypeOK
<1>8. blocked' \in [Messages -> SUBSET {"rag", "backend"}]
  BY <1>2 DEF LocalShape, TypeOK
<1>9. QED
  BY <1>1, <1>3, <1>4, <1>5, <1>6, <1>7, <1>8 DEF TypeOK

LEMMA TypeStep == TypeOK /\ [Next]_vars => TypeOK'
<1> SUFFICES ASSUME TypeOK, [Next]_vars PROVE TypeOK'
  OBVIOUS
<1>1. ASSUME NEW s \in Sessions, Expire(s) PROVE TypeOK'
  <2> DEFINE p == pending[s]
  <2>0. p \in PendingActions
    BY DEF TypeOK, RouterTypeOK
  <2> HIDE DEF p
  <2>1. [p EXCEPT !.late = TRUE] \in PendingActions
    BY <2>0 DEF PendingActions
  <2>2. pending' = [pending EXCEPT ![s] = [p EXCEPT !.late = TRUE]]
    BY <1>1 DEF Expire, Elapse, p
  <2>3. QED
    BY <1>1, <2>1, <2>2 DEF Expire, Elapse, TypeOK, RouterTypeOK, turnVars
<1>2. CASE UNCHANGED vars
  BY <1>2 DEF vars, routerVars, turnVars, TypeOK, RouterTypeOK
<1>3. QED
  BY <1>1, <1>2, NextCases, RouterTypesStep, LocalTypesStep DEF TypeOK

(* Messages, sessions and the router's store keep their types: whatever the *)
(* LLM answers, what is validated and stored is a result of the router.     *)
THEOREM TypeCorrect == Spec => []TypeOK
<1>1. Init => TypeOK
  BY UnroutedType DEF Init, RouterInit, TypeOK, RouterTypeOK, Places, Replies
<1>2. QED
  BY <1>1, TypeStep, PTL DEF Spec

-----------------------------------------------------------------------------
(* The PII service and the filter. *)

(* Past the INPUT stage, the services included, a text has been masked;     *)
(* past the OUTPUT stage, the answer has.                                   *)
Beyond == Places \ {"new", "masking", "answered"}

MaskedInv ==
  \A m \in Messages :
    /\ at[m] \in Beyond => "input" \in masked[m]
    /\ used[m] # {} => "input" \in masked[m]
    /\ at[m] \in {"logging", "reporting"} => "output" \in masked[m]
    /\ at[m] = "answered" /\ reply[m] = "generated" => "output" \in masked[m]

(* Before the INPUT stage nothing has been called. *)
BlockedInv ==
  \A m \in Messages :
    /\ at[m] = "new" => used[m] = {}
    /\ "backend" \in blocked[m] => "backend" \notin used[m]

(* What a local step does to the message that takes it.                     *)
LEMMA MaskedLocal ==
  ASSUME TypeOK, MaskedInv, NEW m \in Messages, Local(m)
  PROVE  MaskedInv'
<1> USE DEF TypeOK, MaskedInv, Beyond, Places, Replies, Goto, Answer, Draft, Mask, Call, turnVars
<1>1. CASE Receive(m)
  BY <1>1 DEF Receive
<1>2. CASE MaskInput(m)
  BY <1>2 DEF MaskInput, ComplaintFastPath
<1>3. CASE Decided(m)
  BY <1>3 DEF Decided
<1>4. CASE SearchRaises(m)
  BY <1>4 DEF SearchRaises, FetchForMixed, AskBackend, Takes
<1>5. CASE AskLlm(m) \/ ResolverAsks(m) \/ Personalize(m)
  <2>1. at[m] = "settling" /\ masked' = masked /\ used' = used
    BY <1>5 DEF AskLlm, ResolverAsks, Personalize, Takes
  <2>2. \/ Goto(m, "llm") /\ UNCHANGED reply
        \/ Goto(m, "facts") /\ UNCHANGED reply
        \/ Goto(m, "answered") /\ Draft(m, "prompt")
    BY <1>5 DEF AskLlm, ResolverAsks, Personalize
  <2>3. QED
    BY <2>1, <2>2
<1>6. CASE ResolveFacts(m)
  BY <1>6 DEF ResolveFacts
<1>7. CASE TellFacts(m)
  BY <1>7 DEF TellFacts, AnswerOf
<1>8. CASE Fetch(m) \/ Fetched(m)
  BY <1>8 DEF Fetch, AskBackend, Fetched, Takes
<1>9. CASE Generate(m)
  BY <1>9 DEF Generate, Completion
<1>10. CASE MaskOutput(m)
  BY <1>10 DEF MaskOutput
<1>11. CASE LogTurn(m) \/ ReportTurn(m)
  BY <1>11 DEF LogTurn, ReportTurn
<1>12. QED
  BY <1>1, <1>2, <1>3, <1>4, <1>5, <1>6, <1>7, <1>8, <1>9, <1>10, <1>11 DEF Local

LEMMA BlockedLocal ==
  ASSUME TypeOK, BlockedInv, NEW m \in Messages, Local(m)
  PROVE  BlockedInv'
<1> USE DEF TypeOK, BlockedInv, Goto, Answer, Call, turnVars
<1>1. CASE Receive(m)
  BY <1>1 DEF Receive
<1>2. CASE MaskInput(m) \/ Decided(m) \/ AskLlm(m) \/ ResolverAsks(m) \/ Personalize(m)
  BY <1>2 DEF MaskInput, ComplaintFastPath, Decided, AskLlm, ResolverAsks, Personalize
<1>3. CASE SearchRaises(m)
  BY <1>3 DEF SearchRaises, FetchForMixed, AskBackend
<1>4. CASE ResolveFacts(m)
  BY <1>4 DEF ResolveFacts
<1>5. CASE TellFacts(m)
  BY <1>5 DEF TellFacts, AnswerOf
<1>6. CASE Fetch(m) \/ Fetched(m)
  BY <1>6 DEF Fetch, AskBackend, Fetched
<1>7. CASE Generate(m) \/ MaskOutput(m) \/ LogTurn(m) \/ ReportTurn(m)
  BY <1>7 DEF Generate, Completion, MaskOutput, LogTurn, ReportTurn
<1>8. QED
  BY <1>1, <1>2, <1>3, <1>4, <1>5, <1>6, <1>7 DEF Local

(* The router moves a message between places that need the same masking.    *)
LEMMA RouterMoves ==
  ASSUME TypeOK, NEW m \in Messages, RouterEffect(m)
  PROVE  /\ at[m] \in {"routing", "llmRouter"}
         /\ \E place \in {"llmRouter", "settling"} : at' = [at EXCEPT ![m] = place]
BY DEF RouterEffect, Asks, Releases, Release, Waits, AsksAgain

LEMMA TurnStep == TypeOK /\ MaskedInv /\ BlockedInv /\ [Next]_vars => MaskedInv' /\ BlockedInv'
<1> SUFFICES ASSUME TypeOK, MaskedInv, BlockedInv, [Next]_vars
             PROVE  MaskedInv' /\ BlockedInv'
  OBVIOUS
<1>1. ASSUME NEW m \in Messages, RouterEffect(m), UNCHANGED turnVars
      PROVE  MaskedInv' /\ BlockedInv'
  BY <1>1, RouterMoves DEF MaskedInv, BlockedInv, Beyond, Places, turnVars, TypeOK
<1>2. ASSUME NEW s \in Sessions, Expire(s)
      PROVE  MaskedInv' /\ BlockedInv'
  BY <1>2 DEF Expire, Elapse, MaskedInv, BlockedInv, turnVars
<1>3. CASE UNCHANGED vars
  BY <1>3 DEF vars, MaskedInv, BlockedInv, turnVars
<1>4. QED
  BY <1>1, <1>2, <1>3, NextCases, MaskedLocal, BlockedLocal DEF TypeOK

(* No text of a message reaches a service unmasked, and no generated text   *)
(* is returned unmasked, whatever the PII service, the LLM and the backend  *)
(* do.                                                                      *)
THEOREM FailClosedSafe == Spec => []FailClosed
<1>1. Init => MaskedInv /\ BlockedInv
  BY DEF Init, MaskedInv, BlockedInv, Beyond
<1>2. MaskedInv => FailClosed
  BY DEF MaskedInv, FailClosed, Beyond, Places
<1>3. QED
  BY <1>1, <1>2, TypeCorrect, TurnStep, PTL DEF Spec

(* The backend is never asked about a query that the filter keeps from it.  *)
THEOREM BlockedSafe == Spec => []BlockedStaysOut
<1>1. Init => MaskedInv /\ BlockedInv
  BY DEF Init, MaskedInv, BlockedInv, Beyond
<1>2. BlockedInv => BlockedStaysOut
  BY DEF BlockedInv, BlockedStaysOut
<1>3. QED
  BY <1>1, <1>2, TypeCorrect, TurnStep, PTL DEF Spec

-----------------------------------------------------------------------------
(* Questions and their answers. *)

(* A message asks at most once, on its way out of the router.               *)
Past(m) == at[m] \notin Early

(* A pending question was asked by a message of the session that has left   *)
(* the router, it is the last one shown, and nobody has answered it.        *)
StoreInv ==
  \A s \in Sessions : pending[s].kind # "none" =>
    /\ pending[s].by \in Messages /\ SessionOf[pending[s].by] = s /\ Past(pending[s].by)
    /\ \A n \in Messages : consumed[n].kind # "none" => consumed[n].by # pending[s].by
    /\ ~Ignored(pending[s].result) => pending[s].by = shown[s]

ConsumedInv ==
  \A m \in Messages : consumed[m].kind # "none" =>
    consumed[m].by \in Messages /\ Past(consumed[m].by)

(* Until a message leaves the router it has no critical action.             *)
UnroutedInv == \A m \in Messages : ~Past(m) => routed[m].result.sub # "quiz"

QuestionInv ==
  /\ StoreInv /\ ConsumedInv /\ UnroutedInv
  /\ ConsumedOnce /\ CriticalNeedsConfirmation /\ ClarifiedInTime

LEMMA NeverBack ==
  ASSUME TypeOK, NEW m \in Messages, Local(m)
  PROVE  \A n \in Messages : Past(n) => Past(n)'
<1>1. PICK place \in Places : at' = [at EXCEPT ![m] = place]
  BY LocalHasShape DEF LocalShape, Goto
<1>2. Past(m) => at'[m] \notin Early
  BY DEF Local, Past, Early, TypeOK, Receive, MaskInput, ComplaintFastPath, Decided, SearchRaises, AskLlm,
         ResolverAsks, Personalize, ResolveFacts, TellFacts, AnswerOf, Fetch, Fetched, Generate, Completion,
         MaskOutput, LogTurn, ReportTurn, Takes, Goto, Answer
<1>3. QED
  BY <1>1, <1>2 DEF Past, TypeOK

LEMMA LocalQuestions ==
  ASSUME TypeOK, QuestionInv, NEW m \in Messages, Local(m)
  PROVE  QuestionInv'
<1>1. UNCHANGED <<pending, routed, consumed, shown>>
  BY LocalKeepsRouter DEF routerVars
<1>2. StoreInv' /\ ConsumedInv' /\ UnroutedInv'
  BY <1>1, NeverBack DEF QuestionInv, StoreInv, ConsumedInv, UnroutedInv
<1>3. ConsumedOnce' /\ CriticalNeedsConfirmation' /\ ClarifiedInTime'
  BY <1>1 DEF QuestionInv, ConsumedOnce, CriticalNeedsConfirmation, ClarifiedInTime
<1>4. QED
  BY <1>2, <1>3 DEF QuestionInv

LEMMA ExpireQuestions ==
  ASSUME TypeOK, QuestionInv, NEW s \in Sessions, Expire(s)
  PROVE  QuestionInv'
<1>1. UNCHANGED <<at, routed, consumed, shown>>
  BY DEF Expire, Elapse
<1>2. \A t \in Sessions : /\ pending'[t].kind = pending[t].kind
                          /\ pending'[t].by = pending[t].by
                          /\ pending'[t].result = pending[t].result
  BY DEF Expire, Elapse, TypeOK, RouterTypeOK, PendingActions
<1>3. StoreInv'
  BY <1>1, <1>2 DEF QuestionInv, StoreInv, Past, Ignored
<1>4. QED
  BY <1>1, <1>3 DEF QuestionInv, ConsumedInv, UnroutedInv, ConsumedOnce, Past,
                    CriticalNeedsConfirmation, ClarifiedInTime

(* What the router does to the session's question and to the answers.       *)
LEMMA RouterQuestions ==
  ASSUME TypeOK, QuestionInv, NEW m \in Messages, RouterEffect(m)
  PROVE  QuestionInv'
<1> DEFINE s == SessionOf[m]
           p == Current(s)
<1>1. s \in Sessions /\ p \in PendingActions /\ (p.kind # "none" => p = pending[s])
      /\ (p.kind = "clarify" => ~p.late)
  BY RouterAssumption, CurrentType DEF TypeOK
<1>2. \A n \in Messages : Past(n) => Past(n)'
  BY RouterMoves DEF Past, Early, TypeOK
<1>3. ~Past(m)
  BY RouterMoves DEF Past, Early
<1>4. \/ consumed' = consumed
      \/ p.kind # "none" /\ consumed' = [consumed EXCEPT ![m] = p]
  BY DEF RouterEffect, Consume
<1>5. \/ pending' = pending /\ consumed' = consumed /\ shown' = shown
      \/ pending' = [pending EXCEPT ![s] = NoPending] /\ shown' = shown
      \/ \E kind \in {"clarify", "confirm"}, result \in RouterResults :
           /\ pending' = [pending EXCEPT ![s] = Question(m, kind, result)]
           /\ shown' = IF Ignored(result) THEN shown ELSE [shown EXCEPT ![s] = m]
           /\ Past(m)'
  BY DEF RouterEffect, Asks, Releases, Waits, AsksAgain, Without, TypeOK, Past, Early
<1> HIDE DEF p
<1>6. ConsumedInv'
  BY <1>1, <1>2, <1>4 DEF QuestionInv, ConsumedInv, StoreInv, TypeOK, RouterTypeOK
<1>7. ConsumedOnce'
  <2>1. CASE consumed' = consumed
    BY <2>1 DEF QuestionInv, ConsumedOnce
  <2>2. CASE p.kind # "none" /\ consumed' = [consumed EXCEPT ![m] = p]
    <3>1. \A n \in Messages : consumed[n].kind # "none" => consumed[n].by # p.by
      BY <1>1, <2>2 DEF QuestionInv, StoreInv
    <3>2. consumed'[m] = p /\ \A n \in Messages \ {m} : consumed'[n] = consumed[n]
      BY <2>2 DEF TypeOK, RouterTypeOK
    <3>3. QED
      BY <3>1, <3>2 DEF QuestionInv, ConsumedOnce
  <2>3. QED
    BY <1>4, <2>1, <2>2
<1>8. ClarifiedInTime'
  BY <1>1, <1>4 DEF QuestionInv, ClarifiedInTime, TypeOK, RouterTypeOK
<1>9. \A n \in Messages : consumed'[n].kind # "none" => consumed'[n].by # m
  BY <1>1, <1>3, <1>4 DEF QuestionInv, ConsumedInv, StoreInv, TypeOK, RouterTypeOK
<1>10. StoreInv'
  <2> DEFINE Kept(t) == /\ pending'[t].by \in Messages /\ SessionOf[pending'[t].by] = t
                        /\ at'[pending'[t].by] \notin Early
                        /\ \A n \in Messages :
                             consumed'[n].kind # "none" => consumed'[n].by # pending'[t].by
                        /\ ~Ignored(pending'[t].result) => pending'[t].by = shown'[t]
  <2> SUFFICES ASSUME NEW t \in Sessions, pending'[t].kind # "none"
               PROVE  Kept(t)
    BY DEF StoreInv, Past
  <2>1. ASSUME pending'[t] = pending[t], shown'[t] = shown[t], t # s \/ consumed' = consumed
        PROVE  Kept(t)
    <3>1. /\ pending[t].by \in Messages /\ SessionOf[pending[t].by] = t
          /\ Past(pending[t].by)
          /\ ~Ignored(pending[t].result) => pending[t].by = shown[t]
      BY <2>1 DEF QuestionInv, StoreInv
    <3>2. \A n \in Messages : consumed[n].kind # "none" => consumed[n].by # pending[t].by
      BY <2>1 DEF QuestionInv, StoreInv
    <3>3. consumed'[m].kind # "none" => consumed'[m].by # pending[t].by
      <4>1. CASE consumed' = consumed
        BY <3>2, <4>1
      <4>2. CASE t # s /\ p.kind # "none" /\ consumed' = [consumed EXCEPT ![m] = p]
        <5>1. consumed'[m] = pending[s] /\ pending[s].kind # "none"
          BY <1>1, <4>2 DEF TypeOK, RouterTypeOK
        <5>2. SessionOf[pending[s].by] = s
          BY <1>1, <5>1 DEF QuestionInv, StoreInv
        <5>3. QED
          BY <3>1, <4>2, <5>1, <5>2
      <4>3. QED
        BY <1>4, <2>1, <4>1, <4>2
    <3>4. \A n \in Messages \ {m} : consumed'[n] = consumed[n]
      BY <1>4 DEF TypeOK, RouterTypeOK
    <3>5. at'[pending[t].by] \notin Early
      BY <1>2, <3>1 DEF Past
    <3>6. QED
      BY <2>1, <3>1, <3>2, <3>3, <3>4, <3>5
  <2>2. ASSUME NEW kind, NEW result, t = s, pending'[t] = Question(m, kind, result),
               ~Ignored(result) => shown'[t] = m, Past(m)'
        PROVE  Kept(t)
    <3>1. pending'[t].by = m /\ pending'[t].result = result
      BY <2>2 DEF Question
    <3>2. QED
      BY <1>9, <2>2, <3>1 DEF Past
  <2>3. CASE pending' = pending /\ consumed' = consumed /\ shown' = shown
    BY <2>1, <2>3
  <2>4. CASE pending' = [pending EXCEPT ![s] = NoPending] /\ shown' = shown
    <3>1. t # s
      BY <1>1, <2>4 DEF NoPending, TypeOK, RouterTypeOK
    <3>2. QED
      BY <2>1, <2>4, <3>1 DEF TypeOK, RouterTypeOK
  <2>5. ASSUME NEW kind \in {"clarify", "confirm"}, NEW result \in RouterResults,
               pending' = [pending EXCEPT ![s] = Question(m, kind, result)],
               shown' = IF Ignored(result) THEN shown ELSE [shown EXCEPT ![s] = m],
               Past(m)'
        PROVE  Kept(t)
    <3>1. CASE t = s
      BY <1>1, <2>2, <2>5, <3>1 DEF TypeOK, RouterTypeOK
    <3>2. CASE t # s
      BY <2>1, <2>5, <3>2 DEF TypeOK, RouterTypeOK
    <3>3. QED
      BY <3>1, <3>2
  <2>6. QED
    BY <1>5, <2>3, <2>4, <2>5
<1>11. UnroutedInv'
  BY <1>3 DEF RouterEffect, Asks, Releases, Release, Waits, AsksAgain, QuestionInv,
              UnroutedInv, Past, Early, TypeOK, RouterTypeOK
<1>12. CriticalNeedsConfirmation'
  <2>1. \A n \in Messages \ {m} : routed'[n] = routed[n] /\ consumed'[n] = consumed[n]
    BY <1>4 DEF RouterEffect, Asks, Releases, Release, Waits, AsksAgain, TypeOK, RouterTypeOK
  <2>2. routed'[m].result.sub = "quiz" /\ ~routed'[m].asked =>
          /\ consumed'[m].kind = "confirm"
          /\ routed'[m].result = [consumed'[m].result EXCEPT !.confirm = FALSE]
    <3>1. CASE Asks(m) \/ AsksAgain(m)
      BY <3>1 DEF Asks, AsksAgain, TypeOK, RouterTypeOK
    <3>2. CASE Waits(m)
      BY <1>3, <3>2 DEF Waits, QuestionInv, UnroutedInv
    <3>3. CASE Releases(m)
      BY <3>3 DEF Releases, Release, Consume, TypeOK, RouterTypeOK
    <3>4. QED
      BY <3>1, <3>2, <3>3 DEF RouterEffect
  <2>3. QED
    BY <2>1, <2>2 DEF QuestionInv, CriticalNeedsConfirmation
<1>13. QED
  BY <1>6, <1>7, <1>8, <1>10, <1>11, <1>12 DEF QuestionInv

LEMMA QuestionStep == TypeOK /\ QuestionInv /\ [Next]_vars => QuestionInv'
<1> SUFFICES ASSUME TypeOK, QuestionInv, [Next]_vars PROVE QuestionInv'
  OBVIOUS
<1>1. CASE UNCHANGED vars
  BY <1>1 DEF vars, routerVars, QuestionInv, StoreInv, ConsumedInv, UnroutedInv, ConsumedOnce,
              CriticalNeedsConfirmation, ClarifiedInTime, Past, Ignored
<1>2. QED
  BY <1>1, NextCases, LocalQuestions, RouterQuestions, ExpireQuestions DEF TypeOK

LEMMA QuestionInit == Init => QuestionInv
BY UnroutedType DEF Init, RouterInit, QuestionInv, StoreInv, ConsumedInv, UnroutedInv,
                    ConsumedOnce, CriticalNeedsConfirmation, ClarifiedInTime, Past, Early

LEMMA QuestionsHold == Spec => [](TypeOK /\ QuestionInv)
BY TypeCorrect, QuestionInit, QuestionStep, PTL DEF Spec

(* No question of the router is answered by two messages.                   *)
THEOREM ConsumedOnceSafe == Spec => []ConsumedOnce
<1>1. QuestionInv => ConsumedOnce
  BY DEF QuestionInv
<1>2. QED
  BY <1>1, QuestionsHold, PTL

(* No critical action is released unless it was asked about and confirmed.  *)
THEOREM CriticalSafe == Spec => []CriticalNeedsConfirmation
<1>1. QuestionInv => CriticalNeedsConfirmation
  BY DEF QuestionInv
<1>2. QED
  BY <1>1, QuestionsHold, PTL

(* Expired clarifications are not answered.                                 *)
THEOREM ClarifiedInTimeSafe == Spec => []ClarifiedInTime
<1>1. QuestionInv => ClarifiedInTime
  BY DEF QuestionInv
<1>2. QED
  BY <1>1, QuestionsHold, PTL

(* A confirmation is read as the answer to the question shown last.         *)
THEOREM LastQuestionSafe == Spec => AnswersLastQuestion
<1>1. ASSUME TypeOK, QuestionInv, [Next]_vars, NEW m \in Messages,
             consumed'[m] # consumed[m], consumed'[m].kind = "confirm",
             ~Ignored(consumed'[m].result)
      PROVE  consumed'[m].by = shown[SessionOf[m]]
  <2>1. PICK n \in Messages : RouterEffect(n)
    <3>1. consumed' # consumed
      BY <1>1
    <3>2. QED
      BY <1>1, <3>1, NextCases, LocalKeepsRouter
         DEF Expire, Elapse, vars, routerVars, TypeOK
  <2>2. m = n /\ consumed'[m] = Current(SessionOf[m]) /\ Current(SessionOf[m]).kind # "none"
    BY <1>1, <2>1 DEF RouterEffect, Consume, TypeOK, RouterTypeOK
  <2>3. SessionOf[m] \in Sessions
    BY RouterAssumption
  <2>4. consumed'[m] = pending[SessionOf[m]]
    BY <1>1, <2>2, <2>3, CurrentType DEF TypeOK
  <2>5. QED
    BY <1>1, <2>3, <2>4 DEF QuestionInv, StoreInv
<1>2. TypeOK /\ QuestionInv /\ [Next]_vars =>
        [\A m \in Messages :
           consumed'[m] # consumed[m] /\ consumed'[m].kind = "confirm"
             /\ ~Ignored(consumed'[m].result) =>
           consumed'[m].by = shown[SessionOf[m]]]_<<at, routerVars, mode>>
  BY <1>1
<1>3. QED
  BY <1>2, QuestionsHold, PTL DEF Spec, AnswersLastQuestion
-----------------------------------------------------------------------------
(* The router implements OpenQuestion. *)

(* Until the router has read it, a message has answered nothing.            *)
FreshInv ==
  \A m \in Messages : at[m] \in {"new", "masking", "routing"} => consumed[m].kind = "none"

LEMMA FreshLocal ==
  ASSUME TypeOK, FreshInv, NEW m \in Messages, Local(m)
  PROVE  FreshInv'
<1>1. PICK place \in Places : at' = [at EXCEPT ![m] = place]
  BY LocalHasShape DEF LocalShape, Goto
<1>2. consumed' = consumed
  BY LocalKeepsRouter DEF routerVars
<1>3. at'[m] \in {"new", "masking", "routing"} => at[m] \in {"new", "masking"}
  BY DEF Local, TypeOK, Receive, MaskInput, ComplaintFastPath, Decided, SearchRaises, AskLlm,
         ResolverAsks, Personalize, ResolveFacts, TellFacts, AnswerOf, Fetch, Fetched, Generate,
         Completion, MaskOutput, LogTurn, ReportTurn, Takes, Goto, Answer
<1>4. QED
  BY <1>1, <1>2, <1>3 DEF FreshInv, TypeOK

LEMMA FreshStep == TypeOK /\ FreshInv /\ [Next]_vars => FreshInv'
<1> SUFFICES ASSUME TypeOK, FreshInv, [Next]_vars PROVE FreshInv'
  OBVIOUS
<1>1. ASSUME NEW m \in Messages, RouterEffect(m) PROVE FreshInv'
  <2>1. at'[m] \notin {"new", "masking", "routing"}
    BY <1>1 DEF RouterEffect, Asks, Releases, Release, Waits, AsksAgain, TypeOK
  <2>2. \A n \in Messages \ {m} : at'[n] = at[n] /\ consumed'[n] = consumed[n]
    BY <1>1 DEF RouterEffect, Asks, Releases, Release, Waits, AsksAgain, Consume, TypeOK,
                RouterTypeOK
  <2>3. QED
    BY <2>1, <2>2 DEF FreshInv
<1>2. CASE \E s \in Sessions : Expire(s)
  BY <1>2 DEF Expire, Elapse, FreshInv
<1>3. CASE UNCHANGED vars
  BY <1>3 DEF vars, routerVars, FreshInv
<1>4. QED
  BY <1>1, <1>2, <1>3, NextCases, FreshLocal DEF TypeOK

(* A session's open question was asked by a message.                        *)
LEMMA OpenIsAsked ==
  ASSUME TypeOK, QuestionInv, NEW s \in Sessions, Current(s).kind # "none"
  PROVE  /\ Current(s) = pending[s]
         /\ Open[s] = pending[s].by /\ Open[s] # NoMessage
<1>1. Current(s) = pending[s]
  BY CurrentType DEF TypeOK
<1>2. pending[s].by \in Messages
  BY <1>1 DEF QuestionInv, StoreInv
<1>3. QED
  BY <1>1, <1>2, RouterAssumption DEF Open, Asker

LEMMA AskOpens ==
  ASSUME TypeOK, NEW m \in Messages, Asks(m)
  PROVE  Open' = [Open EXCEPT ![SessionOf[m]] = m] /\ at' = [at EXCEPT ![m] = "settling"]
<1>1. PICK kind \in {"clarify", "confirm"}, result \in RouterResults :
        pending' = [pending EXCEPT ![SessionOf[m]] = Question(m, kind, result)]
  BY DEF Asks
<1>2. SessionOf[m] \in Sessions
  BY RouterAssumption
<1>3. Asker(Current(SessionOf[m])') = m
  BY <1>1, <1>2 DEF Question, Asker, Current, TypeOK, RouterTypeOK
<1>4. \A t \in Sessions \ {SessionOf[m]} : Current(t)' = Current(t)
  BY <1>1 DEF Current, TypeOK, RouterTypeOK
<1>5. Open' = [t \in Sessions |-> Asker(Current(t)')]
  BY DEF Open, Asker
<1>6. QED
  BY <1>2, <1>3, <1>4, <1>5 DEF Open, Asks

LEMMA LocalImplements ==
  ASSUME TypeOK, NEW m \in Messages, Local(m)
  PROVE  [Questions!Next]_(Questions!questionVars)
<1>1. UNCHANGED <<Open, Answered>>
  BY LocalKeepsRouter DEF routerVars, Open, Answered, Current
<1>2. PICK place \in Places : at' = [at EXCEPT ![m] = place]
  BY LocalHasShape DEF LocalShape, Goto
<1>3. m \in Read => m \in Read'
  BY NeverBack DEF Read, Past, Early
<1>4. CASE m \in Read \/ m \notin Read'
  <2>1. Read' = Read
    BY <1>2, <1>3, <1>4 DEF Read, TypeOK
  <2>2. QED
    BY <1>1, <2>1 DEF Questions!questionVars
<1>5. CASE m \notin Read /\ m \in Read'
  <2>1. Read' = Read \cup {m}
    BY <1>2, <1>5 DEF Read, TypeOK
  <2>2. QED
    BY <1>1, <1>5, <2>1 DEF Questions!Next, Questions!Pass, Questions!Leaves
<1>6. QED
  BY <1>3, <1>4, <1>5

LEMMA ExpireImplements ==
  ASSUME TypeOK, QuestionInv, NEW s \in Sessions, Expire(s)
  PROVE  [Questions!Next]_(Questions!questionVars)
<1>1. UNCHANGED <<Answered, Read>>
  BY DEF Expire, Elapse, Answered, Read
<1>2. /\ pending[s].kind # "none" /\ ~pending[s].late
      /\ pending' = [pending EXCEPT ![s] = [pending[s] EXCEPT !.late = TRUE]]
  BY DEF Expire, Elapse
<1>3. pending'[s].kind = pending[s].kind /\ pending'[s].by = pending[s].by /\ pending'[s].late
  BY <1>2 DEF TypeOK, RouterTypeOK, PendingActions
<1>4. Current(s) = pending[s]
  BY <1>2 DEF Current
<1>5. \A t \in Sessions \ {s} : Open'[t] = Open[t]
  BY <1>2 DEF Open, Current, TypeOK, RouterTypeOK
<1>6. CASE pending[s].kind = "clarify"
  <2>1. Open'[s] = NoMessage
    BY <1>3, <1>6, UnroutedType DEF Open, Asker, Current
  <2>2. Open[s] # NoMessage
    BY <1>4, <1>6, OpenIsAsked
  <2>3. Open' = [Open EXCEPT ![s] = NoMessage]
    BY <1>5, <2>1 DEF Open
  <2>4. QED
    BY <1>1, <2>2, <2>3 DEF Questions!Next, Questions!Expire
<1>7. CASE pending[s].kind # "clarify"
  <2>1. Open'[s] = Open[s]
    BY <1>3, <1>4, <1>7 DEF Open, Asker, Current
  <2>2. Open' = Open
    BY <1>5, <2>1 DEF Open
  <2>3. QED
    BY <1>1, <2>2 DEF Questions!questionVars
<1>8. QED
  BY <1>6, <1>7

(* What the router reads, an answer or not, is one step of the board.       *)
LEMMA RouterImplements ==
  ASSUME TypeOK, QuestionInv, FreshInv, NEW m \in Messages, RouterEffect(m)
  PROVE  [Questions!Next]_(Questions!questionVars)
<1> DEFINE s == SessionOf[m]
<1>1. s \in Sessions
  BY RouterAssumption
<1>2. m \notin Read
  BY DEF RouterEffect, Read
<1>3. ASSUME at' = [at EXCEPT ![m] = "settling"] PROVE Read' = Read \cup {m}
  BY <1>3 DEF Read, TypeOK
<1>4. CASE consumed' = consumed
  <2>1. Answered' = Answered
    BY <1>4 DEF Answered
  <2>2. Asks(m) \/ pending' = pending \/ Current(s).kind = "none"
    <3>1. at[m] = "routing" /\ Current(s).kind # "none" /\ Consume(m) => FALSE
      BY <1>4 DEF Consume, FreshInv, TypeOK, RouterTypeOK
    <3>2. QED
      BY <3>1 DEF RouterEffect
  <2>3. CASE Asks(m)
    <3>1. Open' = [Open EXCEPT ![s] = m] /\ Read' = Read \cup {m}
      BY <1>3, <2>3, AskOpens
    <3>2. QED
      BY <1>2, <2>1, <3>1 DEF Questions!Next, Questions!Ask, Questions!Leaves
  <2>4. CASE ~Asks(m)
    <3>1. Open' = Open
      <4>1. pending' = pending \/ (pending' = Without(s) /\ Current(s).kind = "none")
        BY <2>2, <2>4 DEF RouterEffect, Releases, Waits, AsksAgain
      <4>2. CASE pending' = pending
        BY <4>2 DEF Open, Current
      <4>3. CASE pending' = Without(s) /\ Current(s).kind = "none"
        <5>1. \A t \in Sessions \ {s} : Current(t)' = Current(t)
          BY <1>1, <4>3 DEF Current, Without, TypeOK, RouterTypeOK
        <5>2. Current(s)' = NoPending
          BY <1>1, <4>3 DEF Current, Without, TypeOK, RouterTypeOK
        <5>3. \A t \in Sessions : Asker(Current(t)') = Asker(Current(t))
          BY <4>3, <5>1, <5>2, UnroutedType DEF Asker
        <5>4. QED
          BY <5>3 DEF Open, Asker
      <4>4. QED
        BY <4>1, <4>2, <4>3
    <3>2. Read' = Read \/ Read' = Read \cup {m}
      <4>1. CASE at' = [at EXCEPT ![m] = "llmRouter"]
        BY <1>2, <4>1 DEF Read, TypeOK
      <4>2. QED
        BY <1>3, <2>4, <4>1 DEF RouterEffect, Releases, Release, Waits, AsksAgain
    <3>3. QED
      BY <1>2, <2>1, <3>1, <3>2
         DEF Questions!Next, Questions!Pass, Questions!Leaves, Questions!questionVars
  <2>5. QED
    BY <2>3, <2>4
<1>5. CASE consumed' # consumed
  <2>1. at[m] = "routing" /\ Current(s).kind # "none" /\ Consume(m)
    BY <1>5 DEF RouterEffect
  <2>2. Current(s) = pending[s] /\ Open[s] = pending[s].by /\ Open[s] # NoMessage
    BY <1>1, <2>1, OpenIsAsked
  <2>3. Questions!Answers(m)
    <3>1. Answered[m] = NoMessage
      BY <2>1 DEF FreshInv, Answered, Asker
    <3>2. Answered' = [Answered EXCEPT ![m] = Open[s]]
      BY <2>1, <2>2 DEF Answered, Asker, Consume, TypeOK, RouterTypeOK
    <3>3. QED
      BY <2>2, <3>1, <3>2 DEF Questions!Answers
  <2>4. CASE Asks(m)
    <3>1. Open' = [Open EXCEPT ![s] = m] /\ Read' = Read \cup {m}
      BY <1>3, <2>4, AskOpens
    <3>2. QED
      BY <1>2, <2>3, <3>1 DEF Questions!Next, Questions!Ask, Questions!Leaves
  <2>5. CASE ~Asks(m)
    <3>1. pending' = Without(s)
      BY <1>5, <2>5 DEF RouterEffect, Releases, Waits, AsksAgain
    <3>2. Open' = [Open EXCEPT ![s] = NoMessage]
      BY <1>1, <3>1, UnroutedType DEF Open, Asker, Current, Without, TypeOK, RouterTypeOK
    <3>3. Read' = Read \/ Read' = Read \cup {m}
      <4>1. CASE at' = [at EXCEPT ![m] = "llmRouter"]
        BY <1>2, <4>1 DEF Read, TypeOK
      <4>2. QED
        BY <1>3, <2>5, <4>1 DEF RouterEffect, Releases, Release, Waits, AsksAgain
    <3>4. QED
      BY <1>2, <2>3, <3>2, <3>3
         DEF Questions!Next, Questions!Answer, Questions!Closes, Questions!Leaves
  <2>6. QED
    BY <2>4, <2>5
<1>6. QED
  BY <1>4, <1>5

(* To a session the router is a board with one question: whatever messages  *)
(* are under way, and whichever the LLM answers late, each step asks,       *)
(* answers, passes on or expires a question as OpenQuestion does.           *)
THEOREM QuestionsImplemented == Spec => ImplementsQuestions
<1>1. Init => Questions!Init /\ FreshInv
  BY UnroutedType
     DEF Init, RouterInit, FreshInv, Questions!Init, Open, Answered, Read, Asker, Current
<1>2. TypeOK /\ QuestionInv /\ FreshInv /\ [Next]_vars =>
        [Questions!Next]_(Questions!questionVars)
  <2> SUFFICES ASSUME TypeOK, QuestionInv, FreshInv, [Next]_vars
               PROVE  [Questions!Next]_(Questions!questionVars)
    OBVIOUS
  <2>1. CASE UNCHANGED vars
    BY <2>1 DEF vars, routerVars, Questions!questionVars, Open, Answered, Read, Current
  <2>2. QED
    BY <2>1, NextCases, LocalImplements, RouterImplements, ExpireImplements DEF TypeOK
<1>3. QED
  BY <1>1, <1>2, FreshStep, QuestionsHold, PTL DEF Spec, ImplementsQuestions, Questions!Spec
=============================================================================
