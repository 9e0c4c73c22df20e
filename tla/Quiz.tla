-------------------------------- MODULE Quiz --------------------------------
(***************************************************************************)
(* Quizzes made by the LLM from blocks of text: its questions are          *)
(* filtered for their form and for those of an earlier attempt, and then   *)
(* pass the quality checks one after another, the last of which asks the   *)
(* LLM again.  Whatever fails leaves a quiz without questions.             *)
(*                                                                         *)
(* One service object serves all requests and keeps the quality result of  *)
(* the last one.                                                           *)
(***************************************************************************)
EXTENDS Llm, FiniteSets

CONSTANTS
  Quizzes,    \* requests for a quiz
  BlocksOf,   \* the blocks of text of a request
  Excluded,   \* its exclude_previous_questions, as normalised stems
  Made,       \* questions the LLM may make, see QuestionKinds
  NoBlock,    \* no source_block_id
  NoQuiz      \* no quality result yet

(* A question the LLM made: its stem, normalised ("" when blank), whether   *)
(* the stem has five characters, its options, those marked correct, whether *)
(* one of them is blank, the block it names, whether the correct option has *)
(* keywords (one letter or a stop word is none), and the blocks that have   *)
(* one of them.                                                             *)
QuestionKinds(blocks) ==
  [stem : STRING, long : BOOLEAN, options : Nat, correct : Nat, blank : BOOLEAN,
   block : blocks \cup {NoBlock}, keyed : BOOLEAN, found : SUBSET blocks]

ASSUME QuizAssumption ==
  /\ Quizzes \subseteq Clients
  /\ \A q \in Quizzes : BlocksOf[q] # {}
  /\ Made \subseteq QuestionKinds(UNION {BlocksOf[q] : q \in Quizzes})
  /\ NoQuiz \notin Quizzes

VARIABLES
  left,       \* questions of a quiz not yet checked
  passed,     \* questions that passed
  delivered,  \* the questions of the response
  lastQc,     \* the quiz _last_qc_result is of
  vouched     \* history: what the LLM's second look passed, per quiz

quizVars == <<left, passed, delivered, lastQc, vouched>>

(* _assemble_questions: a block the request does not have is no block. *)
Assembled(x, q) ==
  [x EXCEPT !.block = IF x.block \in BlocksOf[q] THEN x.block ELSE NoBlock]

Assembling == {Assembled(x, q) : x \in Made, q \in Quizzes}

QuizTypeOK ==
  /\ left \in [Quizzes -> SUBSET Assembling]
  /\ passed \in [Quizzes -> SUBSET Assembling]
  /\ delivered \in [Quizzes -> SUBSET Assembling]
  /\ lastQc \in Quizzes \cup {NoQuiz}
  /\ vouched \subseteq Quizzes \X Assembling

QuizInit ==
  /\ left = [q \in Quizzes |-> {}]
  /\ passed = [q \in Quizzes |-> {}]
  /\ delivered = [q \in Quizzes |-> {}]
  /\ lastQc = NoQuiz
  /\ vouched = {}

-----------------------------------------------------------------------------
(* _validate_and_filter_questions *)
WellFormed(x) == x.options >= 2 /\ x.correct = 1 /\ x.stem # ""

(* _filter_duplicate_questions *)
Fresh(x, q) == x.stem \notin Excluded[q]

(* _validate_schema *)
SchemaOk(x) == x.long /\ x.options >= 2 /\ x.correct = 1 /\ ~x.blank

(* The block of a question, or all blocks of the request when it has none. *)
Sources(x, q) == IF x.block = NoBlock THEN BlocksOf[q] ELSE {x.block}

(* _validate_source: without a keyword there is nothing to look for. *)
SourceOk(x, q) == x.keyed => x.found \cap Sources(x, q) # {}

-----------------------------------------------------------------------------
(* A quiz without questions, which leaves the last quality result alone. *)
Empty(q) ==
  /\ Goes(q, "done")
  /\ UNCHANGED quizVars

(* The LLM's questions are parsed and filtered; those left are checked. *)
Generated(q, questions) ==
  LET kept == {Assembled(x, q) : x \in {y \in questions : WellFormed(y) /\ Fresh(y, q)}}
  IN IF kept = {}
       THEN Empty(q)
       ELSE /\ Goes(q, "check")
            /\ left' = [left EXCEPT ![q] = kept]
            /\ UNCHANGED <<passed, delivered, lastQc, vouched>>

Generate(q) ==
  /\ at[q] = "llm"
  /\ \/ "error" \in CallEnds(q) /\ Empty(q)
     \/ "text" \in CallEnds(q) /\ \E questions \in SUBSET Made : Generated(q, questions)

(* The questions are checked in their order, whatever it is. *)
First(q) == CHOOSE x \in left[q] : TRUE

(* The next question fails at once, or the LLM is asked about it. *)
CheckNext(q) ==
  /\ at[q] = "check"
  /\ left[q] # {}
  /\ IF SchemaOk(First(q)) /\ SourceOk(First(q), q)
       THEN Goes(q, "selfcheck") /\ UNCHANGED left
       ELSE UNCHANGED llmVars /\ left' = [left EXCEPT ![q] = @ \ {First(q)}]
  /\ UNCHANGED <<passed, delivered, lastQc, vouched>>

(* Variant: a question passes when the LLM has nothing to say. *)
Passes_Lenient(verdict) == verdict # "fail"

(* An error, and a text that does not parse, are failures too. *)
Passes(verdict) == verdict = "pass"

SelfCheck(q) ==
  /\ at[q] = "selfcheck"
  /\ \E verdict \in {"pass", "fail", "none"} :
       /\ passed' = IF Passes(verdict)
                      THEN [passed EXCEPT ![q] = @ \cup {First(q)}] ELSE passed
       /\ vouched' = IF verdict = "pass" THEN vouched \cup {<<q, First(q)>>} ELSE vouched
  /\ left' = [left EXCEPT ![q] = @ \ {First(q)}]
  /\ Goes(q, "check")
  /\ UNCHANGED <<delivered, lastQc>>

(* The response, and the quality result of the service. *)
Respond(q) ==
  /\ at[q] = "check"
  /\ left[q] = {}
  /\ Goes(q, "done")
  /\ delivered' = [delivered EXCEPT ![q] = passed[q]]
  /\ lastQc' = q
  /\ UNCHANGED <<left, passed, vouched>>

QuizPosting(q) ==
  /\ q \in Quizzes
  /\ PostAgain(q)
  /\ UNCHANGED quizVars

QuizStep(q) ==
  \/ Generate(q) \/ CheckNext(q) \/ SelfCheck(q) \/ Respond(q) \/ QuizPosting(q)

-----------------------------------------------------------------------------
(* What a user is given to answer was not asked in the attempt before, has  *)
(* one correct option whose keywords, if it has any, are not all foreign to *)
(* the request's text, and was passed by the LLM's second look in this very *)
(* quiz: no failure and no other quiz under way lets a question through     *)
(* (generate_quiz, validate_quiz_set).                                      *)
DeliveredIsChecked ==
  \A q \in Quizzes : \A x \in delivered[q] :
    /\ WellFormed(x) /\ Fresh(x, q)
    /\ x.keyed => x.found \cap BlocksOf[q] # {}
    /\ <<q, x>> \in vouched
=============================================================================
