----------------------------- MODULE MCChatTurn -----------------------------
(* Instances of ChatTurn for TLC. *)
EXTENDS ChatTurn

CONSTANT session

OneSession == {session}
SameSession == [m \in Messages |-> session]

(* Sure and unsure answers, a question, critical actions with and without  *)
(* the flag, and a result that handle_chat disregards.                     *)
SomeAnswers ==
  {Plain("QA", "", "high"), Plain("BACKEND_STATUS", "", "mid"),
   Plain("BACKEND_STATUS", "quiz", "high"), Plain("GENERAL_CHAT", "", "mid"),
   Plain("UNKNOWN", "", "mid"), Plain("UNKNOWN", "quiz", "low"),
   [Plain("QA", "", "mid") EXCEPT !.clarify = TRUE]}
=============================================================================
