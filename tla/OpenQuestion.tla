---------------------------- MODULE OpenQuestion ----------------------------
(***************************************************************************)
(* What RouterOrchestrator and PendingActionStore promise a session: each  *)
(* message is read once; one question at most is open; the message that    *)
(* answers it closes it; a message may leave a question of its own, in the *)
(* place of the one that is open.                                          *)
(***************************************************************************)
CONSTANTS Messages, Sessions, SessionOf, NoMessage

VARIABLES
  open,    \* the message whose question a session has to answer
  answer,  \* the message whose question a message has answered
  read     \* messages that the router is done with

questionVars == <<open, answer, read>>

Init ==
  /\ open = [s \in Sessions |-> NoMessage]
  /\ answer = [m \in Messages |-> NoMessage]
  /\ read = {}

Answers(m) ==
  /\ answer[m] = NoMessage
  /\ open[SessionOf[m]] # NoMessage
  /\ answer' = [answer EXCEPT ![m] = open[SessionOf[m]]]

Closes(m) == open' = [open EXCEPT ![SessionOf[m]] = NoMessage]
Leaves(m) == read' = read \cup {m}

(* A message is still to be thought about when it has answered. *)
Answer(m) ==
  /\ m \notin read
  /\ Answers(m) /\ Closes(m)
  /\ Leaves(m) \/ UNCHANGED read

Ask(m) ==
  /\ m \notin read
  /\ Answers(m) \/ UNCHANGED answer
  /\ open' = [open EXCEPT ![SessionOf[m]] = m]
  /\ Leaves(m)

Pass(m) == m \notin read /\ Leaves(m) /\ UNCHANGED <<open, answer>>

Expire(s) ==
  /\ open[s] # NoMessage
  /\ open' = [open EXCEPT ![s] = NoMessage]
  /\ UNCHANGED <<answer, read>>

Next ==
  \/ \E m \in Messages : Answer(m) \/ Ask(m) \/ Pass(m)
  \/ \E s \in Sessions : Expire(s)

Spec == Init /\ [][Next]_questionVars
=============================================================================
