\* Three messages of one session, one of them followed to its end, with the router on (both settings) and off.
SPECIFICATION FairSpec
CONSTANTS
  Messages = {m1, m2, m3}
  session = session
  Sessions <- OneSession
  SessionOf <- SameSession
  Traced = {m1}
  NoMessage = NoMessage
  Modes = {"off", "rules", "llm"}
  LlmAnswers <- SomeAnswers
INVARIANTS CriticalNeedsConfirmation FailClosed
PROPERTIES AnswersLastQuestion ImplementsQuestions TurnEnds
CHECK_DEADLOCK FALSE
