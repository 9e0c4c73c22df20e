\* One job: watched executions with each renderer and storage, one at a time, and
\* executions that overlap.
SPECIFICATION PipelineFairSpec
CONSTANTS
  Jobs = {j1}
  Videos = {v}
  VideoOf <- MCVideoOf
  Tasks = {t1, t2}
  Callers = {c1}
  NumSteps = 7
  Api = {"internal", "retry", "cancel", "restart"}
  NoTask = NoTask
  NoJob = NoJob
  Sockets = {w1}
  Watches <- MCWatches
  Setups <- MCSetups
  t1 = t1
  t2 = t2
  RetryMax = 1
INVARIANTS CompletedIsBacked CompletedSeenIsRecorded ClosedIsForgotten
PROPERTIES EndIsSeen
CHECK_DEADLOCK FALSE
