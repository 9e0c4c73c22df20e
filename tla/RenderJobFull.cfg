\* Every operation, restarts included, on one job, two executors, two start calls,
\* under the fairness of the event loop.
SPECIFICATION FairSpec
CONSTANTS
  Jobs = {j1}
  Videos = {v}
  VideoOf <- MCVideoOf
  Tasks = {t1, t2}
  Callers = {c1, c2}
  NumSteps = 2
  Api = {"create", "internal", "start", "retry", "cancel", "restart"}
  NoTask = NoTask
  NoJob = NoJob
INVARIANTS ToldHasAssets
PROPERTIES OnlyRestartOrphans ProcessingEnds AcceptedJobSettles
CHECK_DEADLOCK FALSE
