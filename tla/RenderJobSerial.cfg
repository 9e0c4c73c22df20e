\* The runner on its own: jobs are created for a video and canceled.
SPECIFICATION Spec
CONSTANTS
  Jobs = {j1, j2, j3}
  Videos = {v}
  VideoOf <- MCVideoOf
  Tasks = {t1, t2, t3}
  Callers = {c1}
  NumSteps = 3
  Api = {"create", "cancel"}
  NoTask = NoTask
  NoJob = NoJob
SYMMETRY ActorSymmetry
INVARIANTS OneExecutorPerVideo CancelReachesExecutor
PROPERTIES ProgressNeverRegresses ImplementsLifecycle
CHECK_DEADLOCK FALSE
