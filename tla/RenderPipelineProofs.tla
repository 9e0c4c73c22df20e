------------------------ MODULE RenderPipelineProofs ------------------------
(***************************************************************************)
(* Theorems about the render job runner, for every set of jobs, tasks and  *)
(* callers, every pipeline length and every subset of the operations; and  *)
(* about the render pipeline, for every set of sockets besides, every set  *)
(* of configurations and any number of repeated requests.  The pipeline    *)
(* takes the runner's steps, so what is proved of the runner in the first  *)
(* part holds of the pipeline in the second.                               *)
(***************************************************************************)
EXTENDS Integers, RenderPipeline, TLAPS

-----------------------------------------------------------------------------
(* The job runner: types. *)

LEMMA TypeInit == Init => TypeOK
BY ConstantsAssumption DEF Init, TypeOK, Statuses, Codes, Kinds, PCs

LEMMA TypeStep == TypeOK /\ [Next]_vars => TypeOK'
<1> SUFFICES ASSUME TypeOK, [Next]_vars PROVE TypeOK'
  OBVIOUS
<1> USE ConstantsAssumption DEF TypeOK, Statuses, Codes, Kinds, PCs
<1>1. ASSUME NEW j \in Jobs, CreateJob(j) PROVE TypeOK'
  BY <1>1 DEF CreateJob, SetStatus, Spawn, SaveRow, VideoIsBusy
<1>2. ASSUME NEW j \in Jobs, StartWithSpec(j) PROVE TypeOK'
  BY <1>2 DEF StartWithSpec, Spawn, rowVars
<1>3. ASSUME NEW j \in Jobs, RetryJob(j) PROVE TypeOK'
  BY <1>3 DEF RetryJob, SetStatus, Spawn
<1>4. ASSUME NEW j \in Jobs, CancelJob(j) PROVE TypeOK'
  BY <1>4 DEF CancelJob, SetError
<1>5. ASSUME NEW j \in Jobs, CallbackDelivered(j) \/ CallbackLost(j) PROVE TypeOK'
  BY <1>5 DEF CallbackDelivered, CallbackLost, rowVars, taskVars
<1>6. ASSUME NEW j \in Jobs, NEW c \in Callers, CreateInternal(j, c) PROVE TypeOK'
  BY <1>6 DEF CreateInternal, SetStatus, taskVars, SaveRow
<1>7. ASSUME NEW j \in Jobs, NEW c \in Callers, StartFetch(j, c) PROVE TypeOK'
  BY <1>7 DEF StartFetch, rowVars, taskVars
<1>8. ASSUME NEW c \in Callers, FetchOk(c) PROVE TypeOK'
  BY <1>8 DEF FetchOk, Spawn, SaveSnapshot
<1>9. ASSUME NEW c \in Callers, FetchFailed(c) PROVE TypeOK'
  BY <1>9 DEF FetchFailed, SetError, taskVars
<1>10. ASSUME NEW t \in Tasks, Begin(t) PROVE TypeOK'
  BY <1>10 DEF Begin, SetStatus, Resumes
<1>11. ASSUME NEW t \in Tasks, Skip(t) PROVE TypeOK'
  BY <1>11 DEF Skip, SetError, Quit, Resumes
<1>12. ASSUME NEW t \in Tasks, NextStep(t) PROVE TypeOK'
  BY <1>12 DEF NextStep, SetStatus, Resumes
<1>13. ASSUME NEW t \in Tasks, StopCanceled(t) PROVE TypeOK'
  BY <1>13 DEF StopCanceled, Finally, Quit, rowVars, Resumes
<1>14. ASSUME NEW t \in Tasks, Complete(t) PROVE TypeOK'
  BY <1>14 DEF Complete, SetStatus, Resumes, SaveAssets
<1>15. ASSUME NEW t \in Tasks, StepFails(t) PROVE TypeOK'
  BY <1>15 DEF StepFails, SetError, Resumes
<1>16. ASSUME NEW t \in Tasks, Finish(t) PROVE TypeOK'
  BY <1>16 DEF Finish, Finally, Quit, rowVars, Resumes
<1>17. ASSUME NEW t \in Tasks, CleanUp(t) PROVE TypeOK'
  BY <1>17 DEF CleanUp, Finally, Quit, rowVars, Resumes
<1>18. ASSUME NEW t \in Tasks, Killed(t) PROVE TypeOK'
  BY <1>18 DEF Killed, Finally, Quit, rowVars
<1>19. CASE Restart
  <2>1. assets' \in [Jobs -> BOOLEAN]
    BY <1>19 DEF Restart, Resumes, SaveAssets
  <2>2. QED
    BY <2>1, <1>19 DEF Restart, SaveAssets
<1>20. CASE UNCHANGED vars
  BY <1>20 DEF vars, rowVars, taskVars
<1>21. QED
  BY <1>1, <1>2, <1>3, <1>4, <1>5, <1>6, <1>7, <1>8, <1>9, <1>10, <1>11, <1>12,
     <1>13, <1>14, <1>15, <1>16, <1>17, <1>18, <1>19, <1>20 DEF Next, Execute, Fetched

(* Rows, tasks and tables keep their types, and a task has a job exactly    *)
(* until it is done.  Later proofs use it to know what EXCEPT does.         *)
THEOREM TypeCorrect == Spec => []TypeOK
BY TypeInit, TypeStep, PTL DEF Spec

-----------------------------------------------------------------------------
(* SnapshotBeforeExecution holds: an executor of kind "spec" is only        *)
(* spawned for a row with a snapshot, and a snapshot is never removed.      *)
LEMMA SnapshotStep ==
  TypeOK /\ SnapshotBeforeExecution /\ [Next]_vars => SnapshotBeforeExecution'
<1> SUFFICES ASSUME TypeOK, SnapshotBeforeExecution, [Next]_vars
             PROVE  SnapshotBeforeExecution'
  OBVIOUS
<1> USE ConstantsAssumption DEF TypeOK, SnapshotBeforeExecution
<1>1. ASSUME NEW j \in Jobs, CreateJob(j) PROVE SnapshotBeforeExecution'
  BY <1>1 DEF CreateJob, Spawn, SaveRow, VideoIsBusy
<1>2. ASSUME NEW j \in Jobs, StartWithSpec(j) PROVE SnapshotBeforeExecution'
  BY <1>2 DEF StartWithSpec, Spawn, rowVars
<1>3. ASSUME NEW j \in Jobs, RetryJob(j) PROVE SnapshotBeforeExecution'
  BY <1>3 DEF RetryJob, Spawn
<1>4. ASSUME NEW j \in Jobs, CancelJob(j) PROVE SnapshotBeforeExecution'
  BY <1>4 DEF CancelJob
<1>5. ASSUME NEW c \in Callers, FetchOk(c) PROVE SnapshotBeforeExecution'
  BY <1>5 DEF FetchOk, Spawn, SaveSnapshot
<1>6. ASSUME NEW c \in Callers, FetchFailed(c) PROVE SnapshotBeforeExecution'
  BY <1>6 DEF FetchFailed, taskVars
<1>7. ASSUME NEW t \in Tasks, Execute(t) PROVE SnapshotBeforeExecution'
  <2>1. CASE Begin(t) \/ NextStep(t) \/ Complete(t) \/ StepFails(t)
    BY <2>1 DEF Begin, NextStep, Complete, StepFails, Resumes, SaveAssets
  <2>2. CASE Skip(t) \/ StopCanceled(t) \/ Finish(t) \/ CleanUp(t) \/ Killed(t)
    BY <2>2 DEF Skip, StopCanceled, Finish, CleanUp, Killed, Quit, rowVars
  <2>3. QED
    BY <1>7, <2>1, <2>2 DEF Execute
<1>8. CASE Restart
  BY <1>8 DEF Restart, SaveAssets
<1>9. ASSUME spec' = spec, pc' = pc, job' = job, kind' = kind
      PROVE  SnapshotBeforeExecution'
  BY <1>9
<1>10. QED
  BY <1>1, <1>2, <1>3, <1>4, <1>5, <1>6, <1>7, <1>8, <1>9
  DEF Next, CallbackDelivered, CallbackLost, CreateInternal, StartFetch,
      vars, rowVars, taskVars, SaveRow, Fetched

(* An executor of a backend's job always finds the snapshot it renders.     *)
THEOREM SnapshotSafe == Spec => []SnapshotBeforeExecution
<1>1. Init => SnapshotBeforeExecution
  BY DEF Init, SnapshotBeforeExecution
<1>2. QED
  BY <1>1, TypeCorrect, SnapshotStep, PTL DEF Spec

-----------------------------------------------------------------------------
(* ToldHasAssets is not inductive: the callback is queued by an executor    *)
(* that has already recorded the files.                                     *)
FinishingHasAssets == \A t \in Tasks : pc[t] = "finishing" => assets[job[t]]

AssetsInv == ToldHasAssets /\ FinishingHasAssets

(* Every step keeps AssetsInv: assets are never removed.                    *)
LEMMA AssetsStep == TypeOK /\ AssetsInv /\ [Next]_vars => AssetsInv'
<1> SUFFICES ASSUME TypeOK, AssetsInv, [Next]_vars PROVE AssetsInv'
  OBVIOUS
<1> USE ConstantsAssumption DEF TypeOK, AssetsInv, ToldHasAssets, FinishingHasAssets
<1>1. ASSUME NEW j \in Jobs, CreateJob(j) PROVE AssetsInv'
  BY <1>1 DEF CreateJob, Spawn, SaveRow, VideoIsBusy
<1>2. ASSUME NEW j \in Jobs, StartWithSpec(j) PROVE AssetsInv'
  BY <1>2 DEF StartWithSpec, Spawn, rowVars
<1>3. ASSUME NEW j \in Jobs, RetryJob(j) PROVE AssetsInv'
  BY <1>3 DEF RetryJob, Spawn
<1>4. ASSUME NEW j \in Jobs, CancelJob(j) PROVE AssetsInv'
  BY <1>4 DEF CancelJob
<1>5. ASSUME NEW j \in Jobs, CallbackDelivered(j) \/ CallbackLost(j) PROVE AssetsInv'
  BY <1>5 DEF CallbackDelivered, CallbackLost, rowVars, taskVars
<1>6. ASSUME NEW c \in Callers, FetchOk(c) PROVE AssetsInv'
  BY <1>6 DEF FetchOk, Spawn, SaveSnapshot
<1>7. ASSUME NEW c \in Callers, FetchFailed(c) PROVE AssetsInv'
  BY <1>7 DEF FetchFailed, taskVars
<1>8. ASSUME NEW t \in Tasks, Execute(t) PROVE AssetsInv'
  <2>1. CASE Begin(t) \/ NextStep(t) \/ StepFails(t)
    BY <2>1 DEF Begin, NextStep, StepFails
  <2>2. CASE Complete(t)
    BY <2>2 DEF Complete, Resumes, SaveAssets
  <2>3. CASE Finish(t)
    BY <2>3 DEF Finish, Resumes, Quit, rowVars
  <2>4. CASE Skip(t) \/ StopCanceled(t) \/ CleanUp(t) \/ Killed(t)
    BY <2>4 DEF Skip, StopCanceled, CleanUp, Killed, Quit, rowVars
  <2>5. QED
    BY <1>8, <2>1, <2>2, <2>3, <2>4 DEF Execute
<1>9. CASE Restart
  <2>1. \A j \in Jobs : assets[j] => assets'[j]
    BY <1>9 DEF Restart, Resumes, SaveAssets
  <2>2. QED
    BY <2>1, <1>9 DEF Restart, SaveAssets
<1>10. ASSUME assets' = assets, told' = told, callbacks' = callbacks,
              pc' = pc, job' = job
       PROVE  AssetsInv'
  BY <1>10
<1>11. QED
  BY <1>1, <1>2, <1>3, <1>4, <1>5, <1>6, <1>7, <1>8, <1>9, <1>10
  DEF Next, CreateInternal, StartFetch, vars, rowVars, taskVars, SaveRow, Fetched

(* Whatever the backend is told is COMPLETED has its files recorded.        *)
THEOREM ToldSafe == Spec => []ToldHasAssets
<1>1. Init => AssetsInv
  BY DEF Init, AssetsInv, ToldHasAssets, FinishingHasAssets
<1>2. AssetsInv => ToldHasAssets
  BY DEF AssetsInv
<1>3. QED
  BY <1>1, <1>2, TypeCorrect, AssetsStep, PTL DEF Spec

-----------------------------------------------------------------------------
(* An entry of _running_jobs names a task of that job, or one that ended:   *)
(* cancelling through the entry never hits the executor of another job.     *)
EntriesMatch == \A j \in Jobs :
  running[j] # NoTask => job[running[j]] \in {j, NoJob}

(* Every step keeps EntriesMatch.                                           *)
LEMMA EntriesStep == TypeOK /\ EntriesMatch /\ [Next]_vars => EntriesMatch'
<1> SUFFICES ASSUME TypeOK, EntriesMatch, [Next]_vars PROVE EntriesMatch'
  OBVIOUS
<1> USE ConstantsAssumption DEF TypeOK, EntriesMatch
<1>1. ASSUME NEW j \in Jobs, CreateJob(j) PROVE EntriesMatch'
  BY <1>1 DEF CreateJob, Spawn, SaveRow, VideoIsBusy
<1>2. ASSUME NEW j \in Jobs, StartWithSpec(j) PROVE EntriesMatch'
  BY <1>2 DEF StartWithSpec, Spawn
<1>3. ASSUME NEW j \in Jobs, RetryJob(j) PROVE EntriesMatch'
  BY <1>3 DEF RetryJob, Spawn
<1>4. ASSUME NEW j \in Jobs, CancelJob(j) PROVE EntriesMatch'
  BY <1>4 DEF CancelJob
<1>5. ASSUME NEW c \in Callers, FetchOk(c) PROVE EntriesMatch'
  BY <1>5 DEF FetchOk, Spawn, SaveSnapshot
<1>6. ASSUME NEW t \in Tasks, Execute(t) PROVE EntriesMatch'
  <2>1. CASE Begin(t) \/ NextStep(t) \/ Complete(t) \/ StepFails(t)
    BY <2>1 DEF Begin, NextStep, Complete, StepFails, SaveAssets
  <2>2. CASE StopCanceled(t) \/ Finish(t) \/ CleanUp(t)
    BY <2>2 DEF StopCanceled, Finish, CleanUp, Resumes, Finally, Quit
  <2>3. CASE Skip(t)
    BY <2>3 DEF Skip, Resumes, Quit
  <2>4. CASE Killed(t)
    BY <2>4 DEF Killed, Finally, Quit
  <2>5. QED
    BY <1>6, <2>1, <2>2, <2>3, <2>4 DEF Execute
<1>7. CASE Restart
  BY <1>7 DEF Restart, SaveAssets
<1>8. ASSUME running' = running, job' = job PROVE EntriesMatch'
  BY <1>8
<1>9. QED
  BY <1>1, <1>2, <1>3, <1>4, <1>5, <1>6, <1>7, <1>8
  DEF Next, CreateInternal, StartFetch, FetchFailed, CallbackDelivered, CallbackLost,
      vars, rowVars, taskVars, SaveRow, Fetched

LEMMA EntriesAlways == Spec => []EntriesMatch
<1>1. Init => EntriesMatch
  BY DEF Init, EntriesMatch
<1>2. QED
  BY <1>1, TypeCorrect, EntriesStep, PTL DEF Spec

(* A step leaves no new row in PROCESSING without an executor.              *)
LEMMA OrphanStep ==
  ASSUME TypeOK, EntriesMatch, [Next]_vars, NEW j \in Jobs, Orphan(j)'
  PROVE  Orphan(j) \/ epoch' = 1
<1> USE ConstantsAssumption DEF TypeOK, Orphan, Driven, Live
<1>1. ASSUME NEW i \in Jobs, CreateJob(i) PROVE Orphan(j)
  BY <1>1 DEF CreateJob, SetStatus, Spawn, SaveRow, VideoIsBusy
<1>2. ASSUME NEW i \in Jobs, StartWithSpec(i) PROVE Orphan(j)
  BY <1>2 DEF StartWithSpec, Spawn, rowVars
<1>3. ASSUME NEW i \in Jobs, RetryJob(i) PROVE Orphan(j)
  BY <1>3 DEF RetryJob, SetStatus, Spawn
<1>4. ASSUME NEW i \in Jobs, CancelJob(i) PROVE Orphan(j)
  BY <1>4 DEF CancelJob, SetError, EntriesMatch
<1>5. ASSUME NEW i \in Jobs, NEW c \in Callers, CreateInternal(i, c) PROVE Orphan(j)
  BY <1>5 DEF CreateInternal, SetStatus, taskVars, SaveRow
<1>6. ASSUME NEW c \in Callers, FetchOk(c) PROVE Orphan(j)
  BY <1>6 DEF FetchOk, Spawn, SaveSnapshot
<1>7. ASSUME NEW c \in Callers, FetchFailed(c) PROVE Orphan(j)
  BY <1>7 DEF FetchFailed, SetError, taskVars
<1>8. ASSUME NEW t \in Tasks, Execute(t) PROVE Orphan(j)
  <2>1. CASE Begin(t) \/ NextStep(t)
    BY <2>1 DEF Begin, NextStep, SetStatus, Resumes
  <2>2. CASE Complete(t)
    BY <2>2 DEF Complete, SetStatus, Resumes, SaveAssets
  <2>3. CASE StepFails(t)
    BY <2>3 DEF StepFails, SetError, Resumes
  <2>4. CASE Skip(t)
    BY <2>4 DEF Skip, SetError, Quit, Resumes
  <2>5. CASE StopCanceled(t)
    BY <2>5 DEF StopCanceled, IsCanceled, Quit, Resumes, rowVars
  <2>6. CASE Finish(t) \/ CleanUp(t)
    BY <2>6 DEF Finish, CleanUp, Quit, Resumes, rowVars
  <2>7. CASE Killed(t)
    BY <2>7 DEF Killed, Quit, rowVars
  <2>8. QED
    BY <1>8, <2>1, <2>2, <2>3, <2>4, <2>5, <2>6, <2>7 DEF Execute
<1>9. CASE Restart
  BY <1>9 DEF Restart, SaveAssets
<1>10. ASSUME status' = status, pc' = pc, job' = job, canceled' = canceled PROVE Orphan(j)
  BY <1>10
<1>11. QED
  BY <1>1, <1>2, <1>3, <1>4, <1>5, <1>6, <1>7, <1>8, <1>9, <1>10
  DEF Next, StartFetch, CallbackDelivered, CallbackLost, vars, rowVars, taskVars, Fetched

(* Only a restart of the process leaves a row in PROCESSING without an      *)
(* executor.                                                                *)
THEOREM OrphansSafe == Spec => OnlyRestartOrphans
<1> DEFINE Step == \A j \in Jobs : Orphan(j)' => Orphan(j) \/ epoch' = 1
<1>1. TypeOK /\ EntriesMatch /\ [Next]_vars => [Step]_vars
  BY OrphanStep
<1>2. QED
  BY <1>1, TypeCorrect, EntriesAlways, PTL DEF Spec, OnlyRestartOrphans

-----------------------------------------------------------------------------
(* A step that is not a cancellation of the job leaves an abandoned row     *)
(* with a snapshot as it is.                                                *)
LEMMA AbandonedStep ==
  ASSUME TypeOK, [Next]_vars, NEW j \in Jobs, Abandoned(j), spec[j]
  PROVE  Abandoned(j)' \/ IsCanceled(j)'
<1> USE ConstantsAssumption DEF TypeOK, Abandoned, IsCanceled
<1>1. ASSUME NEW i \in Jobs, CreateJob(i) PROVE Abandoned(j)'
  BY <1>1 DEF CreateJob, SetStatus, Spawn, SaveRow, VideoIsBusy
<1>2. ASSUME NEW i \in Jobs, StartWithSpec(i) PROVE Abandoned(j)'
  BY <1>2 DEF StartWithSpec, Spawn, rowVars
<1>3. ASSUME NEW i \in Jobs, RetryJob(i) PROVE Abandoned(j)'
  BY <1>3 DEF RetryJob, SetStatus, Spawn
<1>4. ASSUME NEW i \in Jobs, CancelJob(i) PROVE Abandoned(j)' \/ IsCanceled(j)'
  BY <1>4 DEF CancelJob, SetError
<1>5. ASSUME NEW i \in Jobs, NEW c \in Callers, CreateInternal(i, c) PROVE Abandoned(j)'
  BY <1>5 DEF CreateInternal, SetStatus, taskVars, SaveRow
<1>6. ASSUME NEW i \in Jobs, NEW c \in Callers, StartFetch(i, c) PROVE Abandoned(j)'
  BY <1>6 DEF StartFetch, rowVars, taskVars
<1>7. ASSUME NEW c \in Callers, FetchOk(c) PROVE Abandoned(j)'
  BY <1>7 DEF FetchOk, Spawn, SaveSnapshot
<1>8. ASSUME NEW c \in Callers, FetchFailed(c) PROVE Abandoned(j)'
  BY <1>8 DEF FetchFailed, SetError, taskVars
<1>9. ASSUME NEW t \in Tasks, Execute(t) PROVE Abandoned(j)'
  <2>1. CASE Begin(t) \/ NextStep(t) \/ Complete(t)
    BY <2>1 DEF Begin, NextStep, Complete, SetStatus, Resumes, SaveAssets
  <2>2. CASE StepFails(t)
    BY <2>2 DEF StepFails, SetError, Resumes
  <2>3. CASE Skip(t)
    BY <2>3 DEF Skip, SetError, Quit, Resumes
  <2>4. CASE StopCanceled(t) \/ Finish(t) \/ CleanUp(t) \/ Killed(t)
    BY <2>4 DEF StopCanceled, Finish, CleanUp, Killed, Quit, rowVars
  <2>5. QED
    BY <1>9, <2>1, <2>2, <2>3, <2>4 DEF Execute
<1>10. CASE Restart
  BY <1>10 DEF Restart, SaveAssets
<1>11. ASSUME status' = status, job' = job, fetching' = fetching PROVE Abandoned(j)'
  BY <1>11
<1>12. QED
  BY <1>1, <1>2, <1>3, <1>4, <1>5, <1>6, <1>7, <1>8, <1>9, <1>10, <1>11
  DEF Next, CallbackDelivered, CallbackLost, vars, rowVars, taskVars, Fetched

(* A row with a snapshot that lost its executor leaves PROCESSING through   *)
(* cancel_job and through nothing else.                                     *)
THEOREM AbandonedSafe == Spec => AbandonedNeedsCancel
<1> DEFINE Step == \A j \in Jobs :
             Abandoned(j) /\ spec[j] => Abandoned(j)' \/ IsCanceled(j)'
<1>1. TypeOK /\ [Next]_vars => [Step]_vars
  BY AbandonedStep
<1>2. QED
  BY <1>1, TypeCorrect, PTL DEF Spec, AbandonedNeedsCancel

-----------------------------------------------------------------------------
(* One executor.  When rows only come from create_job, a job has one task   *)
(* in its life; the row is active as long as that task may still write it,  *)
(* and an active row keeps other jobs of the video out.                     *)

Serial == Api \cap {"internal", "start", "retry"} = {}

(* No start_job call is under way, and no executor needs a snapshot.        *)
ScriptsOnly ==
  /\ \A c \in Callers : fetching[c] = NoJob
  /\ \A t \in Tasks : pc[t] # "done" => kind[t] = "script"

(* The task of a job is its only one, and the job has a row.                *)
OneTask ==
  /\ \A t, u \in Tasks : job[t] = job[u] /\ job[t] # NoJob => t = u
  /\ \A t \in Tasks : job[t] # NoJob => status[job[t]] # "NONE"

OneActive ==
  \A i, j \in Jobs : VideoOf[i] = VideoOf[j] /\ IsActive(i) /\ IsActive(j) => i = j

(* What a task that may still write knows about its row.                    *)
Knows(t, j) ==
  /\ running[j] = t
  /\ pc[t] = "new" => status[j] = "QUEUED"
  /\ pc[t] = "running" => status[j] = "PROCESSING" /\ progress[j] <= at[t]

LiveKnows == \A t \in Tasks, j \in Jobs : Live(t, j) => Knows(t, j)

SerialInv == ScriptsOnly /\ OneTask /\ OneActive /\ LiveKnows

(* A task that resumes before its last write is live; its row is neither    *)
(* canceled nor anybody else's.                                             *)
LEMMA ResumesLive ==
  ASSUME TypeOK, SerialInv, NEW t \in Tasks, Resumes(t, "new") \/ Resumes(t, "running")
  PROVE  /\ job[t] \in Jobs /\ Live(t, job[t]) /\ Knows(t, job[t])
         /\ ~IsCanceled(job[t]) /\ kind[t] = "script" /\ IsActive(job[t])
         /\ \A u \in Tasks \ {t} : job[u] # job[t]
BY DEF TypeOK, PCs, SerialInv, ScriptsOnly, OneTask, LiveKnows, Knows, Live, Resumes, IsCanceled,
       IsActive

(* Only five operations and the steps of executors are left.                *)
LEMMA SerialCases ==
  ASSUME Serial, TypeOK, SerialInv, [Next]_vars
  PROVE  \/ \E j \in Jobs : CreateJob(j) \/ CancelJob(j)
         \/ \E t \in Tasks : Begin(t) \/ NextStep(t) \/ Complete(t) \/ StepFails(t)
                               \/ Finish(t) \/ CleanUp(t) \/ Killed(t)
         \/ Restart
         \/ UNCHANGED <<rowVars, running, taskVars, fetching>>
<1>1. ASSUME NEW j \in Jobs, NEW c \in Callers
      PROVE  ~StartWithSpec(j) /\ ~RetryJob(j) /\ ~CreateInternal(j, c) /\ ~StartFetch(j, c)
  BY DEF Serial, StartWithSpec, RetryJob, CreateInternal, StartFetch
<1>2. ASSUME NEW j \in Jobs PROVE ~StartWithSpec(j) /\ ~RetryJob(j)
  BY DEF Serial, StartWithSpec, RetryJob
<1>3. ASSUME NEW c \in Callers PROVE ~Fetched(c)
  BY DEF SerialInv, ScriptsOnly, Fetched, FetchOk, FetchFailed
<1>4. ASSUME NEW t \in Tasks PROVE ~Skip(t) /\ ~StopCanceled(t)
  BY ResumesLive DEF Skip, StopCanceled
<1>5. ASSUME NEW j \in Jobs, CallbackDelivered(j) \/ CallbackLost(j)
      PROVE  UNCHANGED <<rowVars, running, taskVars, fetching>>
  BY <1>5 DEF CallbackDelivered, CallbackLost
<1>6. QED
  BY <1>1, <1>2, <1>3, <1>4, <1>5 DEF Next, Execute, vars

LEMMA SerialStep ==
  ASSUME Serial, TypeOK, SerialInv, [Next]_vars
  PROVE  SerialInv'
<1> USE ConstantsAssumption DEF TypeOK
<1>1. ASSUME NEW j \in Jobs, CreateJob(j) PROVE SerialInv'
  <2>1. PICK t \in Tasks : Spawn(t, j, "script")
    BY <1>1 DEF CreateJob
  <2>2. /\ status[j] = "NONE"
        /\ status' = [status EXCEPT ![j] = "QUEUED"]
        /\ progress' = [progress EXCEPT ![j] = 0]
        /\ UNCHANGED fetching
        /\ \A i \in Jobs : VideoOf[i] = VideoOf[j] => ~IsActive(i)
    BY <1>1 DEF CreateJob, SaveRow, SetStatus, VideoIsBusy
  <2>3. ScriptsOnly'
    BY <2>1, <2>2 DEF SerialInv, ScriptsOnly, Spawn
  <2>4. OneTask'
    BY <2>1, <2>2 DEF SerialInv, OneTask, Spawn
  <2>5. OneActive'
    BY <2>2 DEF SerialInv, OneActive, IsActive
  <2>6. ASSUME NEW u \in Tasks, NEW i \in Jobs, Live(u, i)' PROVE Knows(u, i)'
    <3>1. CASE u = t
      BY <2>1, <2>2, <2>6, <3>1 DEF Live, Knows, Spawn
    <3>2. CASE u # t
      <4>1. Live(u, i) /\ i # j
        BY <2>1, <2>2, <2>6, <3>2 DEF SerialInv, OneTask, Live, Spawn
      <4>2. QED
        BY <2>1, <2>2, <3>2, <4>1 DEF SerialInv, LiveKnows, Knows, Spawn
    <3>3. QED
      BY <3>1, <3>2
  <2>7. QED
    BY <2>3, <2>4, <2>5, <2>6 DEF SerialInv, LiveKnows
<1>2. ASSUME NEW j \in Jobs, CancelJob(j) PROVE SerialInv'
  <2>1. ScriptsOnly' /\ OneTask' /\ OneActive'
    BY <1>2 DEF CancelJob, SetError, SerialInv, ScriptsOnly, OneTask, OneActive, IsActive
  <2>2. ASSUME NEW u \in Tasks, NEW i \in Jobs, Live(u, i)' PROVE Knows(u, i)'
    <3>1. Live(u, i) /\ Knows(u, i)
      BY <1>2, <2>2 DEF CancelJob, Live, SerialInv, LiveKnows
    <3>2. i # j
      BY <1>2, <2>2, <3>1 DEF CancelJob, Live, Knows
    <3>3. QED
      BY <1>2, <3>1, <3>2 DEF CancelJob, SetError, Knows
  <2>3. QED
    BY <2>1, <2>2 DEF SerialInv, LiveKnows
<1>3. ASSUME NEW t \in Tasks, Begin(t) \/ NextStep(t) PROVE SerialInv'
  <2>1. /\ job[t] \in Jobs /\ Live(t, job[t]) /\ Knows(t, job[t]) /\ IsActive(job[t])
        /\ \A u \in Tasks \ {t} : job[u] # job[t]
    BY <1>3, ResumesLive DEF Begin, NextStep
  <2>2. ScriptsOnly' /\ OneTask' /\ OneActive'
    BY <1>3, <2>1 DEF Begin, NextStep, SetStatus, Resumes, SerialInv, ScriptsOnly, OneTask,
                      OneActive, IsActive
  <2>3. ASSUME NEW u \in Tasks, NEW i \in Jobs, Live(u, i)' PROVE Knows(u, i)'
    <3>1. Live(u, i) /\ Knows(u, i)
      BY <1>3, <2>1, <2>3 DEF Begin, NextStep, Resumes, Live, SerialInv, LiveKnows
    <3>2. CASE u = t
      BY <1>3, <2>1, <3>1, <3>2 DEF Begin, NextStep, SetStatus, Resumes, Live, Knows
    <3>3. CASE u # t
      BY <1>3, <2>1, <3>1, <3>3 DEF Begin, NextStep, SetStatus, Live, Knows
    <3>4. QED
      BY <3>2, <3>3
  <2>4. QED
    BY <2>2, <2>3 DEF SerialInv, LiveKnows
<1>4. ASSUME NEW t \in Tasks, Complete(t) \/ StepFails(t) PROVE SerialInv'
  <2>1. /\ job[t] \in Jobs /\ IsActive(job[t])
        /\ \A u \in Tasks \ {t} : job[u] # job[t]
    BY <1>4, ResumesLive DEF Complete, StepFails
  <2>2. ScriptsOnly' /\ OneTask' /\ OneActive'
    BY <1>4, <2>1 DEF Complete, StepFails, SetStatus, SetError, Resumes, SerialInv, ScriptsOnly,
                      OneTask, OneActive, IsActive
  <2>3. ASSUME NEW u \in Tasks, NEW i \in Jobs, Live(u, i)' PROVE Knows(u, i)'
    <3>1. Live(u, i) /\ Knows(u, i) /\ u # t
      BY <1>4, <2>3 DEF Complete, StepFails, Live, SerialInv, LiveKnows
    <3>2. QED
      BY <1>4, <2>1, <3>1 DEF Complete, StepFails, SetStatus, SetError, Live, Knows
  <2>4. QED
    BY <2>2, <2>3 DEF SerialInv, LiveKnows
<1>5. ASSUME NEW t \in Tasks, Finish(t) \/ CleanUp(t) \/ Killed(t) PROVE SerialInv'
  <2>1. /\ pc[t] # "done" /\ job[t] \in Jobs /\ ~Live(t, job[t])
        /\ Quit(t) /\ (Finally(t) \/ UNCHANGED running)
        /\ UNCHANGED <<rowVars, fetching>>
    BY <1>5 DEF Finish, CleanUp, Killed, Resumes, Live, PCs
  <2>2. ScriptsOnly' /\ OneTask' /\ OneActive'
    BY <2>1 DEF Quit, rowVars, SerialInv, ScriptsOnly, OneTask, OneActive, IsActive
  <2>3. ASSUME NEW u \in Tasks, NEW i \in Jobs, Live(u, i)' PROVE Knows(u, i)'
    <3>1. Live(u, i) /\ Knows(u, i) /\ u # t
      BY <2>1, <2>3 DEF Quit, Live, SerialInv, LiveKnows
    <3>2. i # job[t]
      BY <2>1, <3>1 DEF Live, SerialInv, OneTask
    <3>3. QED
      BY <2>1, <3>1, <3>2 DEF Quit, Finally, rowVars, Knows
  <2>4. QED
    BY <2>2, <2>3 DEF SerialInv, LiveKnows
<1>6. CASE Restart
  BY <1>6 DEF Restart, SerialInv, ScriptsOnly, OneTask, OneActive, LiveKnows, Live, IsActive
<1>7. CASE UNCHANGED <<rowVars, running, taskVars, fetching>>
  BY <1>7 DEF rowVars, taskVars, SerialInv, ScriptsOnly, OneTask, OneActive, LiveKnows, Live,
              Knows, IsActive
<1>8. QED
  BY <1>1, <1>2, <1>3, <1>4, <1>5, <1>6, <1>7, SerialCases

LEMMA SerialAlways == ASSUME Serial PROVE Spec => []SerialInv
<1>1. Init => SerialInv
  BY ConstantsAssumption
  DEF Init, SerialInv, ScriptsOnly, OneTask, OneActive, LiveKnows, Live, IsActive
<1>2. TypeOK /\ SerialInv /\ [Next]_vars => SerialInv'
  BY SerialStep
<1>3. QED
  BY <1>1, <1>2, TypeCorrect, PTL DEF Spec

(* Two executors never write the rows of one video, however creation,       *)
(* cancellation, failures and restarts interleave.                          *)
THEOREM OneExecutorSafe == ASSUME Serial PROVE Spec => []OneExecutorPerVideo
<1>1. SerialInv => OneExecutorPerVideo
  <2> SUFFICES ASSUME SerialInv, NEW t \in Tasks, NEW u \in Tasks, NEW i \in Jobs, NEW j \in Jobs,
                      Live(t, i), Live(u, j), VideoOf[i] = VideoOf[j]
               PROVE  t = u
    BY DEF OneExecutorPerVideo
  <2>1. IsActive(i) /\ IsActive(j) /\ running[i] = t /\ running[j] = u
    BY DEF SerialInv, LiveKnows, Knows, Live, IsActive
  <2>2. QED
    BY <2>1 DEF SerialInv, OneActive
<1>2. QED
  BY <1>1, SerialAlways, PTL

(* cancel_job finds the executor of every active job in _running_jobs.      *)
THEOREM CancelReachesSafe == ASSUME Serial PROVE Spec => []CancelReachesExecutor
<1>1. SerialInv => CancelReachesExecutor
  BY DEF SerialInv, LiveKnows, Knows, CancelReachesExecutor
<1>2. QED
  BY <1>1, SerialAlways, PTL

(* Progress only grows while a job is rendered.                             *)
LEMMA ProgressStep ==
  ASSUME Serial, TypeOK, SerialInv, [Next]_vars, NEW j \in Jobs,
         status[j] = "PROCESSING", status'[j] \in {"PROCESSING", "COMPLETED"}
  PROVE  progress'[j] >= progress[j]
<1> USE ConstantsAssumption DEF TypeOK
<1>1. ASSUME NEW i \in Jobs, CreateJob(i) \/ CancelJob(i) PROVE progress'[j] >= progress[j]
  BY <1>1 DEF CreateJob, SaveRow, SetStatus, CancelJob
<1>2. ASSUME NEW t \in Tasks, Begin(t) \/ NextStep(t) \/ Complete(t)
      PROVE  progress'[j] >= progress[j]
  <2>1. job[t] \in Jobs /\ Knows(t, job[t])
    BY <1>2, ResumesLive DEF Begin, NextStep, Complete
  <2>2. CASE Begin(t)
    BY <2>1, <2>2 DEF Begin, SetStatus, Resumes, Knows
  <2>3. CASE NextStep(t)
    BY <2>1, <2>3 DEF NextStep, SetStatus, Resumes, Knows
  <2>4. CASE Complete(t)
    BY <2>1, <2>4 DEF Complete, SetStatus
  <2>5. QED
    BY <1>2, <2>2, <2>3, <2>4
<1>3. ASSUME UNCHANGED progress PROVE progress'[j] >= progress[j]
  BY <1>3
<1>4. QED
  BY <1>1, <1>2, <1>3, SerialCases
  DEF StepFails, Finish, CleanUp, Killed, Restart, rowVars

(* Clients never see the progress of a job go back while it is rendered.    *)
THEOREM ProgressSafe == ASSUME Serial PROVE Spec => ProgressNeverRegresses
<1> DEFINE Step == \A j \in Jobs :
             status[j] = "PROCESSING" /\ status'[j] \in {"PROCESSING", "COMPLETED"}
               => progress'[j] >= progress[j]
<1>1. TypeOK /\ SerialInv /\ [Next]_vars => [Step]_vars
  BY ProgressStep
<1>2. QED
  BY <1>1, TypeCorrect, SerialAlways, PTL DEF Spec, ProgressNeverRegresses

-----------------------------------------------------------------------------
(* The refinement.  With creation and cancellation alone every step of the  *)
(* runner is a step of the life cycle or none.                              *)

Rendering == {j \in Jobs : \E t \in Tasks : Live(t, j)}

LEMMA RefinementStep ==
  ASSUME Api \subseteq {"create", "cancel"}, TypeOK, EntriesMatch, SerialInv, [Next]_vars
  PROVE  [Lifecycle!Next]_(Lifecycle!avars)
<1> USE ConstantsAssumption DEF TypeOK
<1>1. ASSUME NEW j \in Jobs, CreateJob(j) PROVE Lifecycle!Accept(j)
  <2>1. PICK t \in Tasks : Spawn(t, j, "script")
    BY <1>1 DEF CreateJob
  <2>2. /\ status[j] = "NONE"
        /\ status' = [status EXCEPT ![j] = "QUEUED"]
        /\ \A i \in Jobs : VideoOf[i] = VideoOf[j] => ~IsActive(i)
    BY <1>1 DEF CreateJob, SaveRow, SetStatus, VideoIsBusy
  <2>3. \A i \in Jobs : VideoOf[i] = VideoOf[j] => i \notin Rendering
    BY <2>2 DEF Rendering, SerialInv, LiveKnows, Knows, Live, IsActive
  <2>4. Rendering' = Rendering \cup {j}
    BY <2>1 DEF Rendering, Live, Spawn
  <2>5. QED
    BY <2>2, <2>3, <2>4 DEF Lifecycle!Accept, Lifecycle!Active, Rendering, IsActive
<1>2. ASSUME NEW j \in Jobs, CancelJob(j) PROVE Lifecycle!Cancel(j)
  <2>1. \A t \in Tasks, i \in Jobs : Live(t, i)' <=> Live(t, i) /\ i # j
    <3> SUFFICES ASSUME NEW t \in Tasks, NEW i \in Jobs
                 PROVE  Live(t, i)' <=> Live(t, i) /\ i # j
      OBVIOUS
    <3>1. Live(t, i)' => Live(t, i)
      BY <1>2 DEF CancelJob, Live
    <3>2. Live(t, i) => running[i] = t /\ pc[t] # "done"
      BY DEF Live, SerialInv, LiveKnows, Knows
    <3>3. ASSUME Live(t, i), i = j PROVE ~Live(t, i)'
      BY <1>2, <3>2, <3>3 DEF CancelJob, Live
    <3>4. ASSUME Live(t, i), i # j PROVE Live(t, i)'
      <4>1. job[t] = i /\ running[j] # t
        BY <3>4 DEF Live, EntriesMatch
      <4>2. QED
        BY <1>2, <3>4, <4>1 DEF CancelJob, Live
    <3>5. QED
      BY <3>1, <3>3, <3>4
  <2>2. Rendering' = Rendering \ {j}
    BY <2>1 DEF Rendering
  <2>3. QED
    BY <1>2, <2>2 DEF CancelJob, SetError, IsActive, Lifecycle!Cancel, Lifecycle!Active, Rendering
<1>3. ASSUME NEW t \in Tasks, Begin(t) \/ NextStep(t)
      PROVE  Lifecycle!Start(job[t]) \/ UNCHANGED Lifecycle!avars
  <2>1. job[t] \in Jobs /\ Live(t, job[t]) /\ Knows(t, job[t])
    BY <1>3, ResumesLive DEF Begin, NextStep
  <2>2. \A u \in Tasks, i \in Jobs : Live(u, i)' <=> Live(u, i)
    BY <1>3 DEF Begin, NextStep, Resumes, Live
  <2>3. Rendering' = Rendering /\ job[t] \in Rendering
    BY <2>1, <2>2 DEF Rendering
  <2>4. CASE Begin(t)
    <3>1. status[job[t]] = "QUEUED" /\ status' = [status EXCEPT ![job[t]] = "PROCESSING"]
      BY <2>1, <2>4 DEF Begin, SetStatus, Resumes, Knows
    <3>2. QED
      BY <2>3, <3>1 DEF Lifecycle!Start, Rendering
  <2>5. CASE NextStep(t)
    <3>1. status' = status
      BY <2>1, <2>5 DEF NextStep, SetStatus, Resumes, Knows
    <3>2. QED
      BY <2>3, <3>1 DEF Lifecycle!avars, Rendering
  <2>6. QED
    BY <1>3, <2>4, <2>5
<1>4. ASSUME NEW t \in Tasks, Complete(t) \/ StepFails(t) PROVE Lifecycle!End(job[t])
  <2>1. /\ job[t] \in Jobs /\ Live(t, job[t]) /\ Knows(t, job[t])
        /\ \A u \in Tasks \ {t} : job[u] # job[t]
    BY <1>4, ResumesLive DEF Complete, StepFails
  <2>2. \A u \in Tasks, i \in Jobs : Live(u, i)' <=> Live(u, i) /\ i # job[t]
    BY <1>4, <2>1 DEF Complete, StepFails, Live
  <2>3. Rendering' = Rendering \ {job[t]} /\ job[t] \in Rendering
    BY <2>1, <2>2 DEF Rendering
  <2>4. status[job[t]] = "PROCESSING"
    BY <1>4, <2>1 DEF Complete, StepFails, Resumes, Knows
  <2>5. \E p \in {"COMPLETED", "FAILED"} : status' = [status EXCEPT ![job[t]] = p]
    BY <1>4 DEF Complete, StepFails, SetStatus, SetError
  <2>6. QED
    BY <2>3, <2>4, <2>5 DEF Lifecycle!End, Rendering
<1>5. ASSUME NEW t \in Tasks, Finish(t) \/ CleanUp(t) \/ Killed(t)
      PROVE  UNCHANGED Lifecycle!avars
  <2>1. Quit(t) /\ UNCHANGED status /\ \A i \in Jobs : ~Live(t, i)
    BY <1>5 DEF Finish, CleanUp, Killed, Resumes, Live, rowVars
  <2>2. \A u \in Tasks, i \in Jobs : Live(u, i)' <=> Live(u, i)
    BY <2>1 DEF Quit, Live
  <2>3. Rendering' = Rendering
    BY <2>2 DEF Rendering
  <2>4. QED
    BY <2>1, <2>3 DEF Lifecycle!avars, Rendering
<1>6. ~Restart
  BY DEF Restart
<1>7. CASE UNCHANGED <<rowVars, running, taskVars, fetching>>
  <2>1. UNCHANGED status /\ \A u \in Tasks, i \in Jobs : Live(u, i)' <=> Live(u, i)
    BY <1>7 DEF rowVars, taskVars, Live
  <2>2. Rendering' = Rendering
    BY <2>1 DEF Rendering
  <2>3. QED
    BY <2>1, <2>2 DEF Lifecycle!avars, Rendering
<1>8. Serial
  BY DEF Serial
<1>9. \A t \in Tasks : Begin(t) \/ NextStep(t) \/ Complete(t) \/ StepFails(t) => job[t] \in Jobs
  BY ResumesLive DEF Begin, NextStep, Complete, StepFails
<1>10. QED
  BY <1>1, <1>2, <1>3, <1>4, <1>5, <1>6, <1>7, <1>8, <1>9, SerialCases DEF Lifecycle!Next

(* The runner implements the life cycle its documentation draws.            *)
THEOREM LifecycleImplemented ==
  ASSUME Api \subseteq {"create", "cancel"}
  PROVE  Spec => ImplementsLifecycle
<1>1. Serial
  BY DEF Serial
<1>2. Init => Lifecycle!Init
  <2>1. Init => \A t \in Tasks, j \in Jobs : ~Live(t, j)
    BY ConstantsAssumption DEF Init, Live
  <2>2. QED
    BY <2>1 DEF Init, Lifecycle!Init
<1>3. TypeOK /\ EntriesMatch /\ SerialInv /\ [Next]_vars => [Lifecycle!Next]_(Lifecycle!avars)
  BY RefinementStep
<1>4. Spec => []SerialInv
  BY <1>1, SerialAlways
<1>5. QED
  BY <1>2, <1>3, <1>4, TypeCorrect, EntriesAlways, PTL DEF Spec, ImplementsLifecycle, Lifecycle!Spec

-----------------------------------------------------------------------------
(* The pipeline: every behaviour of it is one of the runner's.              *)

(* A step of the pipeline is a step of the runner or leaves it alone. *)
LEMMA RunnerStep == [PipelineNext]_allVars => [Next]_vars
<1> SUFFICES ASSUME [PipelineNext]_allVars PROVE [Next]_vars
  OBVIOUS
<1>1. CASE Requests
  BY <1>1 DEF Requests, Next, Fetched
<1>2. ASSUME NEW j \in Jobs, Cancel(j) PROVE [Next]_vars
  BY <1>2 DEF Cancel, Next
<1>3. ASSUME NEW t \in Tasks, Run(t) PROVE [Next]_vars
  <2>1. CASE StartJob(t) \/ StartStep(t) \/ CompleteJob(t) \/ FailJob(t)
    BY <2>1 DEF StartJob, StartStep, CompleteJob, FailJob, Next, Execute
  <2>2. CASE CleanUpJob(t) \/ EndJob(t) \/ KillJob(t)
    BY <2>2 DEF CleanUpJob, EndJob, KillJob, Next, Execute
  <2>3. CASE RaiseInStep(t)
    BY <2>3 DEF RaiseInStep
  <2>4. CASE RenderMvp(t)
    BY <2>4 DEF RenderMvp, ValidateScript, GenerateTts, GenerateSubtitle, RenderSlides,
                ComposeVideo, UploadAssets, Finalize, StepDone
  <2>5. CASE RenderReal(t)
    BY <2>5 DEF RenderReal, RealValidateScript, RealGenerateTts, RealGenerateSubtitle,
                RealRenderSlides, RealComposeVideo, RealUploadAssets, PutObject,
                RequestPresign, UploadToPresignedUrl, NotifyComplete, TryAgain,
                RealFinalize, LeaveFinalize, StepDone
  <2>6. QED
    BY <1>3, <2>1, <2>2, <2>3, <2>4, <2>5 DEF Run
<1>4. CASE Hub
  BY <1>4 DEF Hub
<1>5. CASE RestartPipeline
  BY <1>5 DEF RestartPipeline, Next
<1>6. CASE UNCHANGED allVars
  BY <1>6 DEF allVars
<1>7. QED
  BY <1>1, <1>2, <1>3, <1>4, <1>5, <1>6 DEF PipelineNext

(* The composition implements the job runner: whatever is proved of the     *)
(* runner alone holds beside renderers, storages and sockets.               *)
THEOREM PipelineImplementsRunner == PipelineSpec => Spec
<1>1. PipelineInit => Init
  BY DEF PipelineInit
<1>2. QED
  BY <1>1, RunnerStep, PTL DEF PipelineSpec, Spec

-----------------------------------------------------------------------------
(* The hub. *)

HubTables ==
  /\ link \in [Sockets -> {"none", "accepting", "open", "gone"}]
  /\ wanted \in [Sockets -> Jobs \cup {NoJob}]
  /\ filter \in [Sockets -> Jobs \cup {NoJob}]
  /\ members \subseteq Sockets

(* Only sockets and a restart touch the tables; the runner's steps announce. *)
LEMMA TablesKept ==
  [PipelineNext]_allVars =>
    Hub \/ RestartPipeline \/ UNCHANGED <<link, wanted, members, filter, seen>>
<1> SUFFICES ASSUME [PipelineNext]_allVars
             PROVE  Hub \/ RestartPipeline
                      \/ UNCHANGED <<link, wanted, members, filter, seen>>
  OBVIOUS
<1>1. CASE Requests
  BY <1>1 DEF Requests, hubVars
<1>2. ASSUME NEW j \in Jobs, Cancel(j)
      PROVE  UNCHANGED <<link, wanted, members, filter, seen>>
  BY <1>2 DEF Cancel
<1>3. ASSUME NEW t \in Tasks, Run(t)
      PROVE  UNCHANGED <<link, wanted, members, filter, seen>>
  <2>1. CASE StartJob(t) \/ StartStep(t) \/ CompleteJob(t) \/ FailJob(t)
    BY <2>1 DEF StartJob, StartStep, CompleteJob, FailJob, Reports
  <2>2. CASE CleanUpJob(t) \/ EndJob(t) \/ KillJob(t)
    BY <2>2 DEF CleanUpJob, EndJob, KillJob, hubVars
  <2>3. CASE RaiseInStep(t)
    BY <2>3 DEF RaiseInStep, Reports, hubVars
  <2>4. CASE RenderMvp(t)
    BY <2>4 DEF RenderMvp, ValidateScript, GenerateTts, GenerateSubtitle, RenderSlides,
                ComposeVideo, UploadAssets, Finalize, hubVars
  <2>5. CASE RenderReal(t)
    BY <2>5 DEF RenderReal, RealValidateScript, RealGenerateTts, RealGenerateSubtitle,
                RealRenderSlides, RealComposeVideo, RealUploadAssets, PutObject,
                RequestPresign, UploadToPresignedUrl, NotifyComplete, TryAgain,
                RealFinalize, LeaveFinalize, Reports, hubVars
  <2>6. QED
    BY <1>3, <2>1, <2>2, <2>3, <2>4, <2>5 DEF Run
<1>4. CASE UNCHANGED allVars
  BY <1>4 DEF allVars, hubVars
<1>5. QED
  BY <1>1, <1>2, <1>3, <1>4 DEF PipelineNext

LEMMA TablesStep ==
  HubTables /\ ClosedIsForgotten /\ [PipelineNext]_allVars =>
    HubTables' /\ ClosedIsForgotten'
<1> SUFFICES ASSUME HubTables, ClosedIsForgotten, [PipelineNext]_allVars
             PROVE  HubTables' /\ ClosedIsForgotten'
  OBVIOUS
<1> USE DEF HubTables, ClosedIsForgotten
<1>1. ASSUME NEW p \in Producers, NEW w \in Sockets, SendTo(p, w)
      PROVE  HubTables' /\ ClosedIsForgotten'
  BY <1>1 DEF SendTo, Unregister
<1>2. ASSUME NEW w \in Sockets, Open(w) PROVE HubTables' /\ ClosedIsForgotten'
  BY <1>2 DEF Open
<1>3. ASSUME NEW w \in Sockets, Accept(w) PROVE HubTables' /\ ClosedIsForgotten'
  BY <1>3 DEF Accept, Closes, Unregister
<1>4. ASSUME NEW w \in Sockets, Leave(w) PROVE HubTables' /\ ClosedIsForgotten'
  BY <1>4 DEF Leave
<1>5. ASSUME NEW w \in Sockets, Disconnect(w) PROVE HubTables' /\ ClosedIsForgotten'
  BY <1>5 DEF Disconnect, Closes, Unregister
<1>6. CASE RestartPipeline
  BY <1>6 DEF RestartPipeline
<1>7. CASE UNCHANGED <<link, wanted, members, filter, seen>>
  BY <1>7
<1>8. QED
  BY <1>1, <1>2, <1>3, <1>4, <1>5, <1>6, <1>7, TablesKept DEF Hub, HubNext

(* A closed socket is in no table, whatever broadcasts were under way while *)
(* it closed (disconnect, broadcast).                                       *)
THEOREM ForgottenSafe == PipelineSpec => []ClosedIsForgotten
<1>1. PipelineInit => HubTables /\ ClosedIsForgotten
  BY DEF PipelineInit, HubInit, HubTables, ClosedIsForgotten
<1>2. QED
  BY <1>1, TablesStep, PTL DEF PipelineSpec

-----------------------------------------------------------------------------
(* What a client was told. *)

SeenTables ==
  /\ cast \in [Producers -> Casts]
  /\ members \subseteq Sockets
  /\ seen \in [Sockets -> [Jobs -> Events \cup {"none"}]]
  /\ \A p \in Producers : cast[p].left # {} => cast[p].job \in Jobs

(* The MVP's COMPLETED is announced with the files recorded, and the        *)
(* broadcasts still under way carry nothing else.                           *)
SeenInv ==
  ~Uploading =>
    /\ \A p \in Producers :
         cast[p].left # {} /\ cast[p].event = "COMPLETED" => assets[cast[p].job]
    /\ CompletedSeenIsRecorded

(* Recorded files stay recorded. *)
LEMMA AssetsKept ==
  TypeOK /\ [Next]_vars => \A j \in Jobs : assets[j] => assets'[j]
<1> SUFFICES ASSUME TypeOK, [Next]_vars, NEW j \in Jobs, assets[j]
             PROVE  assets'[j]
  OBVIOUS
<1> USE DEF TypeOK
<1>1. CASE Restart
  BY <1>1 DEF Restart, SaveAssets
<1>2. ASSUME NEW t \in Tasks, Complete(t) PROVE assets'[j]
  BY <1>2 DEF Complete, SaveAssets
<1>3. ASSUME NEW t \in Tasks, Execute(t), ~Complete(t) PROVE assets' = assets
  BY <1>3 DEF Execute, Begin, Skip, NextStep, StopCanceled, Finish, StepFails, CleanUp,
              Killed, rowVars
<1>4. ASSUME NEW i \in Jobs,
             CreateJob(i) \/ StartWithSpec(i) \/ RetryJob(i) \/ CancelJob(i)
      PROVE  assets' = assets
  BY <1>4 DEF CreateJob, StartWithSpec, RetryJob, CancelJob, rowVars
<1>5. ASSUME NEW i \in Jobs, CallbackDelivered(i) \/ CallbackLost(i)
      PROVE  assets' = assets
  BY <1>5 DEF CallbackDelivered, CallbackLost, rowVars
<1>6. ASSUME NEW i \in Jobs, NEW c \in Callers, CreateInternal(i, c) \/ StartFetch(i, c)
      PROVE  assets' = assets
  BY <1>6 DEF CreateInternal, StartFetch, rowVars
<1>7. ASSUME NEW c \in Callers, Fetched(c) PROVE assets' = assets
  BY <1>7 DEF Fetched, FetchOk, FetchFailed
<1>8. CASE UNCHANGED vars
  BY <1>8 DEF vars, rowVars
<1>9. QED
  BY <1>1, <1>2, <1>3, <1>4, <1>5, <1>6, <1>7, <1>8 DEF Next

(* The configuration is fixed. *)
LEMMA SetupKept == [PipelineNext]_allVars => setup' = setup
<1> SUFFICES ASSUME [PipelineNext]_allVars PROVE setup' = setup
  OBVIOUS
<1>1. ASSUME NEW t \in Tasks, Run(t) PROVE setup' = setup
  <2>1. CASE StartJob(t) \/ StartStep(t) \/ CompleteJob(t) \/ FailJob(t)
    BY <2>1 DEF StartJob, StartStep, CompleteJob, FailJob
  <2>2. CASE CleanUpJob(t) \/ EndJob(t) \/ KillJob(t) \/ RaiseInStep(t)
    BY <2>2 DEF CleanUpJob, EndJob, KillJob, RaiseInStep
  <2>3. CASE RenderMvp(t)
    BY <2>3 DEF RenderMvp, ValidateScript, GenerateTts, GenerateSubtitle, RenderSlides,
                ComposeVideo, UploadAssets, Finalize, StepDone
  <2>4. CASE RenderReal(t)
    BY <2>4 DEF RenderReal, RealValidateScript, RealGenerateTts, RealGenerateSubtitle,
                RealRenderSlides, RealComposeVideo, RealUploadAssets, PutObject,
                RequestPresign, UploadToPresignedUrl, NotifyComplete, TryAgain,
                RealFinalize, LeaveFinalize, StepDone
  <2>5. QED
    BY <1>1, <2>1, <2>2, <2>3, <2>4 DEF Run
<1>2. QED
  BY <1>1 DEF PipelineNext, Requests, Cancel, Hub, RestartPipeline, allVars

(* A producer announces an event of a job, and of COMPLETED only what the   *)
(* row holds.                                                               *)
Announces ==
  /\ UNCHANGED seen
  /\ \E p \in Producers :
       \/ cast' = [cast EXCEPT ![p] = Silent]
       \/ \E j \in Jobs, e \in Events :
            /\ cast' = [cast EXCEPT ![p] = Announcement(j, e)]
            /\ e = "COMPLETED" /\ ~Uploading => assets'[j]

LEMMA AnnouncesOnly ==
  TypeOK /\ [PipelineNext]_allVars =>
    Hub \/ RestartPipeline \/ UNCHANGED <<cast, seen>> \/ Announces
<1> SUFFICES ASSUME TypeOK, [PipelineNext]_allVars
             PROVE  Hub \/ RestartPipeline \/ UNCHANGED <<cast, seen>> \/ Announces
  OBVIOUS
<1> USE DEF Producers, Events
<1>1. CASE Requests
  BY <1>1 DEF Requests, hubVars
<1>2. ASSUME NEW j \in Jobs, Cancel(j) PROVE Announces
  BY <1>2 DEF Cancel, Announces, Announce
<1>3. ASSUME NEW t \in Tasks, Run(t) PROVE UNCHANGED <<cast, seen>> \/ Announces
  <2>1. ASSUME pc[t] # "done" PROVE job[t] \in Jobs
    BY <2>1 DEF TypeOK
  <2>2. CASE StartJob(t) \/ StartStep(t) \/ FailJob(t)
    <3>1. job[t] \in Jobs
      BY <2>1, <2>2 DEF StartJob, Begin, StartStep, NextStep, FailJob, StepFails, Resumes
    <3>2. QED
      BY <2>2, <3>1 DEF StartJob, StartStep, FailJob, Reports, Announce, Announces
  <2>3. CASE CompleteJob(t)
    <3>1. job[t] \in Jobs /\ assets'[job[t]]
      BY <2>1, <2>3 DEF CompleteJob, Complete, Resumes, SaveAssets, TypeOK
    <3>2. QED
      BY <2>3, <3>1 DEF CompleteJob, Reports, Announce, Announces
  <2>4. CASE CleanUpJob(t) \/ EndJob(t)
    BY <2>4 DEF CleanUpJob, EndJob, hubVars
  <2>5. CASE KillJob(t)
    BY <2>5 DEF KillJob, Announces
  <2>6. CASE RaiseInStep(t)
    BY <2>1, <2>6 DEF RaiseInStep, Reports, Announce, Announces, Resumes, hubVars
  <2>7. CASE RenderMvp(t)
    BY <2>7 DEF RenderMvp, ValidateScript, GenerateTts, GenerateSubtitle, RenderSlides,
                ComposeVideo, UploadAssets, Finalize, hubVars
  <2>8. CASE RealFinalize(t)
    BY <2>1, <2>8 DEF RealFinalize, InStep, Uploading, Resumes, Reports, Announce, Announces
  <2>9. CASE LeaveFinalize(t)
    BY <2>1, <2>9 DEF LeaveFinalize, Resumes, Reports, Announce, Announces
  <2>10. CASE RenderReal(t) /\ ~RealFinalize(t) /\ ~LeaveFinalize(t)
    BY <2>10 DEF RenderReal, RealValidateScript, RealGenerateTts, RealGenerateSubtitle,
                RealRenderSlides, RealComposeVideo, RealUploadAssets, PutObject,
                RequestPresign, UploadToPresignedUrl, NotifyComplete, TryAgain, hubVars
  <2>11. QED
    BY <1>3, <2>2, <2>3, <2>4, <2>5, <2>6, <2>7, <2>8, <2>9, <2>10 DEF Run
<1>4. CASE UNCHANGED allVars
  BY <1>4 DEF allVars, hubVars
<1>5. QED
  BY <1>1, <1>2, <1>3, <1>4 DEF PipelineNext

SeenOK == SeenTables /\ SeenInv

LEMMA AnnouncedStep ==
  ASSUME SeenOK, Announces, Uploading' = Uploading,
         \A j \in Jobs : assets[j] => assets'[j], members' \subseteq Sockets
  PROVE  SeenOK'
<1> USE DEF SeenOK, SeenTables, SeenInv, CompletedSeenIsRecorded, Casts
<1>1. PICK p \in Producers :
        \/ cast' = [cast EXCEPT ![p] = Silent]
        \/ \E j \in Jobs, e \in Events :
             /\ cast' = [cast EXCEPT ![p] = Announcement(j, e)]
             /\ e = "COMPLETED" /\ ~Uploading => assets'[j]
  BY DEF Announces
<1>2. CASE cast' = [cast EXCEPT ![p] = Silent]
  BY <1>2 DEF Announces, Silent
<1>3. ASSUME NEW j \in Jobs, NEW e \in Events,
             cast' = [cast EXCEPT ![p] = Announcement(j, e)],
             e = "COMPLETED" /\ ~Uploading => assets'[j]
      PROVE  SeenOK'
  <2>1. Audience(j) \subseteq Sockets
    BY DEF Audience
  <2>2. CASE Announcement(j, e) = Silent
    BY <1>3, <2>2 DEF Announces, Silent
  <2>3. CASE Announcement(j, e) = [job |-> j, event |-> e, left |-> Audience(j), failed |-> {}]
    BY <1>3, <2>1, <2>3 DEF Announces
  <2>4. QED
    BY <2>2, <2>3 DEF Announcement
<1>4. QED
  BY <1>1, <1>2, <1>3

(* A turn taken leaves a broadcast of the same job and event. *)
LEMMA TurnTaken ==
  ASSUME NEW r \in Casts, NEW w \in Sockets, NEW bad \in SUBSET Sockets
  PROVE  LET c == [r EXCEPT !.left = @ \ {w}, !.failed = bad]
         IN  /\ c \in Casts
             /\ c.job = r.job /\ c.event = r.event /\ c.left \subseteq r.left
<1>1. [r EXCEPT !.left = @ \ {w}, !.failed = bad] \in Casts
  BY DEF Casts
<1>2. [r EXCEPT !.left = @ \ {w}, !.failed = bad].job = r.job
  BY DEF Casts
<1>3. [r EXCEPT !.left = @ \ {w}, !.failed = bad].event = r.event
  BY DEF Casts
<1>4. [r EXCEPT !.left = @ \ {w}, !.failed = bad].left \subseteq r.left
  BY DEF Casts
<1>5. QED
  BY <1>1, <1>2, <1>3, <1>4

LEMMA SendStep ==
  ASSUME SeenOK, NEW p \in Producers, NEW w \in Sockets, SendTo(p, w),
         Uploading' = Uploading, assets' = assets
  PROVE  SeenOK'
<1> USE DEF SeenOK, SeenTables, SeenInv, CompletedSeenIsRecorded, Casts
<1>1. cast[p].job \in Jobs /\ cast[p].event \in Events \cup {"none"}
  BY DEF SendTo
<1>2. seen' \in [Sockets -> [Jobs -> Events \cup {"none"}]]
  BY <1>1 DEF SendTo
<1>3. ~Uploading => \A v \in Sockets, j \in Jobs : seen'[v][j] = "COMPLETED" => assets[j]
  BY <1>1 DEF SendTo
<1>4. members' \subseteq Sockets
  BY DEF SendTo, Unregister
<1>5. \/ cast' = [cast EXCEPT ![p] = Silent]
      \/ \E bad \in SUBSET Sockets :
           cast' = [cast EXCEPT ![p] = [cast[p] EXCEPT !.left = @ \ {w}, !.failed = bad]]
  BY DEF SendTo
<1>6. CASE cast' = [cast EXCEPT ![p] = Silent]
  BY <1>2, <1>3, <1>4, <1>6 DEF Silent
<1>7. ASSUME NEW bad \in SUBSET Sockets,
             cast' = [cast EXCEPT ![p] = [cast[p] EXCEPT !.left = @ \ {w}, !.failed = bad]]
      PROVE  SeenOK'
  <2> DEFINE c == [cast[p] EXCEPT !.left = @ \ {w}, !.failed = bad]
  <2>1. /\ c \in Casts
        /\ c.job = cast[p].job /\ c.event = cast[p].event /\ c.left \subseteq cast[p].left
    BY TurnTaken
  <2>2. cast' = [cast EXCEPT ![p] = c]
    BY <1>7
  <2> HIDE DEF c
  <2>3. cast' \in [Producers -> Casts]
    BY <2>1, <2>2
  <2>4. \A q \in Producers :
          /\ cast'[q].job = cast[q].job /\ cast'[q].event = cast[q].event
          /\ cast'[q].left \subseteq cast[q].left
    BY <2>1, <2>2
  <2>5. QED
    BY <1>1, <1>2, <1>3, <1>4, <2>3, <2>4
<1>8. QED
  BY <1>5, <1>6, <1>7

LEMMA SeenStep == TypeOK /\ SeenOK /\ [PipelineNext]_allVars => SeenOK'
<1> SUFFICES ASSUME TypeOK, SeenOK, [PipelineNext]_allVars PROVE SeenOK'
  OBVIOUS
<1>1. Uploading' = Uploading /\ \A j \in Jobs : assets[j] => assets'[j]
  BY SetupKept, RunnerStep, AssetsKept DEF Uploading
<1>2. CASE Hub
  <2>1. assets' = assets
    BY <1>2 DEF Hub, vars, rowVars
  <2>2. ASSUME NEW p \in Producers, NEW w \in Sockets, SendTo(p, w) PROVE SeenOK'
    BY <1>1, <2>1, <2>2, SendStep
  <2>3. ASSUME NEW w \in Sockets, Open(w) \/ Accept(w) \/ Leave(w) \/ Disconnect(w)
        PROVE  /\ cast' = cast /\ members' \subseteq Sockets
               /\ seen' \in {seen, [seen EXCEPT ![w] = [j \in Jobs |-> "none"]]}
    BY <2>3 DEF SeenOK, SeenTables, Open, Accept, Leave, Disconnect, Closes, Unregister
  <2>4. ASSUME NEW w \in Sockets, Open(w) \/ Accept(w) \/ Leave(w) \/ Disconnect(w)
        PROVE  SeenOK'
    BY <1>1, <2>1, <2>3, <2>4
       DEF SeenOK, SeenTables, SeenInv, CompletedSeenIsRecorded, Events
  <2>5. QED
    BY <1>2, <2>2, <2>4 DEF Hub, HubNext
<1>3. members' \subseteq Sockets \/ Hub
  <2>1. CASE RestartPipeline
    BY <2>1 DEF RestartPipeline
  <2>2. QED
    BY <2>1, TablesKept DEF SeenOK, SeenTables
<1>4. CASE RestartPipeline
  BY <1>1, <1>4 DEF RestartPipeline, SeenOK, SeenTables, SeenInv, CompletedSeenIsRecorded,
                    Silent, Casts
<1>5. CASE UNCHANGED <<cast, seen>> /\ members' \subseteq Sockets
  BY <1>1, <1>5 DEF SeenOK, SeenTables, SeenInv, CompletedSeenIsRecorded, Casts
<1>6. CASE Announces /\ members' \subseteq Sockets
  BY <1>1, <1>6, AnnouncedStep
<1>7. QED
  BY <1>2, <1>3, <1>4, <1>5, <1>6, AnnouncesOnly

(* A client of the MVP that was told COMPLETED finds the files in the row,  *)
(* through broadcasts that overlap, retries and restarts (_execute_job).    *)
THEOREM SeenSafe == PipelineSpec => []CompletedSeenIsRecorded
<1>1. PipelineInit => SeenOK
  BY DEF PipelineInit, HubInit, SeenOK, SeenTables, SeenInv, CompletedSeenIsRecorded, Casts,
         Silent, Events
<1>2. SeenOK => CompletedSeenIsRecorded
  BY DEF SeenOK, SeenInv, CompletedSeenIsRecorded
<1>3. PipelineSpec => []TypeOK
  BY PipelineImplementsRunner, TypeCorrect, PTL
<1>4. QED
  BY <1>1, <1>2, <1>3, SeenStep, PTL DEF PipelineSpec

-----------------------------------------------------------------------------
(* Types of what the steps work on. *)

LEMMA RunningHasJob ==
  ASSUME TypeOK, NEW t \in Tasks, pc[t] # "done"
  PROVE  job[t] \in Jobs
BY DEF TypeOK

LEMMA OrderType == ASSUME NEW n \in 1..3 PROVE Order[n] \in Assets
<1>1. n = 1 \/ n = 2 \/ n = 3
  OBVIOUS
<1>2. QED
  BY <1>1 DEF Order, Assets

LEMMA TurnRange == ASSUME NEW n \in 0..3, n > 0 PROVE n \in 1..3
OBVIOUS

WorkTypes ==
  /\ work \in [Tasks -> {"done", "busy", "raised", "closing"}]
  /\ upload \in [Tasks -> Uploads]

DataTypes ==
  /\ files \in [Jobs -> SUBSET Files]
  /\ asset \in [Jobs -> [Assets -> {"", "path", "url"}]]
  /\ recorded \in [Jobs -> [Assets -> {"", "path", "url"}]]

LEMMA TurnType ==
  ASSUME NEW t \in Tasks, NEW n, TurnFrom(t, n), WorkTypes, n \in 0..3
  PROVE  WorkTypes'
<1> USE PipelineAssumption DEF WorkTypes, Uploads
<1> DEFINE rest == {m \in (n + 1)..3 : Order[m] \in files[job[t]]}
<1>1. CASE rest = {}
  BY <1>1 DEF TurnFrom, NoUpload
<1>2. ASSUME NEW m \in rest,
             upload' = [upload EXCEPT ![t] =
               [turn |-> m, tries |-> 0,
                phase |-> IF setup.signed THEN "presign" ELSE "put"]],
             UNCHANGED work
      PROVE  WorkTypes'
  <2>1. m \in 0..3
    OBVIOUS
  <2>2. QED
    BY <1>2, <2>1
<1>3. QED
  BY <1>1, <1>2 DEF TurnFrom

LEMMA WorkStep == TypeOK /\ WorkTypes /\ [PipelineNext]_allVars => WorkTypes'
<1> SUFFICES ASSUME TypeOK, WorkTypes, [PipelineNext]_allVars PROVE WorkTypes'
  OBVIOUS
<1>1. ASSUME UNCHANGED workVars PROVE WorkTypes'
  BY <1>1 DEF WorkTypes, workVars
<1>2. ASSUME NEW t \in Tasks, Run(t) PROVE WorkTypes'
  <2>1. CASE StartJob(t) \/ CompleteJob(t) \/ CleanUpJob(t) \/ EndJob(t)
    BY <1>1, <2>1 DEF StartJob, CompleteJob, CleanUpJob, EndJob, workVars
  <2>2. CASE StartStep(t) \/ FailJob(t) \/ LeaveFinalize(t) \/ RealFinalize(t)
    BY <2>2 DEF StartStep, FailJob, LeaveFinalize, RealFinalize, WorkTypes
  <2>3. CASE KillJob(t) \/ RaiseInStep(t)
    BY <2>3, PipelineAssumption DEF KillJob, RaiseInStep, WorkTypes, Uploads, NoUpload
  <2>4. CASE StepDone(t) /\ UNCHANGED upload
    BY <2>4 DEF StepDone, WorkTypes
  <2>5. CASE RenderMvp(t)
    BY <2>4, <2>5 DEF RenderMvp, ValidateScript, GenerateTts, GenerateSubtitle, RenderSlides,
                ComposeVideo, UploadAssets, Finalize
  <2>6. CASE RealValidateScript(t) \/ RealGenerateTts(t) \/ RealGenerateSubtitle(t)
               \/ RealRenderSlides(t) \/ RealComposeVideo(t)
    BY <2>4, <2>6 DEF RealValidateScript, RealGenerateTts, RealGenerateSubtitle,
                RealRenderSlides, RealComposeVideo
  <2>7. CASE RealUploadAssets(t)
    BY <2>7, TurnType DEF RealUploadAssets
  <2>8. CASE PutObject(t) \/ NotifyComplete(t)
    <3>1. upload[t].turn \in 0..3
      BY DEF WorkTypes, Uploads
    <3>2. QED
      BY <2>8, <3>1, TurnType DEF PutObject, NotifyComplete, TakesUrl
  <2>9. CASE RequestPresign(t) \/ UploadToPresignedUrl(t)
    BY <2>9, PipelineAssumption DEF RequestPresign, UploadToPresignedUrl, GoesTo, WorkTypes, Uploads
  <2>10. CASE TryAgain(t)
    BY <2>10, PipelineAssumption DEF TryAgain, WorkTypes, Uploads
  <2>11. QED
    BY <1>2, <2>1, <2>2, <2>3, <2>5, <2>6, <2>7, <2>8, <2>9, <2>10 DEF Run, RenderReal
<1>3. CASE RestartPipeline
  BY <1>3, PipelineAssumption DEF RestartPipeline, WorkTypes, Uploads, NoUpload
<1>4. QED
  BY <1>1, <1>2, <1>3 DEF PipelineNext, Requests, Cancel, Hub, allVars

(* Only the renderers' steps, cleanup and completion touch what is on disk, *)
(* in the contexts and in the rows' assets.                                 *)
LEMMA DataStep == TypeOK /\ WorkTypes /\ DataTypes /\ [PipelineNext]_allVars => DataTypes'
<1> SUFFICES ASSUME TypeOK, WorkTypes, DataTypes, [PipelineNext]_allVars PROVE DataTypes'
  OBVIOUS
<1>1. ASSUME UNCHANGED diskVars, UNCHANGED recorded PROVE DataTypes'
  BY <1>1 DEF DataTypes, diskVars
<1>2. ASSUME NEW t \in Tasks, Run(t) PROVE DataTypes'
  <2> USE DEF DataTypes, Files, Assets
  <2>1. CASE StartJob(t) \/ StartStep(t) \/ FailJob(t) \/ EndJob(t) \/ KillJob(t)
    BY <1>1, <2>1 DEF StartJob, StartStep, FailJob, EndJob, KillJob, outVars
  <2>2. CASE RaiseInStep(t) \/ RealGenerateSubtitle(t) \/ RealUploadAssets(t)
               \/ RequestPresign(t) \/ UploadToPresignedUrl(t) \/ TryAgain(t)
               \/ RealFinalize(t) \/ LeaveFinalize(t)
    BY <1>1, <2>2 DEF RaiseInStep, RealGenerateSubtitle, RealUploadAssets, RequestPresign,
                UploadToPresignedUrl, TryAgain, RealFinalize, LeaveFinalize, outVars
  <2>3. CASE CompleteJob(t)
    <3>1. job[t] \in Jobs
      BY <2>3, RunningHasJob DEF CompleteJob, Complete, Resumes
    <3>2. QED
      BY <2>3, <3>1 DEF CompleteJob, diskVars
  <2>4. CASE CleanUpJob(t)
    BY <2>4 DEF CleanUpJob, outVars
  <2>5. ASSUME NEW new \in SUBSET Files, Writes(job[t], new) \/ WritesMaking(job[t], new),
               job[t] \in Jobs
        PROVE  files' \in [Jobs -> SUBSET Files]
    BY <2>5 DEF Writes, WritesMaking
  <2>6. \A f \in Files : {f} \in SUBSET Files
    OBVIOUS
  <2>7. {"audio", "subtitle", "slides", "video"} \subseteq Files /\ Assets \in SUBSET Files
    OBVIOUS
  <2>8. ASSUME NEW a \in Assets, NEW x \in {"path", "url"}, job[t] \in Jobs,
                asset' = [asset EXCEPT ![job[t]][a] = x]
         PROVE  asset' \in [Jobs -> [Assets -> {"", "path", "url"}]]
    <3> DEFINE u == [asset[job[t]] EXCEPT ![a] = x]
    <3>1. u \in [Assets -> {"", "path", "url"}]
      BY <2>8
    <3>2. asset' = [asset EXCEPT ![job[t]] = u]
      BY <2>8
    <3> HIDE DEF u
    <3>3. QED
      BY <2>8, <3>1, <3>2
  <2>9. "subtitle" \in Assets /\ "video" \in Assets /\ "thumbnail" \in Assets
    OBVIOUS
  <2> HIDE DEF Files, Assets
  <2>10. CASE RenderMvp(t)
    <3>1. job[t] \in Jobs
      BY <2>10, RunningHasJob
         DEF RenderMvp, ValidateScript, GenerateTts, GenerateSubtitle, RenderSlides,
             ComposeVideo, UploadAssets, Finalize, InStep, Resumes
    <3>2. CASE ValidateScript(t)
      BY <3>1, <3>2 DEF ValidateScript, GetContext, outVars
    <3>3. CASE GenerateTts(t)
      <4>1. files' \in [Jobs -> SUBSET Files]
        BY <2>5, <2>6, <2>7, <3>1, <3>3 DEF GenerateTts, GenerateSceneAudios
      <4>2. QED
        BY <3>3, <4>1 DEF GenerateTts, outVars
    <3>4. CASE GenerateSubtitle(t)
      <4>1. files' \in [Jobs -> SUBSET Files]
        BY <2>5, <2>6, <2>7, <3>1, <3>4 DEF GenerateSubtitle
      <4>2. QED
        BY <2>8, <2>9, <3>1, <3>4, <4>1 DEF GenerateSubtitle, outVars
    <3>5. CASE RenderSlides(t)
      <4>1. files' \in [Jobs -> SUBSET Files]
        BY <2>5, <2>6, <2>7, <3>1, <3>5 DEF RenderSlides
      <4>2. QED
        BY <3>5, <4>1 DEF RenderSlides, outVars
    <3>6. CASE ComposeVideo(t)
      <4>1. files' \in [Jobs -> SUBSET Files]
        BY <2>5, <2>6, <2>7, <3>1, <3>6 DEF ComposeVideo
      <4>2. QED
        BY <3>6, <4>1 DEF ComposeVideo, outVars
    <3>7. CASE UploadAssets(t)
      BY <2>8, <2>9, <3>1, <3>7 DEF UploadAssets, outVars
    <3>8. CASE Finalize(t)
      BY <2>8, <2>9, <3>1, <3>8 DEF Finalize, outVars
    <3>9. QED
      BY <2>10, <3>2, <3>3, <3>4, <3>5, <3>7, <3>8, <3>6 DEF RenderMvp
  <2>11. CASE RealValidateScript(t)
    <3>1. job[t] \in Jobs
      BY <2>11, RunningHasJob DEF RealValidateScript, InStep, Resumes
    <3>2. QED
      BY <2>11, <3>1 DEF RealValidateScript, GetContext, outVars
  <2>12. CASE RealGenerateTts(t) \/ RealRenderSlides(t)
    <3>1. job[t] \in Jobs
      BY <2>12, RunningHasJob DEF RealGenerateTts, RealRenderSlides, InStep, Resumes
    <3>2. files' \in [Jobs -> SUBSET Files]
      BY <2>5, <2>12, <2>6, <2>7, <3>1 DEF RealGenerateTts, RealRenderSlides
    <3>3. QED
      BY <2>12, <3>2 DEF RealGenerateTts, RealRenderSlides, outVars
  <2>13. CASE RealComposeVideo(t)
    <3>1. job[t] \in Jobs
      BY <2>13, RunningHasJob DEF RealComposeVideo, InStep, Resumes
    <3>2. asset' \in [Jobs -> [Assets -> {"", "path", "url"}]]
      BY <2>13, <3>1 DEF RealComposeVideo
    <3>3. files' \in [Jobs -> SUBSET Files]
      BY <2>5, <2>13, <2>7, <3>1 DEF RealComposeVideo, Compose
    <3>4. QED
      BY <2>13, <3>2, <3>3 DEF RealComposeVideo, outVars
  <2>14. CASE PutObject(t) \/ NotifyComplete(t)
    <3>1. job[t] \in Jobs
      BY <2>14, RunningHasJob DEF PutObject, NotifyComplete, InUpload, Resumes
    <3>2. Order[upload[t].turn] \in Assets
      <4>1. upload[t].turn \in 0..3
        BY DEF WorkTypes, Uploads
      <4>2. upload[t].turn > 0
        BY <2>14 DEF PutObject, NotifyComplete, InUpload
      <4>3. upload[t].turn \in 1..3
        BY <4>1, <4>2, TurnRange
      <4>4. QED
        BY <4>3, OrderType
    <3>3. asset' \in [Jobs -> [Assets -> {"", "path", "url"}]]
      BY <2>14, <2>8, <3>1, <3>2 DEF PutObject, NotifyComplete, TakesUrl
    <3>4. QED
      BY <2>14, <3>3 DEF PutObject, NotifyComplete
  <2>15. QED
    BY <1>2, <2>1, <2>2, <2>3, <2>4, <2>10, <2>11, <2>12, <2>13, <2>14 DEF Run, RenderReal
<1>3. CASE RestartPipeline
  <2>1. recorded' \in [Jobs -> [Assets -> {"", "path", "url"}]]
    BY <1>3 DEF RestartPipeline, DataTypes
  <2>2. asset' \in [Jobs -> [Assets -> {"", "path", "url"}]]
    BY <1>3 DEF RestartPipeline, NoAssets
  <2>3. files' = files
    BY <1>3 DEF RestartPipeline
  <2>4. QED
    BY <2>1, <2>2, <2>3 DEF DataTypes
<1>4. QED
  BY <1>1, <1>2, <1>3 DEF PipelineNext, Requests, Cancel, Hub, allVars, outVars, diskVars

-----------------------------------------------------------------------------
(* What a task is in the middle of. *)

LEMMA StepNumbers ==
  ASSUME NEW n \in 1..7
  PROVE  /\ Steps[n] = "VALIDATE_SCRIPT" => n = 1
         /\ Steps[n] = "GENERATE_TTS" => n = 2
         /\ Steps[n] = "GENERATE_SUBTITLE" => n = 3
         /\ Steps[n] = "RENDER_SLIDES" => n = 4
         /\ Steps[n] = "COMPOSE_VIDEO" => n = 5
         /\ Steps[n] = "UPLOAD_ASSETS" => n = 6
         /\ Steps[n] = "FINALIZE" => n = 7
<1>1. n = 1 \/ n = 2 \/ n = 3 \/ n = 4 \/ n = 5 \/ n = 6 \/ n = 7
  OBVIOUS
<1>2. QED
  BY <1>1 DEF Steps

(* Work is under way only in a step of a running task, an upload only in    *)
(* the sixth step of the real renderer.                                     *)
WorkInv ==
  \A t \in Tasks :
    /\ work[t] # "done" => pc[t] = "running" /\ at[t] \in 1..7
    /\ upload[t].turn > 0 => work[t] = "busy" /\ Uploading /\ at[t] = 6
    /\ work[t] = "closing" => Uploading /\ at[t] = 7
    /\ pc[t] = "new" => at[t] = 0

LEMMA InStepNumber ==
  ASSUME WorkInv, NEW t \in Tasks, NEW renderer, NEW step, InStep(t, renderer, step)
  PROVE  /\ at[t] \in 1..7
         /\ step = "VALIDATE_SCRIPT" => at[t] = 1
         /\ step = "GENERATE_TTS" => at[t] = 2
         /\ step = "GENERATE_SUBTITLE" => at[t] = 3
         /\ step = "RENDER_SLIDES" => at[t] = 4
         /\ step = "COMPOSE_VIDEO" => at[t] = 5
         /\ step = "UPLOAD_ASSETS" => at[t] = 6
         /\ step = "FINALIZE" => at[t] = 7
<1>1. at[t] \in 1..7 /\ Steps[at[t]] = step
  BY DEF WorkInv, InStep
<1>2. QED
  BY <1>1, StepNumbers

LEMMA GoesToKeepsTurn ==
  ASSUME WorkTypes, NEW t \in Tasks, NEW phase \in {"put", "complete"}, GoesTo(t, phase)
  PROVE  \A s \in Tasks : /\ upload'[s].turn = upload[s].turn
                          /\ upload'[s].phase = IF s = t THEN phase ELSE upload[s].phase
<1> DEFINE f == [upload EXCEPT ![t].phase = phase]
<1>1. f \in [Tasks -> Uploads]
  BY DEF WorkTypes, Uploads
<1>2. \A s \in Tasks : /\ f[s].turn = upload[s].turn
                       /\ f[s].phase = IF s = t THEN phase ELSE upload[s].phase
  BY DEF WorkTypes, Uploads
<1>3. upload' = [f EXCEPT ![t].tries = 0]
  BY DEF GoesTo
<1> HIDE DEF f
<1>4. \A s \in Tasks : upload'[s].turn = f[s].turn /\ upload'[s].phase = f[s].phase
  BY <1>1, <1>3 DEF Uploads
<1>5. QED
  BY <1>2, <1>4

(* Renderers' steps and the hub leave the runner alone; the runner's steps  *)
(* begin and end a task's work.                                             *)
LEMMA WorkInvStep ==
  TypeOK /\ WorkTypes /\ WorkInv /\ [PipelineNext]_allVars => WorkInv'
<1> SUFFICES ASSUME TypeOK, WorkTypes, WorkInv, [PipelineNext]_allVars PROVE WorkInv'
  OBVIOUS
<1>0. Uploading' = Uploading
  BY SetupKept DEF Uploading
<1>1. ASSUME UNCHANGED <<work, upload, pc, at>> PROVE WorkInv'
  BY <1>0, <1>1 DEF WorkInv
<1>2. CASE Requests
  <2>1. UNCHANGED <<pc, at>> \/ \E t \in Tasks, j \in Jobs : Spawn(t, j, "spec")
    <3>1. ASSUME NEW c \in Callers, FetchOk(c)
          PROVE  \E t \in Tasks, j \in Jobs : Spawn(t, j, "spec")
      BY <3>1 DEF FetchOk, TypeOK
    <3>2. ASSUME NEW j \in Jobs, RetryJob(j)
          PROVE  \E t \in Tasks, i \in Jobs : Spawn(t, i, "spec")
      BY <3>2 DEF RetryJob
    <3>3. ASSUME NEW j \in Jobs, NEW c \in Callers, CreateInternal(j, c) \/ StartFetch(j, c)
          PROVE  UNCHANGED <<pc, at>>
      BY <3>3 DEF CreateInternal, StartFetch, taskVars
    <3>4. ASSUME NEW c \in Callers, FetchFailed(c) PROVE UNCHANGED <<pc, at>>
      BY <3>4 DEF FetchFailed, taskVars
    <3>5. QED
      BY <1>2, <3>1, <3>2, <3>3, <3>4 DEF Requests
  <2>2. ASSUME NEW t \in Tasks, NEW j \in Jobs, Spawn(t, j, "spec") PROVE WorkInv'
    BY <1>0, <1>2, <2>2 DEF Requests, Spawn, WorkInv, TypeOK, workVars
  <2>3. QED
    BY <1>1, <1>2, <2>1, <2>2 DEF Requests, workVars
<1>3. ASSUME NEW t \in Tasks, Run(t) PROVE WorkInv'
  <2> USE <1>0, ConstantsAssumption, PipelineAssumption DEF WorkInv, TypeOK, WorkTypes
  <2>1. CASE StartJob(t)
    BY <2>1 DEF StartJob, Begin, Resumes, workVars
  <2>2. CASE StartStep(t)
    BY <2>2 DEF StartStep, NextStep, Resumes
  <2>3. CASE CompleteJob(t)
    BY <2>3 DEF CompleteJob, Complete, Resumes, workVars
  <2>4. CASE FailJob(t)
    BY <2>4 DEF FailJob, StepFails, Resumes
  <2>5. CASE CleanUpJob(t)
    BY <2>5 DEF CleanUpJob, CleanUp, Quit, Resumes, workVars
  <2>6. CASE EndJob(t)
    BY <2>6 DEF EndJob, Skip, StopCanceled, Finish, Quit, Resumes, workVars
  <2>7. CASE KillJob(t)
    BY <2>7 DEF KillJob, Killed, Quit, NoUpload
  <2>8. CASE RaiseInStep(t)
    BY <2>8 DEF RaiseInStep, NoUpload, Resumes, vars, taskVars
  <2>9. CASE StepDone(t) /\ UNCHANGED upload /\ upload[t].turn = 0
    BY <2>9 DEF StepDone, vars, taskVars
  <2>10. CASE RenderMvp(t)
    BY <2>9, <2>10 DEF RenderMvp, ValidateScript, GenerateTts, GenerateSubtitle, RenderSlides,
                ComposeVideo, UploadAssets, Finalize, InStep, NoUpload
  <2>11. CASE RealValidateScript(t) \/ RealGenerateTts(t) \/ RealGenerateSubtitle(t)
               \/ RealRenderSlides(t) \/ RealComposeVideo(t)
    BY <2>9, <2>11 DEF RealValidateScript, RealGenerateTts, RealGenerateSubtitle,
                RealRenderSlides, RealComposeVideo, InStep, NoUpload
  <2>12. ASSUME NEW n, TurnFrom(t, n), work[t] = "busy", Uploading, at[t] = 6,
                UNCHANGED <<pc, at>>
         PROVE  WorkInv'
    BY <2>12 DEF TurnFrom, NoUpload
  <2>13. CASE RealUploadAssets(t)
    <3>1. at[t] = 6 /\ work[t] = "busy" /\ Uploading
      BY <2>13, InStepNumber DEF RealUploadAssets, InStep, Uploading
    <3>2. QED
      BY <2>12, <2>13, <3>1 DEF RealUploadAssets, vars, taskVars
  <2>14. CASE PutObject(t) \/ NotifyComplete(t)
    BY <2>12, <2>14 DEF PutObject, NotifyComplete, TakesUrl, InUpload, vars, taskVars
  <2>15. CASE RequestPresign(t) \/ UploadToPresignedUrl(t)
    <3>1. UNCHANGED <<pc, at, work>>
      BY <2>15 DEF RequestPresign, UploadToPresignedUrl, GoesTo, vars, taskVars
    <3>2. \A s \in Tasks : upload'[s].turn = upload[s].turn
      BY <2>15, GoesToKeepsTurn DEF RequestPresign, UploadToPresignedUrl
    <3>3. QED
      BY <3>1, <3>2
  <2>16. CASE TryAgain(t)
    BY <2>16 DEF TryAgain, vars, taskVars, Uploads
  <2>17. CASE RealFinalize(t)
    <3>1. at[t] = 7 /\ Uploading
      BY <2>17, InStepNumber DEF RealFinalize, InStep, Uploading
    <3>2. QED
      BY <2>17, <3>1 DEF RealFinalize, InStep, NoUpload, vars, taskVars
  <2>18. CASE LeaveFinalize(t)
    BY <2>18 DEF LeaveFinalize, vars, taskVars
  <2>19. QED
    BY <1>3, <2>1, <2>2, <2>3, <2>4, <2>5, <2>6, <2>7, <2>8, <2>10, <2>11, <2>13, <2>14,
       <2>15, <2>16, <2>17, <2>18 DEF Run, RenderReal
<1>4. CASE RestartPipeline
  BY <1>4 DEF RestartPipeline, Restart, WorkInv, NoUpload
<1>5. ASSUME NEW j \in Jobs, Cancel(j) PROVE WorkInv'
  BY <1>1, <1>5 DEF Cancel, CancelJob, workVars
<1>6. CASE Hub \/ UNCHANGED allVars
  BY <1>1, <1>6 DEF Hub, allVars, vars, taskVars, workVars
<1>7. QED
  BY <1>2, <1>3, <1>4, <1>5, <1>6 DEF PipelineNext

-----------------------------------------------------------------------------
(* A task changes its own place and its own job. *)

Local(t) ==
  /\ \A s \in Tasks \ {t} :
       /\ work'[s] = work[s] /\ at'[s] = at[s] /\ pc'[s] = pc[s] /\ job'[s] = job[s]
       /\ upload'[s] = upload[s]
  /\ \A j \in Jobs \ {job[t]} :
       /\ files'[j] = files[j] /\ asset'[j] = asset[j]
       /\ recorded'[j] = recorded[j] /\ status'[j] = status[j]
  /\ shared' = shared
  /\ job'[t] \in {job[t], NoJob}
  /\ stored \subseteq stored' /\ confirmed \subseteq confirmed'

LEMMA RunIsLocal ==
  ASSUME TypeOK, WorkTypes, DataTypes, NEW t \in Tasks, Run(t)
  PROVE  Local(t)
<1> USE DEF TypeOK, WorkTypes, DataTypes, Local
<1>1. CASE StartJob(t)
  BY <1>1 DEF StartJob, Begin, SetStatus, workVars, diskVars, outVars
<1>2. CASE StartStep(t)
  BY <1>2 DEF StartStep, NextStep, SetStatus, diskVars, outVars
<1>3. CASE CompleteJob(t)
  BY <1>3 DEF CompleteJob, Complete, SetStatus, workVars, diskVars
<1>4. CASE FailJob(t)
  <2>1. PICK c \in {"STORAGE_UPLOAD_FAILED", "RENDER"} : SetError(job[t], c)
    BY <1>4 DEF FailJob, StepFails
  <2>2. \A j \in Jobs \ {job[t]} : status'[j] = status[j]
    BY <2>1 DEF SetError
  <2>3. QED
    BY <1>4, <2>2 DEF FailJob, StepFails, diskVars, outVars
<1>5. CASE CleanUpJob(t)
  BY <1>5 DEF CleanUpJob, CleanUp, Quit, rowVars, workVars, outVars
<1>6. CASE EndJob(t)
  <2>1. CASE Skip(t)
    BY <1>6, <2>1 DEF EndJob, Skip, SetError, Quit, workVars, diskVars, outVars
  <2>2. CASE StopCanceled(t)
    BY <1>6, <2>2 DEF EndJob, StopCanceled, Quit, rowVars, workVars, diskVars, outVars
  <2>3. CASE Finish(t)
    BY <1>6, <2>3 DEF EndJob, Finish, Quit, rowVars, workVars, diskVars, outVars
  <2>4. QED
    BY <1>6, <2>1, <2>2, <2>3 DEF EndJob
<1>7. CASE KillJob(t)
  BY <1>7 DEF KillJob, Killed, Quit, rowVars, diskVars, outVars
<1>8. CASE RaiseInStep(t)
  BY <1>8 DEF RaiseInStep, Unanswered, Store, vars, rowVars, taskVars, diskVars
<1>9. ASSUME NEW new, \/ Writes(job[t], new)
                      \/ WritesMaking(job[t], new)
                      \/ UNCHANGED files
      PROVE  \A j \in Jobs \ {job[t]} : files'[j] = files[j]
  BY <1>9 DEF Writes, WritesMaking
<1>10. CASE RenderMvp(t)
  <2>1. /\ StepDone(t) /\ UNCHANGED upload /\ UNCHANGED outVars
        /\ \A j \in Jobs \ {job[t]} : asset'[j] = asset[j]
    BY <1>10 DEF RenderMvp, ValidateScript, GenerateTts, GenerateSubtitle, RenderSlides,
                ComposeVideo, UploadAssets, Finalize
  <2>2. \A j \in Jobs \ {job[t]} : files'[j] = files[j]
    BY <1>9, <1>10 DEF RenderMvp, ValidateScript, GenerateTts, GenerateSceneAudios,
                GenerateSubtitle, RenderSlides, ComposeVideo, UploadAssets, Finalize
  <2>3. QED
    BY <2>1, <2>2 DEF StepDone, vars, rowVars, taskVars, outVars
<1>11. CASE RealValidateScript(t) \/ RealGenerateTts(t) \/ RealGenerateSubtitle(t)
              \/ RealRenderSlides(t) \/ RealComposeVideo(t)
  <2>1. /\ StepDone(t) /\ UNCHANGED upload /\ UNCHANGED outVars
        /\ \A j \in Jobs \ {job[t]} : asset'[j] = asset[j]
    BY <1>11 DEF RealValidateScript, RealGenerateTts, RealGenerateSubtitle, RealRenderSlides,
                RealComposeVideo, diskVars
  <2>2. \A j \in Jobs \ {job[t]} : files'[j] = files[j]
    BY <1>9, <1>11 DEF RealValidateScript, RealGenerateTts, RealGenerateSubtitle,
                RealRenderSlides, RealComposeVideo, Compose, diskVars
  <2>3. QED
    BY <2>1, <2>2 DEF StepDone, vars, rowVars, taskVars, outVars
<1>12. ASSUME NEW n, TurnFrom(t, n)
       PROVE  \A s \in Tasks \ {t} : work'[s] = work[s] /\ upload'[s] = upload[s]
  BY <1>12 DEF TurnFrom
<1>13. CASE RealUploadAssets(t)
  BY <1>12, <1>13 DEF RealUploadAssets, vars, rowVars, taskVars, diskVars, outVars
<1>14. CASE PutObject(t)
  <2>1. \A s \in Tasks \ {t} : work'[s] = work[s] /\ upload'[s] = upload[s]
    BY <1>12, <1>14 DEF PutObject, TakesUrl
  <2>2. QED
    BY <1>14, <2>1 DEF PutObject, TakesUrl, Store, vars, rowVars, taskVars
<1>15. CASE NotifyComplete(t)
  <2>1. \A s \in Tasks \ {t} : work'[s] = work[s] /\ upload'[s] = upload[s]
    BY <1>12, <1>15 DEF NotifyComplete, TakesUrl
  <2>2. QED
    BY <1>15, <2>1 DEF NotifyComplete, TakesUrl, vars, rowVars, taskVars
<1>16. CASE RequestPresign(t) \/ UploadToPresignedUrl(t)
  BY <1>16 DEF RequestPresign, UploadToPresignedUrl, GoesTo, Store, vars, rowVars, taskVars,
              diskVars, outVars
<1>17. CASE TryAgain(t)
  BY <1>17 DEF TryAgain, Unanswered, Store, vars, rowVars, taskVars, diskVars
<1>18. CASE RealFinalize(t) \/ LeaveFinalize(t)
  BY <1>18 DEF RealFinalize, LeaveFinalize, vars, rowVars, taskVars, diskVars, outVars
<1>19. QED
  BY <1>1, <1>2, <1>3, <1>4, <1>5, <1>6, <1>7, <1>8, <1>10, <1>11, <1>13, <1>14, <1>15,
     <1>16, <1>17, <1>18 DEF Run, RenderReal

(* What a call does to tasks and rows. *)
LEMMA RequestsSpawn ==
  ASSUME TypeOK, Requests
  PROVE  /\ \/ UNCHANGED <<pc, job, at, shared>>
            \/ \E t \in Tasks, j \in Jobs : Spawn(t, j, "spec") /\ shared' = Shares(j)
         /\ \A j \in Jobs : status'[j] = "COMPLETED" => status[j] = "COMPLETED"
         /\ UNCHANGED <<work, upload, files, asset, recorded, stored, confirmed, setup>>
<1> USE DEF TypeOK
<1>1. ASSUME NEW j \in Jobs, NEW c \in Callers, CreateInternal(j, c) \/ StartFetch(j, c),
             UNCHANGED shared
      PROVE  /\ UNCHANGED <<pc, job, at, shared>>
             /\ \A i \in Jobs : status'[i] = "COMPLETED" => status[i] = "COMPLETED"
  BY <1>1 DEF CreateInternal, StartFetch, SaveRow, SetStatus, taskVars, rowVars
<1>2. ASSUME NEW c \in Callers, FetchOk(c), shared' = Shares(fetching[c])
      PROVE  /\ \E t \in Tasks, j \in Jobs : Spawn(t, j, "spec") /\ shared' = Shares(j)
             /\ \A i \in Jobs : status'[i] = "COMPLETED" => status[i] = "COMPLETED"
  <2>1. fetching[c] \in Jobs
    BY <1>2 DEF FetchOk
  <2>2. QED
    BY <1>2, <2>1 DEF FetchOk
<1>3. ASSUME NEW c \in Callers, FetchFailed(c), UNCHANGED shared
      PROVE  /\ UNCHANGED <<pc, job, at, shared>>
             /\ \A i \in Jobs : status'[i] = "COMPLETED" => status[i] = "COMPLETED"
  BY <1>3 DEF FetchFailed, SetError, taskVars
<1>4. ASSUME NEW j \in Jobs, RetryJob(j), shared' = Shares(j)
      PROVE  /\ \E t \in Tasks, i \in Jobs : Spawn(t, i, "spec") /\ shared' = Shares(i)
             /\ \A i \in Jobs : status'[i] = "COMPLETED" => status[i] = "COMPLETED"
  BY <1>4 DEF RetryJob, SetStatus
<1>5. UNCHANGED <<work, upload, files, asset, recorded, stored, confirmed, setup>>
  BY DEF Requests, workVars, diskVars, outVars
<1>6. QED
  BY <1>1, <1>2, <1>3, <1>4, <1>5 DEF Requests

-----------------------------------------------------------------------------
(* One task for a job that is not shared, and no COMPLETED row while it     *)
(* renders or cleans up.                                                    *)

Alone ==
  \A s, t \in Tasks :
    pc[s] # "done" /\ job[s] = job[t] /\ job[s] \notin shared => s = t

Settled ==
  \A t \in Tasks :
    pc[t] \in {"running", "failing"} /\ job[t] \notin shared => status[job[t]] # "COMPLETED"

LEMMA SpawnAlone ==
  ASSUME TypeOK, Alone, Settled, NEW t \in Tasks, NEW j \in Jobs, Spawn(t, j, "spec"),
         shared' = Shares(j),
         \A i \in Jobs : status'[i] = "COMPLETED" => status[i] = "COMPLETED"
  PROVE  Alone' /\ Settled'
<1>1. /\ pc[t] = "done" /\ job' = [job EXCEPT ![t] = j] /\ pc' = [pc EXCEPT ![t] = "new"]
      /\ shared \subseteq shared'
      /\ \A s \in Tasks : job[s] = j => j \in shared'
  BY DEF Spawn, Shares
<1>2. Alone'
  BY <1>1 DEF Alone, TypeOK
<1>3. Settled'
  BY <1>1 DEF Settled, TypeOK
<1>4. QED
  BY <1>2, <1>3

(* The task's own job: its row is COMPLETED by its last write alone.        *)
LEMMA RunSettles ==
  ASSUME TypeOK, Settled, Alone, NEW t \in Tasks, Run(t), pc[t] # "done",
         pc'[t] \in {"running", "failing"}, job[t] \notin shared
  PROVE  status'[job[t]] # "COMPLETED"
<1> USE DEF TypeOK
<1>0. job[t] \in Jobs
  BY RunningHasJob
<1>1. CASE StartJob(t) \/ StartStep(t) \/ FailJob(t)
  BY <1>0, <1>1 DEF StartJob, Begin, StartStep, NextStep, FailJob, StepFails, SetStatus, SetError
<1>2. CASE CompleteJob(t)
  BY <1>2 DEF CompleteJob, Complete
<1>3. CASE CleanUpJob(t) \/ EndJob(t) \/ KillJob(t)
  BY <1>3 DEF CleanUpJob, CleanUp, EndJob, Skip, StopCanceled, Finish, KillJob, Killed, Quit
<1>4. ASSUME UNCHANGED vars PROVE status'[job[t]] # "COMPLETED"
  BY <1>4 DEF vars, rowVars, taskVars, Settled
<1>5. CASE RenderMvp(t)
  BY <1>4, <1>5 DEF RenderMvp, ValidateScript, GenerateTts, GenerateSubtitle, RenderSlides,
              ComposeVideo, UploadAssets, Finalize, StepDone
<1>6. CASE RenderReal(t) \/ RaiseInStep(t)
  BY <1>4, <1>6 DEF RaiseInStep, RenderReal, RealValidateScript, RealGenerateTts,
              RealGenerateSubtitle, RealRenderSlides, RealComposeVideo, RealUploadAssets,
              PutObject, RequestPresign, UploadToPresignedUrl, NotifyComplete, TryAgain,
              RealFinalize, LeaveFinalize, StepDone
<1>7. QED
  BY <1>1, <1>2, <1>3, <1>5, <1>6 DEF Run

LEMMA NoTaskNoRun == ASSUME TypeOK, WorkInv, NEW t \in Tasks, Run(t) PROVE pc[t] # "done"
<1>1. CASE StartJob(t) \/ StartStep(t) \/ FailJob(t) \/ CompleteJob(t) \/ CleanUpJob(t)
  BY <1>1 DEF StartJob, Begin, StartStep, NextStep, FailJob, StepFails, CompleteJob, Complete,
              CleanUpJob, CleanUp, Resumes
<1>2. CASE EndJob(t) \/ KillJob(t)
  BY <1>2 DEF EndJob, Skip, StopCanceled, Finish, KillJob, Killed, Resumes
<1>3. CASE RenderMvp(t)
  BY <1>3 DEF RenderMvp, ValidateScript, GenerateTts, GenerateSubtitle, RenderSlides,
              ComposeVideo, UploadAssets, Finalize, InStep, Resumes
<1>4. CASE RenderReal(t) \/ RaiseInStep(t)
  BY <1>4 DEF RaiseInStep, RenderReal, RealValidateScript, RealGenerateTts,
              RealGenerateSubtitle, RealRenderSlides, RealComposeVideo, RealUploadAssets,
              PutObject, RequestPresign, UploadToPresignedUrl, NotifyComplete, TryAgain,
              RealFinalize, LeaveFinalize, InStep, InUpload, WorkInv, Resumes
<1>5. QED
  BY <1>1, <1>2, <1>3, <1>4 DEF Run

(* The invariant the proof of CompletedIsBacked is about. *)
BaseInv == TypeOK /\ WorkTypes /\ DataTypes /\ WorkInv /\ Alone /\ Settled

LEMMA AloneStep == BaseInv /\ [PipelineNext]_allVars => Alone' /\ Settled'
<1> SUFFICES ASSUME BaseInv, [PipelineNext]_allVars PROVE Alone' /\ Settled'
  OBVIOUS
<1> USE DEF BaseInv
<1>1. ASSUME UNCHANGED <<pc, job, shared>>,
             \A j \in Jobs : status'[j] = "COMPLETED" => status[j] = "COMPLETED"
      PROVE  Alone' /\ Settled'
  BY <1>1, RunningHasJob DEF Alone, Settled
<1>2. CASE Requests
  BY <1>1, <1>2, RequestsSpawn, SpawnAlone
<1>3. ASSUME NEW t \in Tasks, Run(t) PROVE Alone' /\ Settled'
  <2>1. Local(t) /\ pc[t] # "done" /\ job[t] \in Jobs
    BY <1>3, RunIsLocal, NoTaskNoRun, RunningHasJob
  <2>2. pc'[t] # "done" => job'[t] = job[t]
    BY <1>3, <2>1, RunnerStep, TypeStep DEF Local, TypeOK, PipelineNext
  <2>3. Alone'
    BY <2>1, <2>2, RunningHasJob DEF Local, Alone, TypeOK
  <2>4. ASSUME NEW s \in Tasks, pc'[s] \in {"running", "failing"}, job'[s] \notin shared'
        PROVE  status'[job'[s]] # "COMPLETED"
    <3>1. CASE s = t
      BY <1>3, <2>1, <2>2, <2>4, <3>1, RunSettles DEF Local
    <3>2. CASE s # t
      <4>1. /\ pc[s] = pc'[s] /\ job'[s] = job[s] /\ job[s] \in Jobs /\ job[s] \notin shared
        BY <2>1, <2>4, <3>2, RunningHasJob DEF Local
      <4>2. job[s] # job[t]
        BY <2>1, <2>4, <3>2, <4>1 DEF Alone
      <4>3. QED
        BY <2>1, <2>4, <4>1, <4>2 DEF Local, Settled
    <3>3. QED
      BY <3>1, <3>2
  <2>5. Settled'
    BY <2>4 DEF Settled
  <2>6. QED
    BY <2>3, <2>5
<1>4. CASE RestartPipeline
  BY <1>4 DEF RestartPipeline, Restart, Alone, Settled
<1>5. ASSUME NEW j \in Jobs, Cancel(j) PROVE Alone' /\ Settled'
  BY <1>1, <1>5 DEF Cancel, CancelJob, SetError, TypeOK
<1>6. CASE Hub \/ UNCHANGED allVars
  BY <1>1, <1>6 DEF Hub, allVars, vars, rowVars, taskVars
<1>7. QED
  BY <1>2, <1>3, <1>4, <1>5, <1>6 DEF PipelineNext

-----------------------------------------------------------------------------
(* URLs, stored objects and confirmations. *)

UrlsOf(j) ==
  \A a \in Assets :
    asset[j][a] = "url" \/ recorded[j][a] = "url" =>
      <<j, a>> \in stored /\ (setup.signed => <<j, a>> \in confirmed)

Awaiting(t) == upload[t].turn > 0 /\ upload[t].phase = "complete" => Object(t) \in stored

UrlInv ==
  /\ \A j \in Jobs : UrlsOf(j)
  /\ \A t \in Tasks : Awaiting(t)
  /\ ConfirmedIsStored

(* A turn that begins is not waiting for a confirmation. *)
LEMMA TurnAwaits ==
  ASSUME WorkTypes, NEW t \in Tasks, NEW n, TurnFrom(t, n)
  PROVE  Awaiting(t)'
<1>1. upload' = [upload EXCEPT ![t] = NoUpload] => upload'[t].turn = 0
  BY DEF WorkTypes, NoUpload
<1>2. ASSUME NEW m,
             upload' = [upload EXCEPT ![t] =
               [turn |-> m, tries |-> 0,
                phase |-> IF setup.signed THEN "presign" ELSE "put"]]
      PROVE  upload'[t].phase # "complete"
  BY <1>2 DEF WorkTypes
<1>3. upload'[t].turn = 0 \/ upload'[t].phase # "complete"
  BY <1>1, <1>2 DEF TurnFrom
<1>4. QED
  BY <1>3 DEF Awaiting

LEMMA NothingAwaited == ASSUME NEW t \in Tasks, upload'[t] = NoUpload PROVE Awaiting(t)'
<1>1. upload'[t].turn = 0
  BY DEF NoUpload
<1>2. QED
  BY <1>1 DEF Awaiting

LEMMA TryAgainKeepsTurn ==
  ASSUME WorkTypes, NEW t \in Tasks, TryAgain(t)
  PROVE  upload'[t].turn = upload[t].turn /\ upload'[t].phase = upload[t].phase
<1>1. upload' = [upload EXCEPT ![t].tries = @ + 1]
  BY DEF TryAgain
<1>2. upload[t] \in Uploads
  BY DEF WorkTypes
<1>3. upload'[t] = [upload[t] EXCEPT !.tries = @ + 1]
  BY <1>1 DEF WorkTypes
<1>4. QED
  BY <1>2, <1>3 DEF Uploads

LEMMA RunUrls ==
  ASSUME BaseInv, UrlInv, NEW t \in Tasks, NEW j \in Jobs, j = job[t], Run(t), Local(t),
         setup' = setup
  PROVE  UrlsOf(j)' /\ Awaiting(t)' /\ ConfirmedIsStored'
<1> USE DEF BaseInv, WorkTypes, DataTypes
<1>1. ASSUME upload'[t] = upload[t], job'[t] = job[t] PROVE Awaiting(t)'
  <2>1. Object(t)' = Object(t)
    BY <1>1 DEF Object
  <2>2. QED
    BY <1>1, <2>1 DEF UrlInv, Awaiting, Local
<1>2. ASSUME upload'[t] = upload[t], ~(upload[t].turn > 0) PROVE Awaiting(t)'
  BY <1>2 DEF Awaiting
<1>3. ASSUME UNCHANGED confirmed PROVE ConfirmedIsStored'
  BY <1>3 DEF UrlInv, ConfirmedIsStored, Local
<1>4. ASSUME UNCHANGED recorded,
             \A a \in Assets : asset'[j][a] = "url" => asset[j][a] = "url"
      PROVE  UrlsOf(j)'
  BY <1>4 DEF UrlInv, UrlsOf, Local
<1>5. UNCHANGED asset => \A a \in Assets : asset'[j][a] = "url" => asset[j][a] = "url"
  OBVIOUS
<1>6. ASSUME upload'[t] = NoUpload PROVE Awaiting(t)'
  BY <1>6, NothingAwaited
<1>7. stored \subseteq stored' /\ confirmed \subseteq confirmed'
  BY DEF Local
<1>8. CASE StartJob(t) \/ StartStep(t) \/ FailJob(t)
  <2>1. UNCHANGED <<asset, recorded, confirmed, upload, job>>
    BY <1>8 DEF StartJob, Begin, StartStep, NextStep, FailJob, StepFails, workVars, diskVars, outVars
  <2>2. QED
    BY <1>1, <1>3, <1>4, <1>5, <2>1
<1>9. CASE CleanUpJob(t) \/ EndJob(t)
  <2>1. UNCHANGED <<asset, recorded, confirmed, upload>>
    BY <1>9 DEF CleanUpJob, EndJob, workVars, diskVars, outVars
  <2>2. ~(upload[t].turn > 0)
    BY <1>9 DEF CleanUpJob, CleanUp, EndJob, Skip, StopCanceled, Finish, Resumes, WorkInv
  <2>3. QED
    BY <1>2, <1>3, <1>4, <1>5, <2>1, <2>2
<1>10. CASE KillJob(t)
  <2>1. UNCHANGED <<asset, recorded, confirmed>> /\ upload'[t] = NoUpload
    BY <1>10 DEF KillJob, diskVars, outVars
  <2>2. QED
    BY <1>3, <1>4, <1>5, <1>6, <2>1
<1>11. CASE CompleteJob(t)
  <2>1. UNCHANGED <<asset, confirmed, upload, job, stored>>
    BY <1>11 DEF CompleteJob, Complete, workVars, diskVars
  <2>2. recorded' = [recorded EXCEPT ![j] = asset[j]]
    BY <1>11 DEF CompleteJob
  <2>3. UrlsOf(j)'
    BY <2>1, <2>2 DEF UrlInv, UrlsOf
  <2>4. QED
    BY <1>1, <1>3, <2>1, <2>3
<1>12. CASE RenderMvp(t)
  <2>1. UNCHANGED <<recorded, confirmed, upload, job>>
    BY <1>12 DEF RenderMvp, ValidateScript, GenerateTts, GenerateSubtitle, RenderSlides,
                ComposeVideo, UploadAssets, Finalize, StepDone, vars, taskVars, outVars
  <2>2. UNCHANGED asset \/ \E b \in Assets : asset' = [asset EXCEPT ![j][b] = "path"]
    BY <1>12 DEF RenderMvp, ValidateScript, GenerateTts, GenerateSubtitle, RenderSlides,
                ComposeVideo, UploadAssets, Finalize, Assets
  <2>4. ASSUME NEW b \in Assets, asset' = [asset EXCEPT ![j][b] = "path"]
        PROVE  \A a \in Assets : asset'[j][a] = "url" => asset[j][a] = "url"
    BY <2>4
  <2>3. QED
    BY <1>1, <1>3, <1>4, <1>5, <2>1, <2>2, <2>4
<1>13. CASE RealValidateScript(t) \/ RealGenerateTts(t) \/ RealGenerateSubtitle(t)
              \/ RealRenderSlides(t) \/ RealComposeVideo(t)
  <2>1. UNCHANGED <<recorded, confirmed, upload, job>>
    BY <1>13 DEF RealValidateScript, RealGenerateTts, RealGenerateSubtitle, RealRenderSlides,
                RealComposeVideo, StepDone, vars, taskVars, outVars
  <2>2. CASE RealComposeVideo(t)
    <3>1. \A a \in Assets : asset'[j][a] = "url" => asset[j][a] = "url"
      BY <2>2 DEF RealComposeVideo
    <3>2. QED
      BY <1>1, <1>3, <1>4, <2>1, <3>1
  <2>3. CASE ~RealComposeVideo(t)
    <3>1. UNCHANGED asset
      BY <1>13, <2>3 DEF RealValidateScript, RealGenerateTts, RealGenerateSubtitle,
                RealRenderSlides, diskVars
    <3>2. QED
      BY <1>1, <1>3, <1>4, <1>5, <2>1, <3>1
  <2>4. QED
    BY <2>2, <2>3
<1>14. CASE RealUploadAssets(t)
  BY <1>3, <1>4, <1>5, <1>14, TurnAwaits DEF RealUploadAssets, diskVars, outVars
<1>15. ASSUME TakesUrl(t), UNCHANGED recorded, upload[t].turn > 0, Object(t) \in stored',
              setup.signed => Object(t) \in confirmed'
       PROVE  UrlsOf(j)' /\ Awaiting(t)'
  <2> DEFINE o == Order[upload[t].turn]
  <2>1. o \in Assets
    <3>1. upload[t].turn \in 0..3
      BY DEF Uploads
    <3>2. upload[t].turn \in 1..3
      BY <1>15, <3>1, TurnRange
    <3>3. QED
      BY <3>2, OrderType
  <2>2. Object(t) = <<j, o>> /\ asset' = [asset EXCEPT ![j][o] = "url"]
    BY <1>15 DEF Object, TakesUrl
  <2> HIDE DEF o
  <2>3. \A a \in Assets : asset'[j][a] = "url" => a = o \/ asset[j][a] = "url"
    BY <2>1, <2>2
  <2>4. UrlsOf(j)'
    <3>1. \A a \in Assets : asset'[j][a] = "url" \/ recorded'[j][a] = "url" =>
            a = o \/ asset[j][a] = "url" \/ recorded[j][a] = "url"
      BY <1>15, <2>3
    <3>2. <<j, o>> \in stored' /\ (setup.signed => <<j, o>> \in confirmed')
      BY <1>15, <2>2
    <3>3. \A a \in Assets : asset[j][a] = "url" \/ recorded[j][a] = "url" =>
            <<j, a>> \in stored' /\ (setup.signed => <<j, a>> \in confirmed')
      BY <1>7 DEF UrlInv, UrlsOf
    <3>4. QED
      BY <3>1, <3>2, <3>3 DEF UrlsOf
  <2>5. QED
    BY <1>15, <2>4, TurnAwaits DEF TakesUrl
<1>16. CASE PutObject(t)
  BY <1>3, <1>15, <1>16 DEF PutObject, Store, InUpload
<1>17. CASE NotifyComplete(t)
  <2>1. Object(t) \in stored
    BY <1>17 DEF NotifyComplete, InUpload, UrlInv, Awaiting
  <2>2. confirmed' = confirmed \cup {Object(t)} /\ stored' = stored
    BY <1>17 DEF NotifyComplete
  <2>3. ConfirmedIsStored'
    BY <2>1, <2>2 DEF UrlInv, ConfirmedIsStored
  <2>4. QED
    BY <1>15, <1>17, <2>1, <2>2, <2>3 DEF NotifyComplete, InUpload
<1>18. CASE RequestPresign(t) \/ UploadToPresignedUrl(t)
  <2>1. UNCHANGED <<asset, recorded, confirmed, job>>
    BY <1>18 DEF RequestPresign, UploadToPresignedUrl, vars, taskVars, diskVars, outVars
  <2>2. Awaiting(t)'
    <3>1. CASE RequestPresign(t)
      BY <3>1, GoesToKeepsTurn DEF RequestPresign, Awaiting
    <3>2. CASE UploadToPresignedUrl(t)
      <4>1. upload'[t].turn = upload[t].turn
        BY <3>2, GoesToKeepsTurn DEF UploadToPresignedUrl
      <4>2. Object(t)' = Object(t) /\ Object(t) \in stored'
        BY <2>1, <3>2, <4>1 DEF UploadToPresignedUrl, Store, Object
      <4>3. QED
        BY <4>2 DEF Awaiting
    <3>3. QED
      BY <1>18, <3>1, <3>2
  <2>3. QED
    BY <1>3, <1>4, <1>5, <2>1, <2>2
<1>19. ASSUME Unanswered(t) PROVE ConfirmedIsStored'
  <2>1. CASE InUpload(t, "complete") /\ confirmed' = confirmed \cup {Object(t)}
    <3>1. Object(t) \in stored
      BY <2>1 DEF InUpload, UrlInv, Awaiting
    <3>2. QED
      BY <1>7, <2>1, <3>1 DEF UrlInv, ConfirmedIsStored
  <2>2. QED
    BY <1>3, <1>19, <2>1 DEF Unanswered
<1>20. CASE TryAgain(t)
  <2>1. UNCHANGED <<asset, recorded, job>> /\ Unanswered(t)
    BY <1>20 DEF TryAgain, vars, taskVars, diskVars
  <2>2. upload'[t].turn = upload[t].turn /\ upload'[t].phase = upload[t].phase
    BY <1>20, TryAgainKeepsTurn
  <2>3. Object(t)' = Object(t)
    BY <2>1, <2>2 DEF Object
  <2>4. Awaiting(t)'
    BY <1>7, <2>2, <2>3 DEF UrlInv, Awaiting
  <2>5. UrlsOf(j)'
    BY <1>4, <1>5, <2>1
  <2>6. QED
    BY <1>19, <2>1, <2>4, <2>5
<1>21. CASE RaiseInStep(t)
  <2>1. UNCHANGED <<asset, recorded>> /\ Unanswered(t) /\ upload'[t] = NoUpload
    BY <1>21 DEF RaiseInStep, diskVars
  <2>2. QED
    BY <1>4, <1>5, <1>19, <1>6, <2>1
<1>22. CASE RealFinalize(t) \/ LeaveFinalize(t)
  <2>1. UNCHANGED <<asset, recorded, confirmed, upload, job>>
    BY <1>22 DEF RealFinalize, LeaveFinalize, vars, taskVars, diskVars, outVars
  <2>2. QED
    BY <1>1, <1>3, <1>4, <1>5, <2>1
<1>23. QED
  BY <1>8, <1>9, <1>10, <1>11, <1>12, <1>13, <1>14, <1>16, <1>17, <1>18, <1>20, <1>21, <1>22
     DEF Run, RenderReal

LEMMA UrlStep == BaseInv /\ UrlInv /\ [PipelineNext]_allVars => UrlInv'
<1> SUFFICES ASSUME BaseInv, UrlInv, [PipelineNext]_allVars PROVE UrlInv'
  OBVIOUS
<1>0. setup' = setup
  BY SetupKept
<1>1. ASSUME UNCHANGED <<asset, recorded, stored, confirmed, upload>>,
             \A t \in Tasks : upload[t].turn > 0 => job'[t] = job[t]
      PROVE  UrlInv'
  <2>1. \A t \in Tasks : Awaiting(t)'
    BY <1>1 DEF UrlInv, Awaiting, Object
  <2>2. QED
    BY <1>0, <1>1, <2>1 DEF UrlInv, UrlsOf, ConfirmedIsStored
<1>2. CASE Requests
  <2>1. \A t \in Tasks : upload[t].turn > 0 => job'[t] = job[t]
    BY <1>2, RequestsSpawn DEF BaseInv, WorkInv, Spawn, TypeOK
  <2>2. QED
    BY <1>1, <1>2, <2>1, RequestsSpawn DEF BaseInv
<1>3. ASSUME NEW t \in Tasks, Run(t) PROVE UrlInv'
  <2>1. Local(t) /\ job[t] \in Jobs
    BY <1>3, RunIsLocal, NoTaskNoRun, RunningHasJob DEF BaseInv
  <2>2. PICK j \in Jobs : j = job[t]
    BY <2>1
  <2>3. UrlsOf(j)' /\ Awaiting(t)' /\ ConfirmedIsStored'
    BY <1>0, <1>3, <2>1, <2>2, RunUrls
  <2>4. ASSUME NEW i \in Jobs, i # j PROVE UrlsOf(i)'
    BY <1>0, <2>1, <2>2, <2>4 DEF Local, UrlInv, UrlsOf
  <2>5. ASSUME NEW s \in Tasks, s # t PROVE Awaiting(s)'
    <3>1. Object(s)' = Object(s) /\ upload'[s] = upload[s] /\ stored \subseteq stored'
      BY <2>1, <2>5 DEF Local, Object
    <3>2. QED
      BY <3>1 DEF UrlInv, Awaiting
  <2>6. QED
    BY <2>3, <2>4, <2>5 DEF UrlInv
<1>4. CASE RestartPipeline
  <2>1. \A t \in Tasks : Awaiting(t)'
    <3>1. \A t \in Tasks : upload'[t] = NoUpload
      BY <1>4 DEF RestartPipeline
    <3>2. QED
      BY <3>1 DEF Awaiting, NoUpload
  <2>2. \A j \in Jobs : UrlsOf(j)'
    <3>1. /\ UNCHANGED <<stored, confirmed>>
          /\ \A j \in Jobs, a \in Assets : asset'[j][a] = ""
      BY <1>4 DEF RestartPipeline, NoAssets
    <3>2. \A j \in Jobs : recorded'[j] \in {recorded[j], asset[j]}
      BY <1>4 DEF RestartPipeline, BaseInv, DataTypes
    <3>3. QED
      BY <1>0, <3>1, <3>2 DEF UrlInv, UrlsOf
  <2>3. ConfirmedIsStored'
    BY <1>4 DEF RestartPipeline, UrlInv, ConfirmedIsStored
  <2>4. QED
    BY <2>1, <2>2, <2>3 DEF UrlInv
<1>5. ASSUME NEW j \in Jobs, Cancel(j) PROVE UrlInv'
  BY <1>1, <1>5 DEF Cancel, CancelJob, workVars, diskVars, outVars
<1>6. CASE Hub \/ UNCHANGED allVars
  BY <1>1, <1>6 DEF Hub, allVars, vars, taskVars, workVars, diskVars, outVars
<1>7. QED
  BY <1>2, <1>3, <1>4, <1>5, <1>6 DEF PipelineNext

-----------------------------------------------------------------------------
(* What a task has made by the time it has passed n steps. *)

Passed(t) == IF work[t] = "done" THEN at[t] ELSE at[t] - 1

MadeTo(renderer, made, paths, n) ==
  IF renderer = "real"
  THEN n >= 5 => \A a \in Assets : a \in made /\ paths[a] # ""
  ELSE /\ n >= 3 => "subtitle" \in made /\ paths["subtitle"] # ""
       /\ n >= 4 => "slides" \in made
       /\ n >= 5 => "video" \in made
       /\ n >= 6 => paths["video"] # ""
       /\ n >= 7 => paths["thumbnail"] # ""

Made(t) == MadeTo(setup.renderer, files[job[t]], asset[job[t]], Passed(t))

MadeInv == \A t \in Tasks : pc[t] = "running" /\ job[t] \notin shared => Made(t)

(* Later steps keep what earlier ones made. *)
Keeps(j) ==
  /\ files[j] \subseteq files'[j]
  /\ \A a \in Assets : asset[j][a] # "" => asset'[j][a] # ""

LEMMA KeptMade ==
  ASSUME NEW j, NEW n, Keeps(j), MadeTo(setup.renderer, files[j], asset[j], n)
  PROVE  MadeTo(setup.renderer, files'[j], asset'[j], n)
<1>1. "video" \in Assets /\ "subtitle" \in Assets /\ "thumbnail" \in Assets
  BY DEF Assets
<1>2. CASE setup.renderer = "real"
  BY <1>2 DEF MadeTo, Keeps
<1>3. CASE setup.renderer # "real"
  BY <1>1, <1>3 DEF MadeTo, Keeps
<1>4. QED
  BY <1>2, <1>3

LEMMA NothingMade ==
  ASSUME NEW renderer, NEW made, NEW paths, NEW n \in 0..2
  PROVE  MadeTo(renderer, made, paths, n)
<1>1. ~(n >= 3) /\ ~(n >= 4) /\ ~(n >= 5) /\ ~(n >= 6) /\ ~(n >= 7)
  OBVIOUS
<1>2. QED
  BY <1>1 DEF MadeTo

(* One more step of each renderer, put together from what was there.        *)
LEMMA OneStepMore ==
  ASSUME NEW made, NEW paths
  PROVE  /\ "subtitle" \in made /\ paths["subtitle"] # "" => MadeTo("mvp", made, paths, 3)
         /\ MadeTo("mvp", made, paths, 3) /\ "slides" \in made => MadeTo("mvp", made, paths, 4)
         /\ MadeTo("mvp", made, paths, 4) /\ "video" \in made => MadeTo("mvp", made, paths, 5)
         /\ MadeTo("mvp", made, paths, 5) /\ paths["video"] # "" =>
              MadeTo("mvp", made, paths, 6)
         /\ MadeTo("mvp", made, paths, 6) /\ paths["thumbnail"] # "" =>
              MadeTo("mvp", made, paths, 7)
<1>1. /\ 3 >= 3 /\ ~(3 >= 4) /\ ~(3 >= 5) /\ ~(3 >= 6) /\ ~(3 >= 7)
      /\ 4 >= 3 /\ 4 >= 4 /\ ~(4 >= 5) /\ ~(4 >= 6) /\ ~(4 >= 7)
      /\ 5 >= 3 /\ 5 >= 4 /\ 5 >= 5 /\ ~(5 >= 6) /\ ~(5 >= 7)
      /\ 6 >= 3 /\ 6 >= 4 /\ 6 >= 5 /\ 6 >= 6 /\ ~(6 >= 7)
  OBVIOUS
<1>2. "mvp" # "real"
  OBVIOUS
<1>3. QED
  BY <1>1, <1>2 DEF MadeTo

LEMMA RealMade ==
  ASSUME NEW made, NEW paths, NEW n \in 0..7
  PROVE  /\ n < 5 => MadeTo("real", made, paths, n)
         /\ n >= 5 => (MadeTo("real", made, paths, n) <=>
                         \A a \in Assets : a \in made /\ paths[a] # "")
<1>1. n < 5 => ~(n >= 5)
  OBVIOUS
<1>2. QED
  BY <1>1 DEF MadeTo

LEMMA OneMore == ASSUME NEW n \in Nat PROVE (n + 1) - 1 = n
OBVIOUS

LEMMA RunMade ==
  ASSUME BaseInv, MadeInv, NEW t \in Tasks, NEW j \in Jobs, j = job[t], Run(t), Local(t),
         setup' = setup, pc'[t] = "running", j \notin shared
  PROVE  Made(t)'
<1>1. TypeOK /\ WorkTypes /\ DataTypes /\ WorkInv
  BY DEF BaseInv
<1>2. setup'.renderer = setup.renderer
  OBVIOUS
<1>3. at[t] \in Nat
  BY <1>1, PipelineAssumption DEF TypeOK
<1>4. pc[t] = "running" => MadeTo(setup.renderer, files[j], asset[j], Passed(t))
  BY DEF MadeInv, Made
<1>5. ASSUME Keeps(j), Passed(t)' = Passed(t), pc[t] = "running", job'[t] = job[t]
      PROVE  Made(t)'
  <2>1. MadeTo(setup.renderer, files'[j], asset'[j], Passed(t))
    BY <1>2, <1>4, <1>5, KeptMade DEF Keeps
  <2>2. QED
    BY <1>2, <1>5, <2>1 DEF Made
<1>6. UNCHANGED <<files, asset>> => Keeps(j)
  BY DEF Keeps
<1>7. CASE StartJob(t)
  <2>1. Passed(t)' = 0
    BY <1>1, <1>7 DEF StartJob, Begin, Resumes, WorkInv, Passed, workVars
  <2>2. MadeTo(setup'.renderer, files'[job'[t]], asset'[job'[t]], 0)
    BY <1>2, NothingMade
  <2>3. QED
    BY <2>1, <2>2 DEF Made
<1>8. CASE StartStep(t)
  <2>1. at'[t] = at[t] + 1 /\ work[t] = "done" /\ work'[t] = "busy"
    BY <1>1, <1>8 DEF StartStep, NextStep, TypeOK, WorkTypes
  <2>2. Passed(t)' = Passed(t)
    BY <1>3, <2>1, OneMore DEF Passed
  <2>3. pc[t] = "running" /\ job'[t] = job[t]
    BY <1>8 DEF StartStep, NextStep, Resumes
  <2>4. QED
    BY <1>5, <1>6, <1>8, <2>2, <2>3 DEF StartStep, diskVars
<1>9. CASE FailJob(t) \/ CompleteJob(t) \/ CleanUpJob(t) \/ EndJob(t) \/ KillJob(t)
  BY <1>1, <1>9 DEF FailJob, StepFails, CompleteJob, Complete, CleanUpJob, CleanUp, EndJob,
              Skip, StopCanceled, Finish, KillJob, Killed, Quit, TypeOK
<1>10. CASE RaiseInStep(t)
  <2>1. work[t] = "busy" /\ work'[t] = "raised" /\ at' = at /\ UNCHANGED <<job, pc>>
    BY <1>1, <1>10 DEF RaiseInStep, WorkTypes, vars, taskVars
  <2>2. QED
    BY <1>5, <1>6, <1>10, <2>1 DEF RaiseInStep, Passed, Resumes, diskVars
(* The files and paths a finished step leaves. *)
<1>11. ASSUME StepDone(t), NEW renderer, NEW step, InStep(t, renderer, step)
       PROVE  /\ Passed(t) = at[t] - 1 /\ Passed(t)' = at[t]
              /\ pc[t] = "running" /\ job'[t] = j
  <2>1. work[t] = "busy" /\ work'[t] = "done" /\ pc[t] = "running"
    BY <1>1, <1>11 DEF StepDone, InStep, Resumes, WorkTypes
  <2>2. at'[t] = at[t] /\ job'[t] = j
    BY <1>11 DEF StepDone, vars, taskVars
  <2>3. QED
    BY <2>1, <2>2 DEF Passed
<1>12. ASSUME NEW new, Writes(j, new) \/ WritesMaking(j, new)
       PROVE  files[j] \subseteq files'[j] /\ new \subseteq files'[j]
  <2>1. CASE Writes(j, new)
    BY <1>1, <1>12, <2>1 DEF Writes, DataTypes
  <2>2. CASE WritesMaking(j, new)
    BY <1>1, <1>12, <2>2 DEF WritesMaking, DataTypes
  <2>3. QED
    BY <1>12, <2>1, <2>2
<1>13. ASSUME NEW a \in Assets, asset' = [asset EXCEPT ![j][a] = "path"]
       PROVE  asset'[j][a] # "" /\ \A b \in Assets : asset[j][b] # "" => asset'[j][b] # ""
  BY <1>1, <1>13 DEF DataTypes
<1>14. "video" \in Assets /\ "subtitle" \in Assets /\ "thumbnail" \in Assets
  BY DEF Assets
<1>15. CASE ValidateScript(t) \/ GenerateTts(t)
  <2>1. at[t] \in 0..2 /\ Passed(t)' = at[t]
    BY <1>1, <1>11, <1>15, InStepNumber DEF ValidateScript, GenerateTts
  <2>2. QED
    BY <2>1, NothingMade DEF Made
<1>16. CASE GenerateSubtitle(t)
  <2>1. at[t] = 3 /\ Passed(t)' = 3 /\ setup.renderer = "mvp" /\ job'[t] = j
    BY <1>1, <1>11, <1>16, InStepNumber DEF GenerateSubtitle, InStep
  <2>2. "subtitle" \in files'[j] /\ asset'[j]["subtitle"] # ""
    BY <1>12, <1>13, <1>14, <1>16 DEF GenerateSubtitle
  <2>3. QED
    BY <2>1, <2>2, OneStepMore DEF Made
<1>17. CASE RenderSlides(t)
  <2>1. at[t] = 4 /\ Passed(t) = 3 /\ Passed(t)' = 4 /\ setup.renderer = "mvp"
        /\ job'[t] = j /\ pc[t] = "running"
    BY <1>1, <1>11, <1>17, InStepNumber DEF RenderSlides, InStep
  <2>2. "slides" \in files'[j] /\ Keeps(j)
    BY <1>12, <1>17 DEF RenderSlides, Keeps
  <2>3. MadeTo("mvp", files'[j], asset'[j], 3)
    BY <1>4, <2>1, <2>2, KeptMade
  <2>4. QED
    BY <2>1, <2>2, <2>3, OneStepMore DEF Made
<1>18. CASE ComposeVideo(t)
  <2>1. at[t] = 5 /\ Passed(t) = 4 /\ Passed(t)' = 5 /\ setup.renderer = "mvp"
        /\ job'[t] = j /\ pc[t] = "running"
    BY <1>1, <1>11, <1>18, InStepNumber DEF ComposeVideo, InStep
  <2>2. "video" \in files'[j] /\ Keeps(j)
    BY <1>12, <1>18 DEF ComposeVideo, Keeps
  <2>3. MadeTo("mvp", files'[j], asset'[j], 4)
    BY <1>4, <2>1, <2>2, KeptMade
  <2>4. QED
    BY <2>1, <2>2, <2>3, OneStepMore DEF Made
<1>19. CASE UploadAssets(t)
  <2>1. at[t] = 6 /\ Passed(t) = 5 /\ Passed(t)' = 6 /\ setup.renderer = "mvp"
        /\ job'[t] = j /\ pc[t] = "running"
    BY <1>1, <1>11, <1>19, InStepNumber DEF UploadAssets, InStep
  <2>2. asset'[j]["video"] # "" /\ Keeps(j)
    BY <1>13, <1>14, <1>19 DEF UploadAssets, Keeps
  <2>3. MadeTo("mvp", files'[j], asset'[j], 5)
    BY <1>4, <2>1, <2>2, KeptMade
  <2>4. QED
    BY <2>1, <2>2, <2>3, OneStepMore DEF Made
<1>20. CASE Finalize(t)
  <2>1. at[t] = 7 /\ Passed(t) = 6 /\ Passed(t)' = 7 /\ setup.renderer = "mvp"
        /\ job'[t] = j /\ pc[t] = "running"
    BY <1>1, <1>11, <1>20, InStepNumber DEF Finalize, InStep
  <2>2. asset'[j]["thumbnail"] # "" /\ Keeps(j)
    BY <1>13, <1>14, <1>20 DEF Finalize, Keeps
  <2>3. MadeTo("mvp", files'[j], asset'[j], 6)
    BY <1>4, <2>1, <2>2, KeptMade
  <2>4. QED
    BY <2>1, <2>2, <2>3, OneStepMore DEF Made
<1>21. CASE RealValidateScript(t) \/ RealGenerateTts(t) \/ RealGenerateSubtitle(t)
              \/ RealRenderSlides(t)
  <2>1. at[t] \in 0..7 /\ at[t] < 5 /\ Passed(t)' = at[t] /\ setup.renderer = "real"
    BY <1>1, <1>11, <1>21, InStepNumber
       DEF RealValidateScript, RealGenerateTts, RealGenerateSubtitle, RealRenderSlides, InStep
  <2>2. MadeTo("real", files'[job'[t]], asset'[job'[t]], at[t])
    BY <2>1, RealMade
  <2>3. QED
    BY <1>2, <2>1, <2>2 DEF Made
<1>22. CASE RealComposeVideo(t)
  <2>1. at[t] = 5 /\ Passed(t)' = 5 /\ setup.renderer = "real" /\ job'[t] = j
    BY <1>1, <1>11, <1>22, InStepNumber DEF RealComposeVideo, InStep
  <2>2. \A a \in Assets : a \in files'[j]
    BY <1>12, <1>22 DEF RealComposeVideo, Compose
  <2>3. \A a \in Assets : asset'[j][a] # ""
    BY <1>1, <1>22 DEF RealComposeVideo, DataTypes
  <2>4. 5 \in 0..7 /\ 5 >= 5
    OBVIOUS
  <2>5. QED
    <3>1. MadeTo("real", files'[j], asset'[j], 5)
      BY <2>2, <2>3, <2>4, RealMade
    <3>2. QED
      BY <1>2, <2>1, <3>1 DEF Made
(* From the fifth step on MadeTo asks the same of the real renderer.        *)
<1>23. ASSUME Keeps(j), setup.renderer = "real", pc[t] = "running", job'[t] = j,
              Passed(t) \in 0..7, Passed(t)' \in 0..7, Passed(t) >= 5, Passed(t)' >= 5
       PROVE  Made(t)'
  <2>1. MadeTo("real", files'[j], asset'[j], Passed(t))
    BY <1>4, <1>23, KeptMade
  <2>2. MadeTo("real", files'[j], asset'[j], Passed(t)')
    BY <1>23, <2>1, RealMade
  <2>3. QED
    BY <1>2, <1>23, <2>2 DEF Made
<1>24. ASSUME NEW n, TurnFrom(t, n), at[t] = 6, at'[t] = 6, work[t] = "busy"
       PROVE  /\ Passed(t) \in 0..7 /\ Passed(t)' \in 0..7
              /\ Passed(t) >= 5 /\ Passed(t)' >= 5
  <2>1. work'[t] \in {"done", "busy"}
    BY <1>1, <1>24 DEF TurnFrom, WorkTypes
  <2>2. Passed(t) = 5 /\ Passed(t)' \in {5, 6}
    BY <1>24, <2>1 DEF Passed
  <2>3. QED
    BY <2>2
<1>25. CASE RealUploadAssets(t)
  <2>1. at[t] = 6 /\ setup.renderer = "real"
    BY <1>1, <1>25, InStepNumber DEF RealUploadAssets, InStep
  <2>2. work[t] = "busy" /\ pc[t] = "running" /\ UNCHANGED <<at, job>>
    BY <1>25 DEF RealUploadAssets, InStep, Resumes, vars, taskVars
  <2>3. Keeps(j)
    BY <1>6, <1>25 DEF RealUploadAssets, diskVars
  <2>4. QED
    BY <1>23, <1>24, <1>25, <2>1, <2>2, <2>3 DEF RealUploadAssets
<1>26. CASE PutObject(t) \/ NotifyComplete(t)
  <2>1. /\ at[t] = 6 /\ setup.renderer = "real" /\ work[t] = "busy" /\ pc[t] = "running"
        /\ UNCHANGED <<at, job>>
    BY <1>1, <1>26 DEF PutObject, NotifyComplete, InUpload, Resumes, WorkInv, Uploading,
                      vars, taskVars
  <2>2. TakesUrl(t) /\ UNCHANGED files
    BY <1>26 DEF PutObject, NotifyComplete
  <2>3. \A b \in Assets : asset[j][b] # "" => asset'[j][b] # ""
    <3>1. asset' = [asset EXCEPT ![j][Order[upload[t].turn]] = "url"]
      BY <2>2 DEF TakesUrl
    <3>2. QED
      BY <1>1, <3>1 DEF DataTypes
  <2>4. QED
    BY <1>23, <1>24, <2>1, <2>2, <2>3 DEF TakesUrl, Keeps
<1>27. CASE RequestPresign(t) \/ UploadToPresignedUrl(t) \/ TryAgain(t) \/ RealFinalize(t)
  <2>1. work[t] = "busy" /\ pc[t] = "running" /\ UNCHANGED <<at, job>>
    BY <1>27 DEF RequestPresign, UploadToPresignedUrl, TryAgain, RealFinalize, InUpload,
                 InStep, Resumes, vars, taskVars
  <2>2. work'[t] \in {"busy", "closing"}
    BY <1>1, <1>27, <2>1 DEF RequestPresign, UploadToPresignedUrl, TryAgain, RealFinalize,
                 GoesTo, WorkTypes
  <2>3. UNCHANGED <<files, asset>>
    BY <1>27 DEF RequestPresign, UploadToPresignedUrl, TryAgain, RealFinalize, diskVars
  <2>4. QED
    BY <1>5, <1>6, <2>1, <2>2, <2>3 DEF Passed
<1>28. CASE LeaveFinalize(t)
  <2>1. at[t] = 7 /\ setup.renderer = "real"
    BY <1>1, <1>28 DEF LeaveFinalize, WorkInv, Uploading
  <2>2. /\ work[t] = "closing" /\ work'[t] = "done" /\ pc[t] = "running"
        /\ UNCHANGED <<at, job, files, asset>>
    BY <1>1, <1>28 DEF LeaveFinalize, WorkTypes, Resumes, vars, taskVars, diskVars
  <2>3. Passed(t) = 6 /\ Passed(t)' = 7
    BY <2>1, <2>2 DEF Passed
  <2>4. QED
    BY <1>6, <1>23, <2>1, <2>2, <2>3
<1>29. QED
  BY <1>7, <1>8, <1>9, <1>10, <1>15, <1>16, <1>17, <1>18, <1>19, <1>20, <1>21, <1>22, <1>25,
     <1>26, <1>27, <1>28 DEF Run, RenderMvp, RenderReal

LEMMA MadeStep == BaseInv /\ MadeInv /\ [PipelineNext]_allVars => MadeInv'
<1> SUFFICES ASSUME BaseInv, MadeInv, [PipelineNext]_allVars PROVE MadeInv'
  OBVIOUS
<1>1. TypeOK /\ WorkTypes /\ DataTypes /\ WorkInv /\ Alone
  BY DEF BaseInv
<1>2. setup' = setup
  BY SetupKept
<1>3. ASSUME UNCHANGED <<files, asset, work>>,
             NEW s \in Tasks, pc'[s] = "running", job'[s] \notin shared',
             pc[s] = "running", job'[s] = job[s], at'[s] = at[s], shared \subseteq shared'
      PROVE  Made(s)'
  BY <1>2, <1>3 DEF MadeInv, Made, Passed
<1>4. ASSUME UNCHANGED <<files, asset, work, pc, job, at>>, shared \subseteq shared'
      PROVE  MadeInv'
  BY <1>3, <1>4 DEF MadeInv
<1>5. CASE Requests
  <2>1. UNCHANGED <<files, asset, work>>
    BY <1>1, <1>5, RequestsSpawn
  <2>2. CASE UNCHANGED <<pc, job, at, shared>>
    BY <1>4, <2>1, <2>2
  <2>3. ASSUME NEW t \in Tasks, NEW j \in Jobs, Spawn(t, j, "spec"), shared' = Shares(j)
        PROVE  MadeInv'
    <3>1. shared \subseteq shared'
      BY <2>3 DEF Shares
    <3>2. \A s \in Tasks : pc'[s] = "running" =>
            pc[s] = "running" /\ job'[s] = job[s] /\ at'[s] = at[s]
      BY <1>1, <2>3 DEF Spawn, TypeOK
    <3>3. QED
      BY <1>3, <2>1, <3>1, <3>2 DEF MadeInv
  <2>4. QED
    BY <1>1, <1>5, <2>2, <2>3, RequestsSpawn
<1>6. ASSUME NEW t \in Tasks, Run(t) PROVE MadeInv'
  <2>1. Local(t) /\ pc[t] # "done" /\ job[t] \in Jobs
    BY <1>1, <1>6, RunIsLocal, NoTaskNoRun, RunningHasJob
  <2>2. PICK j \in Jobs : j = job[t]
    BY <2>1
  <2>3. pc'[t] # "done" => job'[t] = job[t]
    BY <1>1, <1>6, <2>1, RunnerStep, TypeStep DEF Local, TypeOK, PipelineNext
  <2>4. pc'[t] = "running" /\ job'[t] \notin shared' => Made(t)'
    BY <1>2, <1>6, <2>1, <2>2, <2>3, RunMade DEF Local
  <2>5. ASSUME NEW s \in Tasks, s # t, pc'[s] = "running", job'[s] \notin shared'
        PROVE  Made(s)'
    <3>1. /\ pc[s] = "running" /\ job'[s] = job[s] /\ at'[s] = at[s] /\ work'[s] = work[s]
          /\ job[s] \notin shared
      BY <2>1, <2>5 DEF Local
    <3>2. job[s] \in Jobs /\ job[s] # job[t]
      BY <1>1, <2>5, <3>1, RunningHasJob DEF Alone
    <3>3. files'[job[s]] = files[job[s]] /\ asset'[job[s]] = asset[job[s]]
      BY <2>1, <3>2 DEF Local
    <3>4. QED
      BY <1>2, <3>1, <3>3 DEF MadeInv, Made, Passed
  <2>6. QED
    BY <2>4, <2>5 DEF MadeInv
<1>7. CASE RestartPipeline
  BY <1>7 DEF RestartPipeline, Restart, MadeInv
<1>8. ASSUME NEW j \in Jobs, Cancel(j) PROVE MadeInv'
  BY <1>4, <1>8 DEF Cancel, CancelJob, workVars, diskVars
<1>9. CASE Hub \/ UNCHANGED allVars
  BY <1>4, <1>9 DEF Hub, allVars, vars, taskVars, workVars, diskVars
<1>10. QED
  BY <1>5, <1>6, <1>7, <1>8, <1>9 DEF PipelineNext

-----------------------------------------------------------------------------
(* What a COMPLETED row names. *)

LEMMA BackedKept ==
  ASSUME DataTypes, NEW j \in Jobs, NEW a \in Assets, Backed(j, a), setup' = setup,
         recorded'[j] = recorded[j], files'[j] = files[j],
         stored \subseteq stored', confirmed \subseteq confirmed'
  PROVE  Backed(j, a)'
<1>1. FileOf(a)' = FileOf(a)
  BY DEF FileOf, Uploading
<1>2. CASE recorded[j][a] = ""
  BY <1>2 DEF Backed
<1>3. CASE recorded[j][a] = "path"
  BY <1>1, <1>3 DEF Backed
<1>4. CASE recorded[j][a] = "url"
  BY <1>4 DEF Backed
<1>5. recorded[j][a] \in {"", "path", "url"}
  BY DEF DataTypes
<1>6. QED
  BY <1>2, <1>3, <1>4, <1>5

LEMMA RunBacked ==
  ASSUME BaseInv, UrlInv, MadeInv, CompletedIsBacked, NEW t \in Tasks, NEW j \in Jobs,
         j = job[t], Run(t), Local(t), setup' = setup, status'[j] = "COMPLETED",
         j \notin shared, UrlsOf(j)'
  PROVE  \A a \in Assets : Backed(j, a)'
<1>1. TypeOK /\ WorkTypes /\ DataTypes /\ WorkInv /\ Settled
  BY DEF BaseInv
<1>2. CASE CompleteJob(t)
  <2>1. /\ recorded' = [recorded EXCEPT ![j] = asset[j]] /\ UNCHANGED <<files, asset>>
        /\ at[t] = 7 /\ work[t] = "done" /\ pc[t] = "running"
    BY <1>2, PipelineAssumption DEF CompleteJob, Complete, Resumes, diskVars
  <2>2. MadeTo(setup.renderer, files[j], asset[j], 7)
    BY <2>1 DEF MadeInv, Made, Passed
  <2>3. recorded'[j] = asset[j]
    BY <1>1, <2>1 DEF DataTypes
  <2>4. \A a \in Assets : asset[j][a] # "" /\ FileOf(a) \in files[j]
    <3>1. 7 >= 3 /\ 7 >= 4 /\ 7 >= 5 /\ 7 >= 6 /\ 7 >= 7
      OBVIOUS
    <3>2. CASE setup.renderer = "real"
      <4>1. \A a \in Assets : a \in files[j] /\ asset[j][a] # ""
        BY <2>2, <3>1, <3>2 DEF MadeTo
      <4>2. QED
        BY <3>2, <4>1 DEF FileOf, Uploading
    <3>3. CASE setup.renderer # "real"
      <4>1. /\ asset[j]["video"] # "" /\ asset[j]["subtitle"] # ""
            /\ asset[j]["thumbnail"] # ""
            /\ {"video", "subtitle", "slides"} \subseteq files[j]
        BY <2>2, <3>1, <3>3 DEF MadeTo
      <4>2. QED
        BY <3>3, <4>1 DEF FileOf, Uploading, Assets
    <3>4. QED
      BY <3>2, <3>3
  <2>5. \A a \in Assets : asset[j][a] \in {"", "path", "url"}
    BY <1>1 DEF DataTypes
  <2>6. QED
    BY <2>1, <2>3, <2>4, <2>5 DEF Backed, UrlsOf, FileOf, Uploading
<1>3. ASSUME ~CompleteJob(t) PROVE status[j] = "COMPLETED"
  <2>1. ASSUME UNCHANGED vars PROVE status[j] = "COMPLETED"
    BY <2>1 DEF vars, rowVars
  <2>2. CASE StartJob(t) \/ StartStep(t) \/ FailJob(t) \/ CleanUpJob(t) \/ EndJob(t)
               \/ KillJob(t)
    BY <1>1, <2>2 DEF StartJob, Begin, StartStep, NextStep, FailJob, StepFails, CleanUpJob,
          CleanUp, EndJob, Skip, StopCanceled, Finish, KillJob, Killed, SetStatus, SetError,
          rowVars, TypeOK
  <2>3. CASE RenderMvp(t)
    BY <2>1, <2>3 DEF RenderMvp, ValidateScript, GenerateTts, GenerateSubtitle, RenderSlides,
                ComposeVideo, UploadAssets, Finalize, StepDone
  <2>4. CASE RenderReal(t) \/ RaiseInStep(t)
    BY <2>1, <2>4 DEF RaiseInStep, RenderReal, RealValidateScript, RealGenerateTts,
                RealGenerateSubtitle, RealRenderSlides, RealComposeVideo, RealUploadAssets,
                PutObject, RequestPresign, UploadToPresignedUrl, NotifyComplete, TryAgain,
                RealFinalize, LeaveFinalize, StepDone
  <2>5. QED
    BY <1>3, <2>2, <2>3, <2>4 DEF Run
<1>4. ASSUME ~CompleteJob(t) PROVE StartJob(t) \/ EndJob(t) \/ KillJob(t)
  <2>1. pc[t] \notin {"running", "failing"}
    BY <1>1, <1>3, <1>4 DEF Settled
  <2>2. ~RenderMvp(t)
    BY <2>1 DEF RenderMvp, ValidateScript, GenerateTts, GenerateSubtitle, RenderSlides,
                ComposeVideo, UploadAssets, Finalize, InStep, Resumes
  <2>3. ~RenderReal(t) /\ ~RaiseInStep(t)
    BY <1>1, <2>1 DEF RaiseInStep, RenderReal, RealValidateScript, RealGenerateTts,
                RealGenerateSubtitle, RealRenderSlides, RealComposeVideo, RealUploadAssets,
                PutObject, RequestPresign, UploadToPresignedUrl, NotifyComplete, TryAgain,
                RealFinalize, LeaveFinalize, InStep, InUpload, Resumes
  <2>4. ~StartStep(t) /\ ~FailJob(t) /\ ~CleanUpJob(t)
    BY <2>1 DEF StartStep, NextStep, FailJob, StepFails, CleanUpJob, CleanUp, Resumes
  <2>5. QED
    BY <1>4, <2>2, <2>3, <2>4 DEF Run
<1>5. ASSUME ~CompleteJob(t) PROVE recorded' = recorded /\ files' = files
  BY <1>4, <1>5 DEF StartJob, EndJob, KillJob, diskVars, outVars
<1>6. ASSUME ~CompleteJob(t), NEW a \in Assets PROVE Backed(j, a)'
  <2>1. Backed(j, a)
    BY <1>3, <1>6 DEF CompletedIsBacked
  <2>2. QED
    BY <1>1, <1>5, <1>6, <2>1, BackedKept DEF Local
<1>7. QED
  BY <1>2, <1>6

LEMMA BackedStep ==
  BaseInv /\ UrlInv /\ UrlInv' /\ MadeInv /\ CompletedIsBacked /\ [PipelineNext]_allVars =>
    CompletedIsBacked'
<1> SUFFICES ASSUME BaseInv, UrlInv, UrlInv', MadeInv, CompletedIsBacked,
                    [PipelineNext]_allVars
             PROVE  CompletedIsBacked'
  OBVIOUS
<1>1. TypeOK /\ WorkTypes /\ DataTypes /\ WorkInv /\ Settled
  BY DEF BaseInv
<1>2. setup' = setup
  BY SetupKept
<1>3. ASSUME UNCHANGED <<recorded, files, stored, confirmed>>, shared \subseteq shared',
             \A j \in Jobs : status'[j] = "COMPLETED" => status[j] = "COMPLETED"
      PROVE  CompletedIsBacked'
  <2>1. ASSUME NEW j \in Jobs, NEW a \in Assets, status'[j] = "COMPLETED", j \notin shared'
        PROVE  Backed(j, a)'
    <3>1. Backed(j, a)
      BY <1>3, <2>1 DEF CompletedIsBacked
    <3>2. QED
      BY <1>1, <1>2, <1>3, <3>1, BackedKept
  <2>2. QED
    BY <2>1 DEF CompletedIsBacked
<1>4. CASE Requests
  <2>1. shared \subseteq shared'
    BY <1>1, <1>4, RequestsSpawn DEF Shares
  <2>2. QED
    BY <1>1, <1>3, <1>4, <2>1, RequestsSpawn
<1>5. ASSUME NEW t \in Tasks, Run(t) PROVE CompletedIsBacked'
  <2>1. Local(t) /\ job[t] \in Jobs
    BY <1>1, <1>5, RunIsLocal, NoTaskNoRun, RunningHasJob
  <2>2. PICK j \in Jobs : j = job[t]
    BY <2>1
  <2>3. ASSUME status'[j] = "COMPLETED", j \notin shared' PROVE \A a \in Assets : Backed(j, a)'
    <3>1. UrlsOf(j)' /\ j \notin shared
      BY <2>1, <2>3 DEF UrlInv, Local
    <3>2. QED
      BY <1>2, <1>5, <2>1, <2>2, <2>3, <3>1, RunBacked
  <2>4. ASSUME NEW i \in Jobs, i # j, NEW a \in Assets, status'[i] = "COMPLETED",
               i \notin shared'
        PROVE  Backed(i, a)'
    <3>1. /\ recorded'[i] = recorded[i] /\ files'[i] = files[i] /\ status'[i] = status[i]
          /\ stored \subseteq stored' /\ confirmed \subseteq confirmed' /\ shared' = shared
      BY <2>1, <2>2, <2>4 DEF Local
    <3>2. Backed(i, a)
      BY <2>4, <3>1 DEF CompletedIsBacked
    <3>3. QED
      BY <1>1, <1>2, <3>1, <3>2, BackedKept
  <2>5. QED
    BY <2>3, <2>4 DEF CompletedIsBacked
<1>6. CASE RestartPipeline
  <2>1. UNCHANGED <<files, stored, confirmed, shared, status>>
    BY <1>6 DEF RestartPipeline, Restart
  <2>2. ASSUME NEW j \in Jobs, status[j] = "COMPLETED", j \notin shared
        PROVE  recorded'[j] = recorded[j]
    BY <1>1, <1>6, <2>2 DEF RestartPipeline, Resumes, Settled, DataTypes
  <2>3. ASSUME NEW j \in Jobs, NEW a \in Assets, status'[j] = "COMPLETED", j \notin shared'
        PROVE  Backed(j, a)'
    <3>1. Backed(j, a) /\ recorded'[j] = recorded[j]
      BY <2>1, <2>2, <2>3 DEF CompletedIsBacked
    <3>2. QED
      BY <1>1, <1>2, <2>1, <3>1, BackedKept
  <2>4. QED
    BY <2>3 DEF CompletedIsBacked
<1>7. ASSUME NEW j \in Jobs, Cancel(j) PROVE CompletedIsBacked'
  <2>1. /\ UNCHANGED <<recorded, files, stored, confirmed, shared>>
        /\ \A i \in Jobs : status'[i] = "COMPLETED" => status[i] = "COMPLETED"
    BY <1>1, <1>7 DEF Cancel, CancelJob, SetError, TypeOK, diskVars, outVars
  <2>2. QED
    BY <1>3, <2>1
<1>8. CASE Hub \/ UNCHANGED allVars
  BY <1>3, <1>8 DEF Hub, allVars, vars, rowVars, diskVars, outVars
<1>9. QED
  BY <1>4, <1>5, <1>6, <1>7, <1>8 DEF PipelineNext

PipelineInv == BaseInv /\ UrlInv /\ MadeInv /\ CompletedIsBacked

LEMMA PipelineInvInit == PipelineInit => PipelineInv
<1> SUFFICES ASSUME PipelineInit PROVE PipelineInv
  OBVIOUS
<1>1. TypeOK
  BY TypeInit DEF PipelineInit
<1>2. WorkTypes /\ DataTypes
  <2>1. NoUpload \in Uploads
    BY PipelineAssumption DEF NoUpload, Uploads
  <2>2. WorkTypes
    BY <2>1 DEF PipelineInit, WorkTypes
  <2>3. NoAssets \in [Assets -> {"", "path", "url"}]
    BY DEF NoAssets
  <2>4. DataTypes
    BY <2>3 DEF PipelineInit, DataTypes
  <2>5. QED
    BY <2>2, <2>4
<1>3. WorkInv
  BY DEF PipelineInit, Init, WorkInv, NoUpload
<1>4. Alone /\ Settled
  BY DEF PipelineInit, Init, Alone, Settled
<1>5. UrlInv
  <2>1. \A t \in Tasks : ~(upload[t].turn > 0)
    BY DEF PipelineInit, NoUpload
  <2>2. QED
    BY <2>1 DEF PipelineInit, UrlInv, UrlsOf, Awaiting, ConfirmedIsStored, NoAssets
<1>6. MadeInv /\ CompletedIsBacked
  BY DEF PipelineInit, Init, MadeInv, CompletedIsBacked
<1>7. QED
  BY <1>1, <1>2, <1>3, <1>4, <1>5, <1>6 DEF PipelineInv, BaseInv

LEMMA PipelineInvStep == PipelineInv /\ [PipelineNext]_allVars => PipelineInv'
<1> SUFFICES ASSUME PipelineInv, [PipelineNext]_allVars PROVE PipelineInv'
  OBVIOUS
<1>1. TypeOK'
  BY RunnerStep, TypeStep DEF PipelineInv, BaseInv
<1>2. WorkTypes' /\ DataTypes' /\ WorkInv'
  BY WorkStep, DataStep, WorkInvStep DEF PipelineInv, BaseInv
<1>3. Alone' /\ Settled'
  BY AloneStep DEF PipelineInv
<1>4. UrlInv' /\ MadeInv'
  BY UrlStep, MadeStep DEF PipelineInv
<1>5. CompletedIsBacked'
  BY <1>4, BackedStep DEF PipelineInv
<1>6. QED
  BY <1>1, <1>2, <1>3, <1>4, <1>5 DEF PipelineInv, BaseInv

LEMMA PipelineCorrect == PipelineSpec => []PipelineInv
BY PipelineInvInit, PipelineInvStep, PTL DEF PipelineSpec

(* What the row of a COMPLETED job names exists, for both renderers and     *)
(* every storage, through failed and repeated requests, retries and         *)
(* restarts, unless two tasks worked on the job at once.                    *)
THEOREM BackedSafe == PipelineSpec => []CompletedIsBacked
<1>1. PipelineInv => CompletedIsBacked
  BY DEF PipelineInv
<1>2. QED
  BY <1>1, PipelineCorrect, PTL

(* The backend is told that an upload is complete only once the object is   *)
(* stored (_notify_complete).                                               *)
THEOREM ConfirmedSafe == PipelineSpec => []ConfirmedIsStored
<1>1. PipelineInv => ConfirmedIsStored
  BY DEF PipelineInv, UrlInv
<1>2. QED
  BY <1>1, PipelineCorrect, PTL
=============================================================================
