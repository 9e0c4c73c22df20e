------------------------------ MODULE RenderJob ------------------------------
(***************************************************************************)
(* The render job runner: rows of the SQLite table render_jobs, the        *)
(* asyncio tasks that execute them, the in-memory table _running_jobs, and *)
(* the HTTP handlers that create, start, retry and cancel jobs.            *)
(*                                                                         *)
(* One asyncio process runs everything, so an action is what happens       *)
(* between two suspension points (awaits).  Rows survive a restart, tasks, *)
(* handlers and _running_jobs do not.                                      *)
(***************************************************************************)
EXTENDS Naturals

CONSTANTS
  Jobs,      \* job ids, issued by the backend or by create_job
  Videos,    \* video ids
  VideoOf,   \* the video each job renders
  Tasks,     \* asyncio tasks; bounds the executors alive at once
  Callers,   \* start_job calls that can be waiting for the backend at once
  NumSteps,  \* length of the pipeline (7 RenderSteps in the code)
  Api,       \* the operations the environment uses, see Operations
  NoTask,    \* no entry in _running_jobs
  NoJob      \* no start_job call in progress, or no job left to execute

Operations == {"create", "internal", "start", "retry", "cancel", "restart"}

ASSUME ConstantsAssumption ==
  /\ VideoOf \in [Jobs -> Videos]
  /\ NumSteps \in Nat \ {0}
  /\ Api \subseteq Operations
  /\ NoTask \notin Tasks
  /\ NoJob \notin Jobs

VARIABLES
  status,    \* row.status, "NONE" when there is no row
  code,      \* row.error_code, "NONE" when NULL
  spec,      \* row.has_render_spec()
  assets,    \* row.assets holds the rendered files
  progress,  \* row.progress: steps passed, NumSteps stands for 100
  running,   \* _running_jobs: the task recorded for a job
  pc,        \* where each task is suspended
  job,       \* the job a task executes, NoJob once it has ended
  kind,      \* _execute_job ("script") or _execute_job_with_spec ("spec")
  at,        \* the step a task is in, 0 before the loop
  canceled,  \* task.cancel() was called, CancelledError not delivered yet
  fetching,  \* the job whose render-spec a start_job call is waiting for
  callbacks, \* jobs with a completion callback under way
  told,      \* jobs the backend was told are COMPLETED
  epoch      \* 0 until the first restart of the process, then 1

rowVars  == <<status, code, spec, assets, progress>>
taskVars == <<pc, job, kind, at, canceled>>
vars     == <<rowVars, running, taskVars, fetching, callbacks, told, epoch>>

Statuses == {"NONE", "QUEUED", "PROCESSING", "COMPLETED", "FAILED"}
Codes    == {"NONE", "CANCELED", "FETCH", "NO_SPEC", "STORAGE_UPLOAD_FAILED", "RENDER"}
Kinds    == {"script", "spec"}
PCs      == {"done", "new", "running", "finishing", "failing"}

TypeOK ==
  /\ status \in [Jobs -> Statuses]
  /\ code \in [Jobs -> Codes]
  /\ spec \in [Jobs -> BOOLEAN]
  /\ assets \in [Jobs -> BOOLEAN]
  /\ progress \in [Jobs -> 0..NumSteps]
  /\ running \in [Jobs -> Tasks \cup {NoTask}]
  /\ pc \in [Tasks -> PCs]
  /\ job \in [Tasks -> Jobs \cup {NoJob}]
  /\ kind \in [Tasks -> Kinds]
  /\ at \in [Tasks -> 0..NumSteps]
  /\ canceled \in [Tasks -> BOOLEAN]
  /\ fetching \in [Callers -> Jobs \cup {NoJob}]
  /\ callbacks \subseteq Jobs
  /\ told \subseteq Jobs
  /\ epoch \in {0, 1}
  /\ \A t \in Tasks : pc[t] = "done" <=> job[t] = NoJob

Init ==
  /\ status = [j \in Jobs |-> "NONE"]
  /\ code = [j \in Jobs |-> "NONE"]
  /\ spec = [j \in Jobs |-> FALSE]
  /\ assets = [j \in Jobs |-> FALSE]
  /\ progress = [j \in Jobs |-> 0]
  /\ running = [j \in Jobs |-> NoTask]
  /\ pc = [t \in Tasks |-> "done"]
  /\ job = [t \in Tasks |-> NoJob]
  /\ kind = [t \in Tasks |-> "spec"]
  /\ at = [t \in Tasks |-> 0]
  /\ canceled = [t \in Tasks |-> FALSE]
  /\ fetching = [c \in Callers |-> NoJob]
  /\ callbacks = {}
  /\ told = {}
  /\ epoch = 0

-----------------------------------------------------------------------------
(* The entity's predicates. *)

IsActive(j) == status[j] \in {"QUEUED", "PROCESSING"}

IsCanceled(j) == status[j] = "FAILED" /\ code[j] = "CANCELED"

(* Repository writes: update_status, and update_error, which leaves progress. *)
SetStatus(j, s, p) ==
  /\ status' = [status EXCEPT ![j] = s]
  /\ progress' = [progress EXCEPT ![j] = p]

SetError(j, c) ==
  /\ status' = [status EXCEPT ![j] = "FAILED"]
  /\ code' = [code EXCEPT ![j] = c]

(* save, get_active_by_video_id, update_render_spec and update_assets. *)
SaveRow(j) == SetStatus(j, "QUEUED", 0)

VideoIsBusy(j) == \E i \in Jobs : VideoOf[i] = VideoOf[j] /\ IsActive(i)

SaveSnapshot(j) == spec' = [spec EXCEPT ![j] = TRUE]

SaveAssets(j) == assets' = [assets EXCEPT ![j] = TRUE]

(* asyncio.create_task plus the entry in _running_jobs, which replaces any  *)
(* older entry of the job.  A task no longer referenced stands for a fresh  *)
(* one.                                                                     *)
Spawn(t, j, k) ==
  /\ pc[t] = "done"
  /\ \A i \in Jobs : running[i] # t
  /\ pc' = [pc EXCEPT ![t] = "new"]
  /\ job' = [job EXCEPT ![t] = j]
  /\ kind' = [kind EXCEPT ![t] = k]
  /\ at' = [at EXCEPT ![t] = 0]
  /\ canceled' = [canceled EXCEPT ![t] = FALSE]
  /\ running' = [running EXCEPT ![j] = t]

-----------------------------------------------------------------------------
(* Operations of the runner, called by HTTP handlers. *)

(* Variants: only PROCESSING jobs count, or no job does. *)
CreateJob_OnlyProcessing(j) ==
  /\ "create" \in Api
  /\ status[j] = "NONE"
  /\ \A i \in Jobs : VideoOf[i] = VideoOf[j] => status[i] # "PROCESSING"
  /\ SaveRow(j)
  /\ \E t \in Tasks : Spawn(t, j, "script")
  /\ UNCHANGED <<code, spec, assets, fetching, callbacks, told, epoch>>

CreateJob_Unchecked(j) ==
  /\ "create" \in Api
  /\ status[j] = "NONE"
  /\ SaveRow(j)
  /\ \E t \in Tasks : Spawn(t, j, "script")
  /\ UNCHANGED <<code, spec, assets, fetching, callbacks, told, epoch>>

(* create_job: refused while the video has an active job; the executor is   *)
(* started at once on the script the caller passed.                         *)
CreateJob(j) ==
  /\ "create" \in Api
  /\ status[j] = "NONE"
  /\ ~VideoIsBusy(j)
  /\ SaveRow(j)
  /\ \E t \in Tasks : Spawn(t, j, "script")
  /\ UNCHANGED <<code, spec, assets, fetching, callbacks, told, epoch>>

(* POST /internal/ai/render-jobs: create_job_with_id, and when the row is   *)
(* new start_job, up to its wait for the render-spec.                       *)
CreateInternal(j, c) ==
  /\ "internal" \in Api
  /\ fetching[c] = NoJob
  /\ status[j] = "NONE"
  /\ SaveRow(j)
  /\ fetching' = [fetching EXCEPT ![c] = j]
  /\ UNCHANGED <<code, spec, assets, running, taskVars, callbacks, told, epoch>>

(* start_job of a row without snapshot: ask the backend for the spec. *)
StartFetch(j, c) ==
  /\ "start" \in Api
  /\ fetching[c] = NoJob
  /\ status[j] # "NONE"
  /\ ~spec[j]
  /\ fetching' = [fetching EXCEPT ![c] = j]
  /\ UNCHANGED <<rowVars, running, taskVars, callbacks, told, epoch>>

(* start_job of a row with a snapshot: a no-op unless it is QUEUED. *)
StartWithSpec(j) ==
  /\ "start" \in Api
  /\ spec[j]
  /\ status[j] \notin {"NONE", "PROCESSING", "COMPLETED", "FAILED"}
  /\ \E t \in Tasks : Spawn(t, j, "spec")
  /\ UNCHANGED <<rowVars, fetching, callbacks, told, epoch>>

(* start_job resumes with a spec: snapshot saved, executor started, without *)
(* looking at what happened to the row during the wait.                     *)
FetchOk(c) ==
  /\ fetching[c] # NoJob
  /\ SaveSnapshot(fetching[c])
  /\ \E t \in Tasks : Spawn(t, fetching[c], "spec")
  /\ fetching' = [fetching EXCEPT ![c] = NoJob]
  /\ UNCHANGED <<status, code, assets, progress, callbacks, told, epoch>>

(* Variant: the error is returned to the caller and the row left alone. *)
FetchFailed_RowKept(c) ==
  /\ fetching[c] # NoJob
  /\ fetching' = [fetching EXCEPT ![c] = NoJob]
  /\ UNCHANGED <<rowVars, running, taskVars, callbacks, told, epoch>>

(* ScriptFetchError or EmptyRenderSpecError: the job fails. *)
FetchFailed(c) ==
  /\ fetching[c] # NoJob
  /\ SetError(fetching[c], "FETCH")
  /\ fetching' = [fetching EXCEPT ![c] = NoJob]
  /\ UNCHANGED <<spec, assets, progress, running, taskVars, callbacks, told, epoch>>

(* get_render_spec ends, one way or the other. *)
Fetched(c) == FetchOk(c) \/ FetchFailed(c)

(* retry_job: any row with a snapshot that is not PROCESSING goes back to   *)
(* QUEUED; error_code and assets stay.                                      *)
RetryJob(j) ==
  /\ "retry" \in Api
  /\ status[j] \notin {"NONE", "PROCESSING"}
  /\ spec[j]
  /\ SetStatus(j, "QUEUED", 0)
  /\ \E t \in Tasks : Spawn(t, j, "spec")
  /\ UNCHANGED <<code, spec, assets, fetching, callbacks, told, epoch>>

(* Variants: only the task is cancelled, or only the row is failed. *)
CancelJob_TaskOnly(j) ==
  /\ "cancel" \in Api
  /\ IsActive(j)
  /\ canceled' = [t \in Tasks |-> canceled[t] \/ (t = running[j] /\ pc[t] # "done")]
  /\ running' = [running EXCEPT ![j] = NoTask]
  /\ UNCHANGED <<rowVars, pc, job, kind, at, fetching, callbacks, told, epoch>>

(* cancel_job: the row is failed first, then the recorded task is cancelled *)
(* and forgotten.  Cancelling a task that has ended has no effect.          *)
CancelJob(j) ==
  /\ "cancel" \in Api
  /\ IsActive(j)
  /\ SetError(j, "CANCELED")
  /\ canceled' = [t \in Tasks |-> canceled[t] \/ (t = running[j] /\ pc[t] # "done")]
  /\ running' = [running EXCEPT ![j] = NoTask]
  /\ UNCHANGED <<spec, assets, progress, pc, job, kind, at, fetching, callbacks, told, epoch>>

-----------------------------------------------------------------------------
(* The executor: _execute_job and _execute_job_with_spec. *)

Resumes(t, where) == pc[t] = where /\ ~canceled[t]

(* The finally block: drop the job's entry, whichever task it names. *)
Finally(t) == running' = [running EXCEPT ![job[t]] = NoTask]

(* The task ends; its record is blank until create_task uses it again. *)
Quit(t) ==
  /\ pc' = [pc EXCEPT ![t] = "done"]
  /\ job' = [job EXCEPT ![t] = NoJob]
  /\ kind' = [kind EXCEPT ![t] = "spec"]
  /\ at' = [at EXCEPT ![t] = 0]
  /\ canceled' = [canceled EXCEPT ![t] = FALSE]

(* Variant: the entry is dropped when the executor starts. *)
Begin_Forgets(t) ==
  /\ Resumes(t, "new")
  /\ kind[t] = "spec" => spec[job[t]]
  /\ ~IsCanceled(job[t])
  /\ SetStatus(job[t], "PROCESSING", 0)
  /\ pc' = [pc EXCEPT ![t] = "running"]
  /\ Finally(t)
  /\ UNCHANGED <<code, spec, assets, job, kind, at, canceled,
                 fetching, callbacks, told, epoch>>

(* Up to the first notification: row to PROCESSING. *)
Begin(t) ==
  /\ Resumes(t, "new")
  /\ kind[t] = "spec" => spec[job[t]]
  /\ ~IsCanceled(job[t])
  /\ SetStatus(job[t], "PROCESSING", 0)
  /\ pc' = [pc EXCEPT ![t] = "running"]
  /\ UNCHANGED <<code, spec, assets, running, job, kind, at, canceled,
                 fetching, callbacks, told, epoch>>

(* A canceled job, or one without snapshot, is left before the try block:   *)
(* the entry in _running_jobs stays.                                        *)
Skip(t) ==
  /\ Resumes(t, "new")
  /\ \/ kind[t] = "spec" /\ ~spec[job[t]]
     \/ IsCanceled(job[t])
  /\ IF kind[t] = "spec" /\ ~spec[job[t]]
     THEN SetError(job[t], "NO_SPEC")
     ELSE UNCHANGED <<status, code>>
  /\ Quit(t)
  /\ UNCHANGED <<spec, assets, progress, running, fetching, callbacks, told, epoch>>

(* Variant: the last step has no entry in STEP_PROGRESS_MAP and counts as 0. *)
NextStep_Unmapped(t) ==
  /\ Resumes(t, "running")
  /\ at[t] < NumSteps
  /\ ~IsCanceled(job[t])
  /\ SetStatus(job[t], "PROCESSING", IF at[t] + 1 = NumSteps THEN 0 ELSE at[t])
  /\ at' = [at EXCEPT ![t] = @ + 1]
  /\ UNCHANGED <<code, spec, assets, running, pc, job, kind, canceled,
                 fetching, callbacks, told, epoch>>

(* The loop head and the step's writes, then notify and render. *)
NextStep(t) ==
  /\ Resumes(t, "running")
  /\ at[t] < NumSteps
  /\ ~IsCanceled(job[t])
  /\ SetStatus(job[t], "PROCESSING", at[t])
  /\ at' = [at EXCEPT ![t] = @ + 1]
  /\ UNCHANGED <<code, spec, assets, running, pc, job, kind, canceled,
                 fetching, callbacks, told, epoch>>

(* The loop head finds the row canceled and returns. *)
StopCanceled(t) ==
  /\ Resumes(t, "running")
  /\ at[t] < NumSteps
  /\ IsCanceled(job[t])
  /\ Finally(t)
  /\ Quit(t)
  /\ UNCHANGED <<rowVars, fetching, callbacks, told, epoch>>

(* Variant: the status is written, the assets are not. *)
Complete_NoAssets(t) ==
  /\ Resumes(t, "running")
  /\ at[t] = NumSteps
  /\ SetStatus(job[t], "COMPLETED", NumSteps)
  /\ pc' = [pc EXCEPT ![t] = "finishing"]
  /\ UNCHANGED <<code, spec, assets, running, job, kind, at, canceled,
                 fetching, callbacks, told, epoch>>

(* The last step is over: assets, then COMPLETED, whatever the row says. *)
Complete(t) ==
  /\ Resumes(t, "running")
  /\ at[t] = NumSteps
  /\ SaveAssets(job[t])
  /\ SetStatus(job[t], "COMPLETED", NumSteps)
  /\ pc' = [pc EXCEPT ![t] = "finishing"]
  /\ UNCHANGED <<code, spec, running, job, kind, at, canceled,
                 fetching, callbacks, told, epoch>>

(* COMPLETED was broadcast: the completion callback gets its own task. *)
Finish(t) ==
  /\ Resumes(t, "finishing")
  /\ callbacks' = callbacks \cup {job[t]}
  /\ Finally(t)
  /\ Quit(t)
  /\ UNCHANGED <<rowVars, fetching, told, epoch>>

(* A step raises: StorageUploadError or any other exception. *)
StepFails(t) ==
  /\ Resumes(t, "running")
  /\ at[t] > 0
  /\ \E c \in {"STORAGE_UPLOAD_FAILED", "RENDER"} : SetError(job[t], c)
  /\ pc' = [pc EXCEPT ![t] = "failing"]
  /\ UNCHANGED <<spec, assets, progress, running, job, kind, at, canceled,
                 fetching, callbacks, told, epoch>>

(* FAILED was broadcast, temporary files are removed. *)
CleanUp(t) ==
  /\ Resumes(t, "failing")
  /\ Finally(t)
  /\ Quit(t)
  /\ UNCHANGED <<rowVars, fetching, callbacks, told, epoch>>

(* CancelledError arrives.  A task that has not started never runs, and the *)
(* notification that precedes the try block has no finally.                 *)
Killed(t) ==
  /\ canceled[t]
  /\ pc[t] # "done"
  /\ IF pc[t] = "new" \/ (pc[t] = "running" /\ at[t] = 0)
     THEN UNCHANGED running
     ELSE Finally(t)
  /\ Quit(t)
  /\ UNCHANGED <<rowVars, fetching, callbacks, told, epoch>>

-----------------------------------------------------------------------------
(* _notify_job_complete: one POST, never repeated; a failure is only logged. *)
CallbackDelivered(j) ==
  /\ j \in callbacks
  /\ callbacks' = callbacks \ {j}
  /\ told' = told \cup {j}
  /\ UNCHANGED <<rowVars, running, taskVars, fetching, epoch>>

CallbackLost(j) ==
  /\ j \in callbacks
  /\ callbacks' = callbacks \ {j}
  /\ UNCHANGED <<rowVars, running, taskVars, fetching, told, epoch>>

(* The process dies and comes back: only rows and what the backend knows    *)
(* are left.  It may die between the two commits of Complete.               *)
Restart ==
  /\ "restart" \in Api
  /\ \/ UNCHANGED assets
     \/ \E t \in Tasks :
          /\ Resumes(t, "running")
          /\ at[t] = NumSteps
          /\ SaveAssets(job[t])
  /\ running' = [j \in Jobs |-> NoTask]
  /\ pc' = [t \in Tasks |-> "done"]
  /\ job' = [t \in Tasks |-> NoJob]
  /\ kind' = [t \in Tasks |-> "spec"]
  /\ at' = [t \in Tasks |-> 0]
  /\ canceled' = [t \in Tasks |-> FALSE]
  /\ fetching' = [c \in Callers |-> NoJob]
  /\ callbacks' = {}
  /\ epoch' = 1
  /\ UNCHANGED <<status, code, spec, progress, told>>

Execute(t) ==
  \/ Begin(t)
  \/ Skip(t)
  \/ NextStep(t)
  \/ StopCanceled(t)
  \/ Complete(t)
  \/ Finish(t)
  \/ StepFails(t)
  \/ CleanUp(t)
  \/ Killed(t)

Next ==
  \/ \E j \in Jobs :
       \/ CreateJob(j)
       \/ StartWithSpec(j)
       \/ RetryJob(j)
       \/ CancelJob(j)
       \/ CallbackDelivered(j)
       \/ CallbackLost(j)
  \/ \E j \in Jobs, c \in Callers : CreateInternal(j, c) \/ StartFetch(j, c)
  \/ \E c \in Callers : Fetched(c)
  \/ \E t \in Tasks : Execute(t)
  \/ Restart

Spec == Init /\ [][Next]_vars

-----------------------------------------------------------------------------
(* Properties. *)

(* The tasks that will still write a job's row: started or about to be, and *)
(* neither canceled nor past their last write.                              *)
Live(t, j) == job[t] = j /\ pc[t] \in {"new", "running"} /\ ~canceled[t]

(* A task is rendering the job and will see it through. *)
Driven(j) == \E t \in Tasks : Live(t, j) /\ pc[t] = "running"

Orphan(j) == status[j] = "PROCESSING" /\ ~Driven(j)

(* A row in PROCESSING always has an executor at work, however starts,      *)
(* retries, cancellations and failures interleave: only a restart of the    *)
(* process leaves one behind.                                               *)
OnlyRestartOrphans ==
  [][\A j \in Jobs : Orphan(j)' => Orphan(j) \/ epoch' = 1]_vars

(* Nobody works on the row and no start_job call is about to. *)
Abandoned(j) ==
  /\ status[j] = "PROCESSING"
  /\ \A t \in Tasks : job[t] # j
  /\ \A c \in Callers : fetching[c] # j

(* An abandoned row that has a snapshot is stuck: start_job is a no-op,     *)
(* retry_job refuses it, create_job returns it.  Only cancel_job, which no  *)
(* HTTP route calls, gets it out of PROCESSING.                             *)
AbandonedNeedsCancel ==
  [][\A j \in Jobs :
       Abandoned(j) /\ spec[j] => Abandoned(j)' \/ IsCanceled(j)']_vars

(* What the backend was told is COMPLETED has its files recorded, even when *)
(* the process died between the two commits or the job was retried since.   *)
ToldHasAssets == \A j \in told \cup callbacks : assets[j]

(* _execute_job_with_spec never finds its snapshot missing, so its          *)
(* NO_RENDER_SPEC branch is dead code.                                      *)
SnapshotBeforeExecution ==
  \A t \in Tasks : pc[t] # "done" /\ kind[t] = "spec" => spec[job[t]]

(* At most one task can still write the rows of a video. *)
OneExecutorPerVideo ==
  \A t, u \in Tasks : \A i, j \in Jobs :
    Live(t, i) /\ Live(u, j) /\ VideoOf[i] = VideoOf[j] => t = u

(* Calling start_job repeatedly is safe: a job is never rendered twice at   *)
(* the same time.  So render_jobs.py:266 says; two calls on a QUEUED row    *)
(* break it.                                                                *)
RenderedOnceAtATime ==
  \A t, u \in Tasks : \A j \in Jobs :
    Live(t, j) /\ Live(u, j) /\ pc[t] = "running" /\ pc[u] = "running" => t = u

(* cancel_job can reach the executor of every active job. *)
CancelReachesExecutor ==
  \A t \in Tasks : \A j \in Jobs : Live(t, j) /\ IsActive(j) => running[j] = t

(* Clients never see the progress of a job go back while it is rendered. *)
ProgressNeverRegresses ==
  [][\A j \in Jobs :
       status[j] = "PROCESSING" /\ status'[j] \in {"PROCESSING", "COMPLETED"}
         => progress'[j] >= progress[j]]_vars

(* With creation and cancellation alone the runner implements the life of a *)
(* job its documentation draws.                                             *)
Lifecycle == INSTANCE RenderJobLifecycle
  WITH phase <- status,
       rendering <- {j \in Jobs : \E t \in Tasks : Live(t, j)}

ImplementsLifecycle == Lifecycle!Spec

(* Fairness: the event loop runs what is runnable, the backend answers or   *)
(* times out, a pipeline step returns or raises, a callback ends.           *)
Fairness ==
  /\ \A t \in Tasks : WF_vars(Execute(t))
  /\ \A c \in Callers : WF_vars(Fetched(c))
  /\ \A j \in Jobs : WF_vars(CallbackDelivered(j) \/ CallbackLost(j))

FairSpec == Spec /\ Fairness

(* No job renders for ever, unless the process restarts. *)
ProcessingEnds ==
  \A j \in Jobs :
    status[j] = "PROCESSING" ~> status[j] # "PROCESSING" \/ epoch = 1

(* A job that was accepted gets an outcome, whatever calls follow, unless   *)
(* the process restarts.                                                    *)
AcceptedJobSettles ==
  \A j \in Jobs :
    status[j] = "QUEUED" ~> status[j] \in {"COMPLETED", "FAILED"} \/ epoch = 1

=============================================================================
