--------------------------- MODULE RenderPipeline ---------------------------
(***************************************************************************)
(* The job runner composed with what a job works on: the renderer's        *)
(* context and directory, the storage the real renderer uploads to, and    *)
(* the progress hub the steps report to.  Every step of an executor is the *)
(* step of RenderJob with its effects here; a step waits for the broadcast *)
(* before it.                                                              *)
(*                                                                         *)
(* Routes install the MVP renderer, whose files are the assets; the real   *)
(* renderer uploads them, to a storage of its own or through URLs the      *)
(* backend signs and has confirmed.                                        *)
(***************************************************************************)
EXTENDS ProgressHub

CONSTANTS
  Setups,    \* configurations to start in, see SetupKinds
  RetryMax   \* STORAGE_UPLOAD_RETRY_MAX (3)

(* The renderer, whether its storage signs URLs, and three bounds: the      *)
(* tasks and the sockets in use at once, and which disturbances there are.  *)
SetupKinds ==
  {k \in [renderer : {"mvp", "real"}, signed : BOOLEAN, tasks : SUBSET Tasks,
          sockets : SUBSET Sockets, calls : SUBSET {"cancel", "restart"}] :
     k.signed => k.renderer = "real"}

ASSUME PipelineAssumption ==
  /\ NumSteps = 7
  /\ Setups \subseteq SetupKinds
  /\ RetryMax \in Nat

VARIABLES
  setup,     \* the configuration; never changes
  work,      \* what the step a task is in still has to do
  upload,    \* the upload a task is in
  context,   \* jobs the renderer has a context for
  dir,       \* jobs whose output directory exists
  files,     \* files in it
  slides,    \* slides_paths in the context: 0, 1 once over, 2 more often
  asset,     \* the assets of the context: no path, a local path, a URL
  recorded,  \* the assets update_assets wrote into the row
  stored,    \* objects in the storage, by job and asset
  confirmed, \* objects the backend was told are complete
  shared     \* history: jobs that had two tasks at once

workVars == <<work, upload>>
diskVars == <<context, dir, files, slides, asset>>
outVars  == <<recorded, stored, confirmed>>
allVars  == <<vars, hubVars, setup, workVars, diskVars, outVars, shared>>

Assets == {"video", "subtitle", "thumbnail"}

Files == Assets \cup {"audio", "slides"}

(* RenderStep, in the order of the pipeline. *)
Steps == <<"VALIDATE_SCRIPT", "GENERATE_TTS", "GENERATE_SUBTITLE",
           "RENDER_SLIDES", "COMPOSE_VIDEO", "UPLOAD_ASSETS", "FINALIZE">>

(* An upload in progress: the how manieth asset, the request, failed tries. *)
NoUpload == [turn |-> 0, phase |-> "put", tries |-> 0]

Uploads == [turn : 0..3, phase : {"presign", "put", "complete"}, tries : 0..RetryMax]

PipelineTypeOK ==
  /\ setup \in Setups
  /\ work \in [Tasks -> {"done", "busy", "raised", "closing"}]
  /\ upload \in [Tasks -> Uploads]
  /\ context \subseteq Jobs
  /\ dir \subseteq Jobs
  /\ files \in [Jobs -> SUBSET Files]
  /\ slides \in [Jobs -> 0..2]
  /\ asset \in [Jobs -> [Assets -> {"", "path", "url"}]]
  /\ recorded \in [Jobs -> [Assets -> {"", "path", "url"}]]
  /\ stored \subseteq Jobs \X Assets
  /\ confirmed \subseteq Jobs \X Assets
  /\ shared \subseteq Jobs

NoAssets == [a \in Assets |-> ""]

PipelineInit ==
  /\ Init
  /\ HubInit
  /\ setup \in Setups
  /\ work = [t \in Tasks |-> "done"]
  /\ upload = [t \in Tasks |-> NoUpload]
  /\ context = {}
  /\ dir = {}
  /\ files = [j \in Jobs |-> {}]
  /\ slides = [j \in Jobs |-> 0]
  /\ asset = [j \in Jobs |-> NoAssets]
  /\ recorded = [j \in Jobs |-> NoAssets]
  /\ stored = {}
  /\ confirmed = {}
  /\ shared = {}

Uploading == setup.renderer = "real"

-----------------------------------------------------------------------------
(* Calls of the API and of the backend.  Fetches and retries say nothing to *)
(* the hub; cancel_job broadcasts FAILED.  Completion callbacks are         *)
(* RenderJob's and left out here.                                           *)

Shares(j) == IF \E t \in Tasks : job[t] = j THEN shared \cup {j} ELSE shared

Requests ==
  /\ \/ /\ \E j \in Jobs, c \in Callers : CreateInternal(j, c) \/ StartFetch(j, c)
        /\ UNCHANGED shared
     \/ \E c \in Callers : FetchOk(c) /\ shared' = Shares(fetching[c])
     \/ /\ \E c \in Callers : FetchFailed(c)
        /\ UNCHANGED shared
     \/ \E j \in Jobs : RetryJob(j) /\ shared' = Shares(j)
  /\ \A t \in Tasks : pc'[t] # "done" => t \in setup.tasks
  /\ UNCHANGED <<hubVars, setup, workVars, diskVars, outVars>>

(* Variant: the clients are not told. *)
Cancel_Silent(j) ==
  /\ "cancel" \in setup.calls
  /\ Quiet(j)
  /\ CancelJob(j)
  /\ UNCHANGED <<hubVars, setup, workVars, diskVars, outVars, shared>>

Cancel(j) ==
  /\ "cancel" \in setup.calls
  /\ Quiet(j)
  /\ CancelJob(j)
  /\ Announce(j, j, "FAILED")
  /\ UNCHANGED <<link, wanted, members, filter, seen>>
  /\ UNCHANGED <<setup, workVars, diskVars, outVars, shared>>

-----------------------------------------------------------------------------
(* The executor around the renderer. *)

Reports(t, e) ==
  /\ Announce(t, job[t], e)
  /\ UNCHANGED <<link, wanted, members, filter, seen>>

StartJob(t) ==
  /\ Begin(t)
  /\ Reports(t, "PROCESSING")
  /\ UNCHANGED <<setup, workVars, diskVars, outVars, shared>>

(* The loop head writes the step into the row and reports it.  The real     *)
(* renderer reports a step once more when it enters and when it has passed  *)
(* it: equal events in a row are one here.                                  *)
StartStep(t) ==
  /\ Quiet(t) /\ work[t] = "done"
  /\ NextStep(t)
  /\ work' = [work EXCEPT ![t] = "busy"]
  /\ Reports(t, "PROCESSING")
  /\ UNCHANGED <<setup, upload, diskVars, outVars, shared>>

(* get_rendered_assets and update_assets, then COMPLETED in the row, then   *)
(* the report.                                                              *)
CompleteJob(t) ==
  /\ Quiet(t) /\ work[t] = "done"
  /\ Complete(t)
  /\ recorded' = [recorded EXCEPT ![job[t]] = asset[job[t]]]
  /\ Reports(t, "COMPLETED")
  /\ UNCHANGED <<setup, workVars, diskVars, stored, confirmed, shared>>

FailJob(t) ==
  /\ Quiet(t) /\ work[t] = "raised"
  /\ StepFails(t)
  /\ work' = [work EXCEPT ![t] = "done"]
  /\ Reports(t, "FAILED")
  /\ UNCHANGED <<setup, upload, diskVars, outVars, shared>>

(* _cleanup_job_files after the report: the directory goes, or stays when   *)
(* rmtree fails.                                                            *)
CleanUpJob(t) ==
  /\ Quiet(t)
  /\ CleanUp(t)
  /\ \/ /\ dir' = dir \ {job[t]}
        /\ files' = [files EXCEPT ![job[t]] = {}]
     \/ UNCHANGED <<dir, files>>
  /\ UNCHANGED <<hubVars, setup, workVars, context, slides, asset, outVars, shared>>

EndJob(t) ==
  /\ Quiet(t) /\ (Skip(t) \/ (work[t] = "done" /\ StopCanceled(t)) \/ Finish(t))
  /\ UNCHANGED <<hubVars, setup, workVars, diskVars, outVars, shared>>

(* CancelledError ends a broadcast where it stands; sockets that failed in  *)
(* it stay registered.  Nothing is cleaned up.                              *)
KillJob(t) ==
  /\ Killed(t)
  /\ cast' = [cast EXCEPT ![t] = Silent]
  /\ work' = [work EXCEPT ![t] = "done"]
  /\ upload' = [upload EXCEPT ![t] = NoUpload]
  /\ UNCHANGED <<link, wanted, members, filter, seen>>
  /\ UNCHANGED <<setup, diskVars, outVars, shared>>

-----------------------------------------------------------------------------
(* The renderers' steps. *)

InStep(t, renderer, step) ==
  /\ setup.renderer = renderer
  /\ Quiet(t) /\ work[t] = "busy" /\ Resumes(t, "running")
  /\ Steps[at[t]] = step
  /\ upload[t] = NoUpload

StepDone(t) ==
  /\ work' = [work EXCEPT ![t] = "done"]
  /\ UNCHANGED <<vars, setup, shared>>

(* Every attempt begins at the first step, where a job that has none gets a *)
(* context and a directory; a context keeps its script.                     *)
GetContext(j) ==
  /\ context' = context \cup {j}
  /\ dir' = IF j \in context THEN dir ELSE dir \cup {j}

(* Files written into the directory, which some writers make. *)
Writes(j, new) ==
  /\ j \in dir
  /\ files' = [files EXCEPT ![j] = @ \cup new]
  /\ UNCHANGED dir

WritesMaking(j, new) ==
  /\ dir' = dir \cup {j}
  /\ files' = [files EXCEPT ![j] = @ \cup new]

ValidateScript(t) ==
  /\ InStep(t, "mvp", "VALIDATE_SCRIPT")
  /\ GetContext(job[t])
  /\ StepDone(t)
  /\ UNCHANGED <<hubVars, upload, files, slides, asset, outVars>>

(* SceneAudioService: a sentence whose speech fails becomes silence. *)
GenerateSceneAudios(j) == WritesMaking(j, {"audio"})

GenerateTts(t) ==
  /\ InStep(t, "mvp", "GENERATE_TTS")
  /\ GenerateSceneAudios(job[t])
  /\ StepDone(t)
  /\ UNCHANGED <<hubVars, upload, context, slides, asset, outVars>>

GenerateSubtitle(t) ==
  /\ InStep(t, "mvp", "GENERATE_SUBTITLE")
  /\ Writes(job[t], {"subtitle"})
  /\ asset' = [asset EXCEPT ![job[t]]["subtitle"] = "path"]
  /\ StepDone(t)
  /\ UNCHANGED <<hubVars, upload, context, slides, outVars>>

(* A path per scene is appended to what the context holds already. *)
RenderSlides(t) ==
  /\ InStep(t, "mvp", "RENDER_SLIDES")
  /\ Writes(job[t], {"slides"})
  /\ slides' = [slides EXCEPT ![job[t]] = IF @ = 0 THEN 1 ELSE 2]
  /\ StepDone(t)
  /\ UNCHANGED <<hubVars, upload, context, asset, outVars>>

ComposeVideo(t) ==
  /\ InStep(t, "mvp", "COMPOSE_VIDEO")
  /\ Writes(job[t], {"video"})
  /\ StepDone(t)
  /\ UNCHANGED <<hubVars, upload, context, slides, asset, outVars>>

(* The local path of the video stands for its URL. *)
UploadAssets(t) ==
  /\ InStep(t, "mvp", "UPLOAD_ASSETS")
  /\ asset' = [asset EXCEPT ![job[t]]["video"] = "path"]
  /\ StepDone(t)
  /\ UNCHANGED <<hubVars, upload, context, dir, files, slides, outVars>>

(* Variant: the MVP announces the end as the real renderer does. *)
Finalize_Announced(t) ==
  /\ InStep(t, "mvp", "FINALIZE")
  /\ asset' = [asset EXCEPT ![job[t]]["thumbnail"] = "path"]
  /\ Reports(t, "COMPLETED")
  /\ StepDone(t)
  /\ UNCHANGED <<upload, context, dir, files, slides, outVars>>

(* The first slide is the thumbnail. *)
Finalize(t) ==
  /\ InStep(t, "mvp", "FINALIZE")
  /\ asset' = [asset EXCEPT ![job[t]]["thumbnail"] = "path"]
  /\ StepDone(t)
  /\ UNCHANGED <<hubVars, upload, context, dir, files, slides, outVars>>

RenderMvp(t) ==
  \/ ValidateScript(t)
  \/ GenerateTts(t)
  \/ GenerateSubtitle(t)
  \/ RenderSlides(t)
  \/ ComposeVideo(t)
  \/ UploadAssets(t)
  \/ Finalize(t)

RealValidateScript(t) ==
  /\ InStep(t, "real", "VALIDATE_SCRIPT")
  /\ GetContext(job[t])
  /\ StepDone(t)
  /\ UNCHANGED <<hubVars, upload, files, slides, asset, outVars>>

(* One file of speech, written where the directory must exist. *)
RealGenerateTts(t) ==
  /\ InStep(t, "real", "GENERATE_TTS")
  /\ Writes(job[t], {"audio"})
  /\ StepDone(t)
  /\ UNCHANGED <<hubVars, upload, context, slides, asset, outVars>>

(* Left to the composer. *)
RealGenerateSubtitle(t) ==
  /\ InStep(t, "real", "GENERATE_SUBTITLE")
  /\ StepDone(t)
  /\ UNCHANGED <<hubVars, upload, diskVars, outVars>>

(* Scene images in the animated style, nothing otherwise. *)
RealRenderSlides(t) ==
  /\ InStep(t, "real", "RENDER_SLIDES")
  /\ UNCHANGED <<dir, files>> \/ WritesMaking(job[t], {"slides"})
  /\ StepDone(t)
  /\ UNCHANGED <<hubVars, upload, context, slides, asset, outVars>>

(* VideoComposer.compose makes the directory and writes all three files. *)
Compose(j) == WritesMaking(j, Assets)

(* URLs of an earlier attempt stay, and take precedence over the new paths. *)
RealComposeVideo(t) ==
  /\ InStep(t, "real", "COMPOSE_VIDEO")
  /\ Compose(job[t])
  /\ asset' = [asset EXCEPT ![job[t]] =
                 [a \in Assets |-> IF @[a] = "url" THEN "url" ELSE "path"]]
  /\ StepDone(t)
  /\ UNCHANGED <<hubVars, upload, context, slides, outVars>>

(* COMPLETED is reported here, before the runner has recorded anything. *)
RealFinalize(t) ==
  /\ InStep(t, "real", "FINALIZE")
  /\ Reports(t, "COMPLETED")
  /\ work' = [work EXCEPT ![t] = "closing"]
  /\ UNCHANGED <<vars, setup, shared, upload, diskVars, outVars>>

(* FINALIZE was passed, which is a PROCESSING event like any other step's. *)
LeaveFinalize(t) ==
  /\ Quiet(t) /\ work[t] = "closing" /\ Resumes(t, "running")
  /\ work' = [work EXCEPT ![t] = "done"]
  /\ Reports(t, "PROCESSING")
  /\ UNCHANGED <<vars, setup, upload, diskVars, outVars, shared>>

-----------------------------------------------------------------------------
(* The real renderer's upload: video, subtitle and thumbnail in turn, each  *)
(* only if its file exists.  A storage takes the object in one call, or has *)
(* a URL signed, PUTs the file and has the backend confirm it, each of the  *)
(* three requests tried up to RetryMax times more.                          *)

Order == <<"video", "subtitle", "thumbnail">>

(* On to the next file that exists, or to the end of the step. *)
TurnFrom(t, n) ==
  LET rest == {m \in (n + 1)..3 : Order[m] \in files[job[t]]}
  IN IF rest = {}
     THEN /\ upload' = [upload EXCEPT ![t] = NoUpload]
          /\ work' = [work EXCEPT ![t] = "done"]
     ELSE /\ \E m \in rest :
               /\ \A other \in rest : m <= other
               /\ upload' = [upload EXCEPT ![t] =
                    [turn |-> m, tries |-> 0,
                     phase |-> IF setup.signed THEN "presign" ELSE "put"]]
          /\ UNCHANGED work

RealUploadAssets(t) ==
  /\ InStep(t, "real", "UPLOAD_ASSETS")
  /\ TurnFrom(t, 0)
  /\ UNCHANGED <<vars, hubVars, setup, diskVars, outVars, shared>>

InUpload(t, phase) ==
  /\ work[t] = "busy" /\ Resumes(t, "running")
  /\ upload[t].turn > 0 /\ upload[t].phase = phase

Object(t) == <<job[t], Order[upload[t].turn]>>

GoesTo(t, phase) ==
  /\ upload' = [upload EXCEPT ![t].phase = phase, ![t].tries = 0]
  /\ UNCHANGED work

(* The result's URL is taken into the context. *)
TakesUrl(t) ==
  /\ asset' = [asset EXCEPT ![job[t]][Order[upload[t].turn]] = "url"]
  /\ TurnFrom(t, upload[t].turn)

(* put_object of a storage: the object is stored under its job and asset,  *)
(* in place of the one of an earlier attempt.                               *)
Store(t) == stored' = stored \cup {Object(t)}

(* Local, S3 and MinIO storage. *)
PutObject(t) ==
  /\ ~setup.signed /\ InUpload(t, "put")
  /\ Store(t)
  /\ TakesUrl(t)
  /\ UNCHANGED <<vars, hubVars, setup, context, dir, files, slides>>
  /\ UNCHANGED <<recorded, confirmed, shared>>

RequestPresign(t) ==
  /\ InUpload(t, "presign")
  /\ GoesTo(t, "put")
  /\ UNCHANGED <<vars, hubVars, setup, diskVars, outVars, shared>>

(* Variant: the URL is taken from the presign response, without completion. *)
UploadToPresignedUrl_Unconfirmed(t) ==
  /\ setup.signed /\ InUpload(t, "put")
  /\ Store(t)
  /\ TakesUrl(t)
  /\ UNCHANGED <<vars, hubVars, setup, context, dir, files, slides>>
  /\ UNCHANGED <<recorded, confirmed, shared>>

(* Stored, and answered with an ETag unless that is optional. *)
UploadToPresignedUrl(t) ==
  /\ setup.signed /\ InUpload(t, "put")
  /\ Store(t)
  /\ GoesTo(t, "complete")
  /\ UNCHANGED <<vars, hubVars, setup, diskVars, recorded, confirmed, shared>>

NotifyComplete(t) ==
  /\ InUpload(t, "complete")
  /\ confirmed' = confirmed \cup {Object(t)}
  /\ TakesUrl(t)
  /\ UNCHANGED <<vars, hubVars, setup, context, dir, files, slides>>
  /\ UNCHANGED <<recorded, stored, shared>>

(* What a request did whose answer was an error or never came. *)
Unanswered(t) ==
  \/ UNCHANGED <<stored, confirmed>>
  \/ InUpload(t, "put") /\ Store(t) /\ UNCHANGED confirmed
  \/ InUpload(t, "complete") /\ confirmed' = confirmed \cup {Object(t)} /\ UNCHANGED stored

(* _with_retry, on network errors and 5xx. *)
TryAgain(t) ==
  /\ setup.signed /\ \E phase \in {"presign", "put", "complete"} : InUpload(t, phase)
  /\ upload[t].tries < RetryMax
  /\ upload' = [upload EXCEPT ![t].tries = @ + 1]
  /\ Unanswered(t)
  /\ UNCHANGED <<vars, hubVars, setup, work, diskVars, recorded, shared>>

RenderReal(t) ==
  \/ RealValidateScript(t)
  \/ RealGenerateTts(t)
  \/ RealGenerateSubtitle(t)
  \/ RealRenderSlides(t)
  \/ RealComposeVideo(t)
  \/ RealUploadAssets(t)
  \/ PutObject(t)
  \/ RequestPresign(t)
  \/ UploadToPresignedUrl(t)
  \/ NotifyComplete(t)
  \/ TryAgain(t)
  \/ RealFinalize(t)
  \/ LeaveFinalize(t)

(* A step raises: the last try of a request, a missing ETag, a missing       *)
(* directory, FFmpeg, the script.  The real renderer reports FAILED before   *)
(* the runner does.                                                          *)
RaiseInStep(t) ==
  /\ Quiet(t) /\ work[t] = "busy" /\ Resumes(t, "running")
  /\ Unanswered(t)
  /\ work' = [work EXCEPT ![t] = "raised"]
  /\ upload' = [upload EXCEPT ![t] = NoUpload]
  /\ IF Uploading THEN Reports(t, "FAILED") ELSE UNCHANGED hubVars
  /\ UNCHANGED <<vars, setup, diskVars, recorded, shared>>

-----------------------------------------------------------------------------

(* The process dies: contexts and sockets go, files and rows stay; it may   *)
(* die between the two commits of CompleteJob.                              *)
RestartPipeline ==
  /\ "restart" \in setup.calls
  /\ Restart
  /\ \/ UNCHANGED <<assets, recorded>>
     \/ \E t \in Tasks :
          /\ Resumes(t, "running") /\ at[t] = NumSteps /\ work[t] = "done" /\ Quiet(t)
          /\ assets' = [assets EXCEPT ![job[t]] = TRUE]
          /\ recorded' = [recorded EXCEPT ![job[t]] = asset[job[t]]]
  /\ link' = [w \in Sockets |-> "none"]
  /\ wanted' = [w \in Sockets |-> NoJob]
  /\ seen' = [w \in Sockets |-> [j \in Jobs |-> "none"]]
  /\ members' = {}
  /\ filter' = [w \in Sockets |-> NoJob]
  /\ cast' = [p \in Producers |-> Silent]
  /\ work' = [t \in Tasks |-> "done"]
  /\ upload' = [t \in Tasks |-> NoUpload]
  /\ context' = {}
  /\ slides' = [j \in Jobs |-> 0]
  /\ asset' = [j \in Jobs |-> NoAssets]
  /\ UNCHANGED <<setup, dir, files, stored, confirmed, shared>>

Run(t) ==
  \/ StartJob(t)
  \/ StartStep(t)
  \/ RenderMvp(t)
  \/ RenderReal(t)
  \/ RaiseInStep(t)
  \/ CompleteJob(t)
  \/ FailJob(t)
  \/ CleanUpJob(t)
  \/ EndJob(t)
  \/ KillJob(t)

Hub ==
  /\ HubNext
  /\ \A w \in Sockets : link'[w] # "none" => w \in setup.sockets
  /\ UNCHANGED <<vars, setup, workVars, diskVars, outVars, shared>>

PipelineNext ==
  \/ Requests
  \/ \E j \in Jobs : Cancel(j)
  \/ \E t \in Tasks : Run(t)
  \/ Hub
  \/ RestartPipeline

PipelineSpec == PipelineInit /\ [][PipelineNext]_allVars

(* The event loop runs what is runnable; a step returns or raises, a send   *)
(* is taken or fails.                                                       *)
PipelineFairness ==
  /\ \A t \in Tasks : WF_allVars(Run(t))
  /\ \A p \in Producers, w \in Sockets :
       WF_allVars(SendTo(p, w) /\ UNCHANGED <<vars, setup, workVars, diskVars, outVars, shared>>)

PipelineFairSpec == PipelineSpec /\ PipelineFairness

-----------------------------------------------------------------------------
(* Properties. *)

FileOf(a) == IF a = "thumbnail" /\ ~Uploading THEN "slides" ELSE a

Backed(j, a) ==
  CASE recorded[j][a] = ""     -> FALSE
    [] recorded[j][a] = "path" -> FileOf(a) \in files[j]
    [] recorded[j][a] = "url"  -> /\ <<j, a>> \in stored
                                  /\ setup.signed => <<j, a>> \in confirmed

(* What the row of a COMPLETED job names exists: the file is there, or the  *)
(* object is stored and the backend knows; through failed and repeated      *)
(* requests, retries, cancellations and crashes.  Only a job that two tasks *)
(* worked on at once is excepted, as the cleanup of one hits the other.     *)
CompletedIsBacked ==
  \A j \in Jobs : status[j] = "COMPLETED" /\ j \notin shared =>
    \A a \in Assets : Backed(j, a)

(* The backend is told an upload is complete only once the object is there. *)
ConfirmedIsStored == confirmed \subseteq stored

(* A client of the MVP that was told COMPLETED finds the files in the row.  *)
CompletedSeenIsRecorded ==
  ~Uploading => \A w \in Sockets, j \in Jobs : seen[w][j] = "COMPLETED" => assets[j]

(* A client that watches a job while it is rendered is told its end, unless *)
(* it leaves or the process dies.                                           *)
EndIsSeen ==
  \A w \in Sockets, j \in Jobs :
    (status[j] = "PROCESSING" /\ w \in members /\ filter[w] \in {NoJob, j})
      ~> (seen[w][j] \in {"COMPLETED", "FAILED"} \/ link[w] # "open" \/ epoch = 1)
=============================================================================
