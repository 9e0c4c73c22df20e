# Verification of the ctrlf-ai gateway

ctrlf-ai is a FastAPI service between a Spring backend and AI services (RAGFlow,
Milvus, an LLM, speech, object storage). One asyncio process runs everything:
HTTP handlers, background tasks and in-memory singletons interleave at `await`s,
and only the SQLite table `render_jobs` survives a restart. The modules here
model the stateful parts of `src/app`. An action is what happens between two
suspension points, so that two actions of different actors may come in any order
and the inside of one action is atomic, as it is in the event loop.

How to read the project: `PROJECT.json` names the source lines of every
definition (`map`), the runs, a mutation of the code that breaks each property,
the hazards and the theorems. This file says what belongs together and why.
`tlc -config <Run>.cfg <Module>.tla` repeats a run, `tlapm <Module>Proofs.tla` a
proof; `RenderPipelineProofs` has those of `RenderJob` as well.

1. [Inventory](#1-inventory)
2. [Modules and the code](#2-modules-and-the-code)
3. [Runs, bounds and what they show](#3-runs-bounds-and-what-they-show)
4. [Fairness](#4-fairness)
5. [Proofs](#5-proofs)
6. [Where code and documents disagree](#6-where-code-and-documents-disagree)
7. [What is not modelled](#7-what-is-not-modelled)
8. [What could come next](#8-what-could-come-next)

## 1. Inventory

State that lives longer than a request is what the modules are about; a
component without any is an algorithm or I/O.

| component | state it keeps | operations | hard behaviour | what makes it correct |
|---|---|---|---|---|
| Render job runner (`render_job_runner`, `render_job_repository`, `render_jobs` API) | rows in SQLite, `_running_jobs`, asyncio tasks | create, create by backend id, start, retry, cancel, execute step by step, completion callback | starts during an await, cancel against the last step, crash between two commits, tasks that die with the process | one executor per job and video, accepted jobs settle, the backend is told the truth |
| RAG ingest (`rag_documents` API, callback, `milvus_client`) | `_ingest_cache` with two TTLs and a size limit | post, background call, callback, read text, PATCH | late replies, lost callbacks, restarts, eviction | a version is ingested once at a time, its outcome reaches the backend, nothing stays blocked |
| Source sets (`source_set_orchestrator`, script generation) | `_processing_jobs`, one task per set | start, chunk each document (Milvus, then RAGFlow), save, script, callbacks | fallbacks, partial failure, lost and late callbacks, restarts | a ready set has saved documents and its scenes; every set settles |
| Streamed chat (`chat_stream`, `chat_stream_service`, disconnect check) | `InFlightTracker` with a TTL | register, stream, complete, fail, cancel | duplicates, clients that go at any suspension point, stale entries | one stream per id, each turn is reported once |
| Telemetry (`telemetry/*`) | bounded queue, flush loop, per-request guards | enqueue, flush, send twice, stop | full queue, backend down, shutdown with a batch in flight | no event vanishes unaccounted, at most two envelopes, order |
| Chat turn (`chat_service`, `chat/*`, `router_orchestrator`) | pending clarifications and confirmations per session | classify, route, retrieve, guard, answer | pending state across messages, expiry, partial failures of six services | a question is answered once, critical actions are confirmed, nothing unmasked or blocked gets out |
| Render progress WebSocket (`ws_render_progress`) | sockets per video, job filter of each | connect, disconnect, broadcast | a broadcast awaits one send after another while sockets come and go | a closed socket is forgotten, a watcher is told the end |
| Video renderers, composer, storage (`video_renderer_mvp`, `video_renderer_real`, `storage_adapter`) | context per job, directory and files, uploaded objects | seven steps, uploads with retry, cleanup | retry after a partial run, lost answers of an upload, cleanup beside another executor | files recorded are files that exist |
| Scene audio and captions (`scene_audio_service`) | none beyond a rendering | speak a sentence or replace it, join, lay out captions | each external program may fail by itself | captions are in order, within the video, near their sound |
| Video progress, education catalog (`video_progress_service`, `education_catalog_service`) | record per user and training; the catalog | start, update, complete, watch again; reissue, register | sequences of calls, a catalog that changes between them, thresholds | the quiz of a mandatory training needs its video |
| FAQ drafts (`faq_service`, `api/v1/faq`) | slots of a batch | check, search, ask, ask again, check | items interleave; a retry outside the handler around the first call | nothing with personal data is drafted; every item has a result |
| Quiz generation (`quiz_generate_service`, `quiz_quality_service`) | the last quality result, shared by requests | generate, filter, three stages of checks | requests interleave in one object | a delivered question passed every check |
| Gap suggestions | none | one call with a fallback | the LLM fails | answered |
| Retrieval (`rag_handler`, `milvus_client`) | the collection, what is known of its fields | embed, open, load, search, gate | two searches open the collection at once; the filter is decided before | a search stays in its datasets |
| LLM client, retry helper | attempts of a call | post, post again | errors inside callers that repeat | bounded attempts |
| Personalization, guards, filters, PII | none between requests | verdicts on one text | partial failure | used fail-closed (in `ChatTurn`, `FaqDraft`) |
| Clients (backend, RAGFlow, TTS, avatar) | connections | HTTP calls | timeouts | modelled as the environment of the rest |
| TTL cache | entries with age and recency | get, set, evict | - | no module imports it |
| Configuration, logging, metrics, models | settings, counters | - | - | - |

How they interact:

- The backend **calls** the gateway to create and start render jobs, to ingest
  documents and to start source sets; the gateway **calls back** when they end.
  Each callback is one HTTP request, and its loss is logged and forgotten.
- The render runner drives a renderer, tells the WebSocket manager its
  progress and reads the render-spec from the backend.
- Source sets and RAG ingest both use RAGFlow and Milvus and share nothing else.
- The chat endpoints, feedback and the streams share the telemetry publisher:
  its queue is the one thing all requests contend for.
- FAQ drafts, quizzes and gap suggestions share the LLM client and nothing else;
  the chat and the FAQ drafts share the search.
- `ChatService` holds a video progress service, but no route of this commit
  starts or updates a record.

## 2. Modules and the code

| module | models | extends |
|---|---|---|
| `RenderJob` | the runner with its rows, tasks and handlers | - |
| `RenderJobLifecycle` | what the runner promises for create and cancel | refined by `RenderJob` |
| `RagIngest` | ingest endpoint, cache, callback handler; RAGFlow, Milvus, backend as environment | - |
| `SourceSet` | `_process_source_set`, its chunking, script and callbacks | - |
| `SourceSetLifecycle` | what the start answer and the callbacks promise the backend | refined by `SourceSet` |
| `Telemetry` | publisher, flush loop, `stop()`, the once-per-request guards | - |
| `ChatStream` | tracker, streaming generator, disconnects | `Telemetry` (composition) |
| `Router` | `RouterOrchestrator`: classification, `PendingActionStore`, its questions and their answers | - |
| `OpenQuestion` | what the router and its store promise a session: one question at most is open, and it is answered once | refined by `ChatTurn` |
| `ChatTurn` | `handle_chat` from the forbidden-query filter to the answer | `Router` (composition) |
| `ProgressHub` | the WebSocket manager: sockets, job filters, broadcasts | `RenderJob` (composition) |
| `RenderPipeline` | both renderers, their files, the storage and its uploads | `ProgressHub` (composition) |
| `SceneAudio` | speech, joins and captions of a rendering | - |
| `EducationCatalog` | mandatory trainings and reissues | - |
| `VideoProgress` | records of who watched what | `EducationCatalog` (composition) |
| `Llm` | a call of the LLM with its attempts | - |
| `Retrieval` | the Milvus search with its lazily opened collection | `Llm` |
| `FaqDraft` | a batch of FAQ drafts | `Retrieval` (composition) |
| `Quiz` | quizzes and their quality checks | `Llm` |
| `Drafts` | FAQ drafts, quizzes and gap suggestions around one LLM | `FaqDraft`, `Quiz` (composition) |
| `MC*` | values and symmetry for TLC | the module they name |
| `*Proofs` | lemmas and theorems; `RenderPipelineProofs` those of `RenderJob` too | the module they name, `TLAPS` |

Definitions called `X_Something`, always placed before `X`, are plausible
mistakes in `X`; nothing but `PROJECT.json` refers to them. Each property is
violated by one of them, which shows that it depends on the code.

### RenderJob

`status, code, spec, assets, progress` are the columns of the row; `running` is
`_running_jobs`; `pc, job, kind, at, canceled` describe each task; `fetching`
holds the `start_job` calls that wait for the backend's render-spec; `callbacks`
and `told` are the completion callbacks under way and delivered. A task goes
`new -> running -> finishing | failing -> done`: these are the awaits of
`_execute_job` and `_execute_job_with_spec`. A step of the pipeline is one
`NextStep` (the writes at the loop head) followed by the next `NextStep`,
`StepFails` or `Killed`.

Details that matter:

- `Finally` drops the job's entry *whichever task it names*, as the code's
  `pop(job_id)` does; `Skip` and an early `Killed` leave it, because they happen
  before the `try`.
- `Complete` writes the assets and then the status in two commits; `Restart`
  may come between them.
- `FetchOk` does not look at the row again after the await. Neither does
  `start_job`.
- A new task may be overtaken by others in the model. The event loop is first in,
  first out here; the model allows more orders than that, never fewer.
- `cancel_job` and `create_job` are methods of the runner that no HTTP route
  calls; the constant `Api` says which operations a run uses.

### RagIngest

`entry` and `age` are `_ingest_cache`. A slot is one ingest from its POST to its
PATCH: `call` is the background call of RAGFlow, `work` the ingest inside RAGFlow,
`handler` the callback handler with its two awaits. `Evicted` is the cut to the
size limit after expired entries are removed, `Tick` lets the entries age when
nothing waits for HTTP (a tick is longer than any HTTP timeout). `indexed` is the
version whose chunks Milvus has: `ReadText` asks by document id alone, so a
handler may read another version's text than the one it reports. `faults` is what
the environment of a behaviour may do wrong, chosen in `Init` among `FaultSets`;
properties that need a prompt RAGFlow name what they exclude.

### SourceSet

`pc` walks `_process_source_set`. A document goes through `milvus`/`saveMilvus`
or `upload`/`trigger`/`poll`/`chunks`/`saveRagflow`; `DocumentDone` ends it and,
after the last one, decides the set. `made` is the script's scenes (0 is the scene
of the fallback script), `patched` and `script` what the backend received. A
callback (`Notify`) is applied, lost, or timed out and applied later
(`ApplyLate`). `Start` answers while `_processing_jobs` has no entry; the entry is
never removed, so every later start is `StartAgain`. `WriteScript` is
`generate_script` (outline, scenes, or the fallback); `GenerateScript` adds the
patch that is sent for each scene. What Milvus answers by itself is `MilvusAnswers`;
its reading in batches of chunks is one step, since nothing looks at a part of it. The
reader stops at `MaxRead` chunks (10,000 in the code) without a word, so that a larger
document has that many when it is read from Milvus and all of them when it is read from
RAGFlow (`WholeReads`).

### Telemetry and ChatStream

`queue` is the bounded deque, `batch` what `_flush_batch` popped, `sender` the one
task that flushes (the loop, then `stop()`), `stage` the publisher's life.
`accepted`, `fate` and `sent` are history, kept for the properties. `emitted` is
the guards of a request (`emit_..._once`). `fate = "over"` covers an answered
batch and one dropped after its second attempt; `"cut"` is a batch lost when
`stop()` cancels the loop. `sent` counts envelopes, whether or not they arrived.
The publisher is taken as configured; `flush_now` is used by tests only.

`ChatStream` extends it: `entry`, `age`, `tidy` are `InFlightTracker` with its
interval between clean-ups, and `pc` is the event a generator is suspended at.
`Cancelled` is a client that goes while the LLM is awaited; `Abandon` is one that
goes while an event is written, when the generator is closed at its `yield`:
`GeneratorExit` is caught by no handler, so the tracker keeps its entry and no
telemetry is emitted. `Report` stands for the requests that do not stream.

### Router and ChatTurn

`at` is where `handle_chat` is with a message: its awaits. `pending` is
`PendingActionStore`, one question per session; `late` says that its `expires_at`
has passed. `routed` is the result of `route()`; `consumed` and `shown` are
history: the question a message was read as the answer to, and the one the session
saw last. `Route` runs from `get` on the store to the end of `route()` or to its
only await, the LLM router, after which `LlmRouted` writes the store without
reading it again. Rules, keyword tables and IntentService are represented by the
results they can have (`RuleResults`, `Resolved`, `IntentRoutes`), the LLM router by the
constant `LlmAnswers`, so that a proof holds for any answer. Intents with one route
are one intent ("QA"); sub-intents are kept as far as something depends on them;
confidence as far as the thresholds 0.5 and 0.85 tell it apart.

`OpenQuestion` is this without intents and kinds. `ImplementsQuestions` maps to it: `Open`
is the question in the store that has not expired, `Answered` whose question a message was
read as the answer to, `Read` the messages that have left the router.

`ChatTurn` composes it with the rest of the turn. `blocked` is the verdict of the
filter, `used` and `masked` what left the service and what the PII service has
seen, `reply` the kind of answer. Details that matter:

- `Ignored` results (UNKNOWN below 0.5) are disregarded with the question they
  carry, and IntentService chooses the route (`Takes`); the question stays in
  the store.
- `SearchRaises` is the whole of retrieval: the call passes an argument that
  `RagHandler` does not have. In MIXED_BACKEND_RAG the backend's coroutine, gathered
  with it, may have begun.
- `Fetch` raises for a blocked query, `ResolveFacts` answers with the fallback text:
  the same check, inside and outside a `try`.
- The LLM client answers by itself, with a fixed text, when its URL is missing or
  outside (`Completion`), and the backend client without a URL (`AskBackend`); so a
  turn may end without a call.
- `AnswerOf` tells the facts of a look-up: the LLM, or a template when it fails or
  there is nothing to tell. Both pass the PII service (`TellFacts`).
- The turn is logged (`LogTurn`) before it is reported: an await of its own, at which
  other messages come in.
- `Personalize` needs no confirmation, and the resolver's own prompt for a critical
  action (`ResolverAsks`) is unknown to the store.

`Traced` bounds the messages that are followed beyond the router. The others stop
after it: they matter to the rest through the store only, and the turns of two
messages share nothing else.

### ProgressHub and RenderPipeline

`ProgressHub` adds the WebSocket manager to `RenderJob`: `link` is where a socket's
endpoint stands, `members` and `filter` are the manager's registrations, `cast` is
the broadcast that each producer (an executor, or the cancel request of a job) is
in: the sockets of its copy not sent to yet and those whose send raised. `SendTo`
is one turn of its loop.

`RenderPipeline` composes that with what a job works on. Every step of an executor
is the step of `RenderJob` conjoined with its effects here, and waits for the
broadcast before it (`Quiet`), as the code awaits it: `StartStep` is the loop head,
`RenderMvp` and `RenderReal` are the renderers' seven steps, `RaiseInStep` is a step
that raises, `CompleteJob`, `FailJob`, `CleanUpJob`, `EndJob` and `KillJob` the ways on
and out. The real renderer uploads one asset after another; with a storage whose
URLs the backend signs, each upload is three requests, repeated up to `RetryMax`
times, and `Unanswered` is what a request did whose answer was lost.

- `setup` fixes the renderer and storage of a behaviour and, as a bound, how many
  tasks and sockets it uses and which disturbances there are.
- A step that raises leaves no file behind in the model. In the code it may; the
  directory is removed right after the report. Until then only a second task of
  the same job could meet the file, and such jobs are in `shared`.
- `shared` remembers the jobs that ever had two tasks at once. Their directory is
  one, and the cleanup of one removes what the other has just recorded: the code
  does not prevent it, so `CompletedIsBacked` excepts them.
- The script of a job is taken to name the job's own video.
- The real renderer and its storages are reached through constructors that no route
  calls; the MVP renderer is the one in use.

### SceneAudio

`script` gives the length in which each sentence of each scene would be spoken. A
file is the sequence of the sounds in it, empty for the placeholder (1024 zero
bytes) that the code writes where it cannot do better; FFmpeg skips such a file in
a join or fails on it, and both are modelled. Time is in half seconds. `ffmpeg`
says whether it is installed, `guessed` that some duration was claimed that is not
the file's.

### EducationCatalog and VideoProgress

Every call of the two services is atomic (no awaits); what interleaves is the order
of calls, the clock, and the catalog. `record` keeps what the code keeps per user and
training, `earned` is history. `EducationCatalog` has the explicit list, the entry's
flag and the prefix by which a training is mandatory, and the reissue, whose id has
the prefix again. Due dates are left out: `is_expired` has no caller.

### Llm, Retrieval, FaqDraft, Quiz, Drafts

`at` says for each request which await it is in. `Llm` is a call with its attempts
(`tries`). `Retrieval` keeps `collection` (made, loaded) and `field`, what is known of
the collection's `dataset_id`; a search fixes its filter before its first await.
`FaqDraft` runs the items of a batch under its semaphore; `settings` is the
configuration, a record chosen in `Init`. `Quiz` adds the service object whose last
quality result all requests share. In `Drafts` they run around one LLM; since they
share nothing else, `Workloads` lets a behaviour have a batch, or quizzes, or
suggestions.

- A text the LLM gives is abstracted to what is asked about it: whether it parses,
  whether it has personal data, which questions (`Made`) it contains.
- A request for suggestions without questions is answered at once and left out.
- An unconfigured or foreign LLM answers with a fixed text; a caller that parses it
  sees a text that does not parse, which is one of the cases.
- A JSON answer of the FAQ drafts may have a field that is no text (`odd`); it raises where
  it is first used, and the item's error is an unexpected one.

## 3. Runs, bounds and what they show

| run | instance | states | shows |
|---|---|---|---|
| `RenderJobFull` | 1 job, 2 executors, 2 start calls, 2 steps, every operation | 97,108 | files are recorded before the backend hears COMPLETED; only a restart orphans a PROCESSING row; without a restart accepted jobs settle and nothing renders for ever |
| `RenderJobSerial` | 3 jobs of one video, 3 steps, create and cancel | 25,000 (up to symmetry) | one executor per video, a cancellation reaches it, progress does not regress, and the runner implements `RenderJobLifecycle` |
| `RenderPipelineFull` | 1 job, 7 steps; each renderer and storage with a socket and one task at a time, the MVP with two | 518,803 | what a COMPLETED row names exists; a client told COMPLETED finds it; closed sockets are forgotten; watchers are told the end |
| `RagIngestFull` | 2 documents, 2 slots, a cache of one entry; either RAGFlow is prompt or everything goes wrong but the PATCH, Milvus between callback and PATCH included | 708,576 | prompt: one ingest per version, no entry without owner; both: a cached outcome is the backend's or on its way, a blocked document becomes free |
| `SourceSetFull` | 2 sets that share a document, 3 chunks in 2 pages of which the reader of Milvus gives 1, 2 polls, 2 scenes | 225,041 | no COMPLETED document with less than one reader gives to its end, patches in the script, `SourceSetLifecycle` implemented with its liveness |
| `SourceSetFaulty` | a set with and one without documents; lost and late callbacks, restarts | 664,770 | a set reported ready is backed by saved documents even then |
| `SourceSetRetry` | a failed set is started again | - | **violation**: answered LOCKED, nothing runs |
| `ChatStreamFull` | 3 streams of one id (one without headers), 1 other request, queue of 3, batches of 2 | 885,150 | one stream per id; each event accepted once, accounted for and in order; the publisher keeps going |
| `ChatTurnFull` | 3 messages of one session, one of them followed to its end; router off, by rules, with LLM | 732,813 | a question is answered once and as the last one shown, and the router implements `OpenQuestion`; critical actions are confirmed; nothing gets out unmasked; a turn ends |
| `SceneAudioFull` | up to 3 scenes of up to 2 sentences of 2 lengths; everything may fail | 347,126 | captions in order, and late by exactly the paddings between the scenes |
| `VideoProgressFull` | a user, a training and the id of its reissue; lengths 1 and 2, reports 0..3, speeds 100 and 150 %, a clock of 3 | 62,544 | the quiz needs the video, marks and completions are true, progress falls by a new start only |
| `DraftsFull` | batches of 2 items with 1 or 2 slots, 4 configurations, 3 documents; 2 quizzes; 1 request for suggestions | 254,637 | personal data stops a draft, a search stays in its dataset, delivered questions were checked, everything is answered |

Why these bounds are enough to be interesting:

- *Render jobs.* Two executors of one job are the one recorded and the one it
  replaced, which outlives it in some behaviours; two start calls race each
  other. Two steps have a first and a last; with three the progress table is walked. In the
  serial run three jobs let one be done, one canceled with its task still alive,
  and one created. Several jobs are left out of the full run: jobs interact only
  through `create_job`'s query, which the serial run has.
- *Pipeline.* The seven steps are the code's own and decide what exists when a run is cut
  short. One task at a time covers attempt after attempt; two tasks without sockets cover
  the overlap, which is what `shared` excepts: broadcasts only make it slower. One
  repeated request shows a success after a lost answer as well as a last failure
  (`RetryMax` is 3 in the code). One socket is enough for a broadcast to cross its
  connecting and its leaving; what two sockets share is the set, and `ForgottenSafe` is
  proved for any number.
- *Ingest.* A cache of one entry for two documents evicts at every post of the
  other one; the prompt environment posts no more than the cache holds. CTTL
  exceeds PTTL, as 24 h exceed 5 min, and both expire. With two slots an old ingest outlives its entry and
  meets the next one of the same document.
- *Serial render jobs.* That one job of a video is active at most is part of
  `ImplementsLifecycle`, so it is not a property of its own.
- *Source sets.* `ReadyIsBacked` is checked under faults and, like
  `LockedIsRunning` under reliable callbacks, proved for every instance (section 5);
  `SourceSetFull` does not repeat them. Three chunks in pages of two give a first page and a last
  one that is cut short, and with a reader of Milvus that stops at one the three ways to read a
  part are told apart. The shared document is saved by both sets in either order.
- *Streams.* Three streams of one id: one under way or abandoned, one refused, one
  after the entry's end. A queue of three and batches of two give full, partial
  and empty batches, a refused event and a rest at shutdown.
- *Captions.* Three scenes have a silent one first, in between and last; two lengths and two
  estimates make a claimed duration shorter and longer than the real one.
- *Video progress.* A length of two has a half, and a new start may state another length; zero
  is no length a request may state (`gt=0`). The grace of one second and a clock of three let a position surge and not surge. One user is
  enough, as records of two pairs meet in no call.
- *Drafts.* Two items with one slot run one after another, with two they interleave at
  the search, where the collection is opened once. The documents are one of the right
  dataset, one of another, one with personal data. The quizzes have one and two blocks;
  the questions an LLM may make are a sound one, a repeated one, one of another block, one
  foreign to its block, one whose correct option has no keywords and two that are malformed.
- *Chat.* With three messages one asks and two answer at the same time, or one
  asks, another replaces the question while a third awaits the LLM router. One
  session is enough: sessions share no entry of the store. The answers of the LLM
  router include a clarification, critical actions with and without the flag, sure
  and unsure results, and one that `handle_chat` disregards.

`CHECK_DEADLOCK FALSE` is said where the system may stop: all jobs used, all
streams over, all messages and requests answered, the video rendered, the clock at
its bound, or the publisher stopped.

Properties that no run repeats because a theorem has them for every instance:
`TypeOK` of each module with proofs, `SnapshotBeforeExecution`, `AbandonedNeedsCancel`,
`JobAgrees`, `RefusedForFreshOnly`, `ClarifiedInTime`, `ConsumedOnce`,
`BlockedStaysOut`,
`ConfirmedIsStored`. To check one with TLC, add it to a configuration.

## 4. Fairness

- *Tasks* (`RenderJob`, `SourceSet`): weak fairness of what a task does next. The
  event loop runs what is ready, and each await ends: HTTP calls carry timeouts, a
  renderer step returns or raises, polling is bounded by its time-out.
- *Callers and callbacks*: delivered or lost, by the HTTP timeout.
- *RenderPipeline*: weak fairness of each executor, and of each turn of a broadcast: a
  send is taken or fails. None of the clients, requests or restarts.
- *Drafts*: weak fairness of each item, quiz and request, and of the batch's gathering: HTTP
  clients carry timeouts, the attempts are counted, and asyncio's semaphore serves its
  waiters in turn.
- *RagIngest*: RAGFlow answers or the call times out; it reports or the callback
  is lost; handlers run. `SF(Tick)`: ticks are enabled again and again between
  calls, and time does not stop because new posts keep coming. That
  `ProcessingExpires` holds however often a document is posted rests on a hit not
  renewing the entry.
- *Telemetry*: weak fairness of the flush loop and `stop()`, whose waits are timers
  and HTTP calls with a timeout of three seconds.
- *ChatTurn*: weak fairness of the handling of a message; the PII service, the LLM
  and the backend answer or time out, and no await waits for another message.
- Clients owe nothing: no fairness on streams, posts, starts, messages or stops.
- `SceneAudio` and `VideoProgress` state safety only: the one is a loop over a finite script,
  the other waits for its clients.

## 5. Proofs

For every value of the constants that satisfies the named assumptions:

| theorem | of | argument |
|---|---|---|
| `RenderPipelineProofs!TypeCorrect` | `RenderJob!Spec` | inductive as it stands, with "a task has a job exactly until it is done" |
| `SnapshotSafe` | any `Api` | a spec executor is spawned only for a row with a snapshot, and no action removes one |
| `ToldSafe` | any `Api` | strengthened by: a task that is `finishing` has recorded its files |
| `OrphansSafe` | any `Api` | needs `EntriesMatch`: an entry of `_running_jobs` names a task that works for that job or has ended, so a cancellation cannot kill another job's executor |
| `AbandonedSafe` | any `Api` | case analysis of the actions that write a row without a task |
| `OneExecutorSafe`, `CancelReachesSafe` | `Api` without `internal`, `start`, `retry`; failures, cancellations, restarts | `SerialInv`: a job has one task in its life, the row of a task that may still write is active and `_running_jobs` names that task, and a video has one active job at most |
| `ProgressSafe` | the same | from `SerialInv`: a step is begun by the job's only task, whose place is the progress of its row |
| `LifecycleImplemented` | `Api` of `create` and `cancel` | refinement: with `SerialInv` each action changes the rows as an action of `RenderJobLifecycle` does, or not at all |
| `RagIngestProofs!TypeCorrect` | any faults | inductive; the first key exists because there are documents and versions |
| `OnItsWaySafe` | any faults; speaks of behaviours without a lost PATCH | inductive as it stands: a callback sets the entry and starts the handler in one step |
| `SingleIngestSafe`, `OwnerSafe` | `Prompt` RAGFlow; any other failures | `PromptInv`: an ingest or a handler under way is *tracked*, that is, its entry says PROCESSING and has not run out, or names the outcome if that came before the answer of the post; two of one version are the same; an entry that says PROCESSING has a slot that will settle it. That the cache never evicts such an entry is a fact about cardinalities (`EntriesStep`) |
| `SourceSetProofs!TypeCorrect` | any faults | inductive |
| `ReadyBackedSafe` | any faults | `BackedInv`: what is about to be saved has chunks, the document in hand is the set's, a COMPLETED result has saved chunks, a script is begun only when all results are COMPLETED, and every late callback says what is already true |
| `ChunksCompleteSafe` | any fault but `emptyPage` | `WholeInv`: what is about to be saved, what is saved, and what a callback under way reports COMPLETED, is what a reader gives to its end; `BackedInv` has the rest |
| `AllChunksSafe` | the same, and no document beyond `MaxRead` is read from Milvus | then the two readers give the same |
| `PatchesInScriptSafe` | no `outline`, no `restart`; callbacks lost, late, repeated | `ScriptInv`: what is patched, now or late, is a scene the task has made; a script sent last, now or late, holds all the scenes made, and the task makes no more |
| `JobAgreesSafe`, `LockedRunsSafe` | `Reliable` | `InStep`: for every place in the pipeline, the job and the backend's status it goes with |
| `LifecycleSafe` | `Reliable` | refinement: each step changes the status as `SourceSetLifecycle` does, or not at all |
| `ChatStreamProofs!OneStreamSafe` | no stream outlives the TTL | `LiveRegistered`: a live stream has the running entry of its id, which is not older than the TTL |
| `RefusedSafe` | any faults | `TidyIsFresh`: as long as the last clean-up is recent no entry is older than the TTL |
| `OnceSafe` | any faults | `MarkedInv`: what the queue accepted is marked in its request's guards |
| `ChatStreamProofs!TypeCorrect` | any faults | inductive |
| `NothingVanishesSafe`, `InOrderSafe` | any capacity and batch size | `LineInv`: the events accepted so far are those settled, then those of the batch in flight, then the queue, in this order; that an event stands at one place in it is `OncePerRequest` |
| `TurnReportedSafe` | no client goes while it is written to | case analysis of the ends of a stream, of which `GeneratorExit` alone reports nothing |
| `ChatTurnProofs!TypeCorrect` | any answers of the LLM router | inductive; each step of the router has one of four effects (asks, releases, waits, asks again), which the later proofs use instead of its actions |
| `FailClosedSafe` | any | `MaskedInv`: beyond the masking of the input everything has a masked input |
| `BlockedSafe` | any | `BlockedInv`: nor does a blocked message reach the places from which the backend is called |
| `ConsumedOnceSafe`, `CriticalSafe`, `ClarifiedInTimeSafe`, `LastQuestionSafe` | any number of messages and sessions | `QuestionInv`: a question in the store was asked by a message that has left the router, nobody has answered it, and it is the one shown last unless `handle_chat` disregarded it; a message asks at most once, as no place leads back into the router |
| `QuestionsImplemented` | any number of messages and sessions | refinement: with `QuestionInv`, and `FreshInv` (until the router has read it a message has answered nothing), each step of the router asks, answers, passes on or expires a question as `OpenQuestion` does; what it read before the LLM router was awaited changes nothing of this |
| `RenderPipelineProofs!PipelineImplementsRunner` | `PipelineSpec` | refinement: an action of the composition takes a step of `RenderJob` or leaves its variables alone, so that every theorem about the runner holds in the composition |
| `ForgottenSafe` | any | inductive with the types of the hub: a broadcast only unregisters |
| `SeenSafe` | the MVP renderer | `SeenInv`: a broadcast of COMPLETED under way is of a job whose files are recorded, as `CompleteJob` alone announces it and recorded files stay (`AssetsKept`) |
| `BackedSafe`, `ConfirmedSafe` | any `RetryMax`, storage and renderer | `PipelineInv`: the types, `Alone` (a job that is not `shared` has one task at most), `Settled` (such a task works on no COMPLETED row), `MadeInv` (for every step what its predecessors have made, so that a file the context names exists), `UrlInv` (a URL in the context or the row stands for a stored and, where that is asked for, confirmed object), and `CompletedIsBacked` itself |
| `SceneAudioProofs!TypeCorrect` | any scripts and failures | inductive, with how many scenes and sentences are over |
| `CaptionsInOrderSafe` | the same | `CaptionInv`: the captions of the s-th scene stand after as many as the scenes before have sentences; `ClockInv`: a caption starts after what is shown before it and a padding for each earlier scene, and the scenes last as long in sum, when durations are all measured or all claimed |
| `CaptionLagSafe` | every sentence heard and measured | `SoundInv`: what is heard of a scene are its first sentences, each as long as its caption is shown; then a track with as many sounds as there are captions has each at its place (`SumsTight`: no scene can make up for another's missing sentence) |
| `VideoProgressProofs!TypeCorrect` | any lengths, reports, rates | the percentage is a natural number up to 100, by two lemmas on division |
| `FirstWatchSafe`, `CompletedSafe`, `QuizSafe`, `StartsOverSafe` | any catalog | `QuizInv`: an unlocked or completed record was earned, which mentions no catalog, so that no change of the catalog can break it |
| `DraftsProofs!TypeCorrect` | any items, documents, quizzes | inductive |
| `PiiSafe`, `DatasetSafe` | any batches and settings | `ItemInv`: at each place of an item, what has been checked by then; `FieldKnown`: a collection with the field is never taken for one without, so that a filter fixed before anything is known is there |
| `CheckedSafe` | any questions of the LLM | `QuestionInv`: at each place of a quiz, the stages its questions have passed |

`Reliable` is: no lost or late callbacks, no retry, no restart (the conditions
of `SourceSetFull`). The assumptions about constants are the `ASSUME`s of the
modules, which TLC evaluates in the runs.

*Sequences and sums* (`SceneAudioProofs`). What a recursive function computes is proved
without an induction rule: a set of numbers that is not empty has a least one (`Least`,
from the library's theorem that inclusion of finite sets is well founded), so that what
holds of 0 and of each number after one it holds of, holds of all (`UpTo`). With it
`TotalsExist` builds the running total of a sequence and `TotalsDef` concludes that the
recursive function is it; `TotalsConcat`, `Located`, `Flatten` and `SumsTight` say what
running totals and concatenated sequences are, and the invariants use nothing else.

Only model-checked: all liveness (`ProcessingEnds`, `AcceptedJobSettles`,
`ProcessingExpires`, `BatchesKeepGoing`, `TurnEnds`, `EndIsSeen`, `RequestsEnd`, and the
fairness part of `ImplementsLifecycle` of `SourceSet`), which the proof system does not
reach. Every invariant and every action property of a passing run is a theorem.

## 6. Where code and documents disagree

One run ends in a violation, and `PROJECT.json` quotes the lines.

`SourceSetRetry`: a set that failed cannot be started again. The entry of `_processing_jobs` stays, the answer is 202
LOCKED, and nothing runs, though the comments promise a retry. Losing the final callback,
or a restart, leaves a set locked in the same way.

Eight more definitions state what the repository says or relies on, and do not hold. They are in the
modules but in no configuration; added to the one named, each gives a counterexample.

| definition | add to | what happens |
|---|---|---|
| `RenderJob!RenderedOnceAtATime` | `RenderJobFull` | `start_job` "is safe to call several times" (`render_jobs.py:266`): two calls that wait for the render-spec start two executors, both write the row, and the first to end removes the other's entry |
| `RagIngest!OutcomeRemembered` | `RagIngestFull` | a RAGFlow reply that times out after acceptance erases the cache entry (`rag_documents.py:498`), the outcome a callback has stored included, against `rag_documents.py:67`; the document is ingested again |
| `ChatStream!TurnReported` | `ChatStreamFull` | a client that leaves while an event is written is not reported (`chat_stream_service.py:180`), and its id is refused until the entry's TTL is over (`chat_stream.py:52`); nothing else keeps a turn from being reported (`TurnReportedSafe`) |
| `ChatTurn!NeverRaises` | `ChatTurnFull` | `handle_chat` "handles errors without raising exceptions" (`chat_service.py:443`): every message routed to a search raises `TypeError` (`chat_service.py:1606` passes an argument that `rag_handler.py:526` does not have), which the endpoint turns into a 500; the tests put a mock in place of the handler. A blocked query that reaches `fetch_for_api` raises as well |
| `FaqDraft!OutageIsNotEmpty` | `DraftsFull` | `rag_handler.py` raises for an outage and counts an empty result as none (`:563`), but the Milvus client answers an outage with an empty list (`milvus_client.py:793`): a search that failed is told as NO_DOCS_FOUND |
| `SceneAudio!CaptionsFollowSound` | `SceneAudioFull` | "exact timing sentence by sentence" (`video_renderer_mvp.py:359`): the captions count a padding after each scene that the joined track does not have, and run late by one more padding per scene |
| `SourceSet!AllChunks` | `SourceSetFull` | `get_document_chunks` "reads all chunks of the document" (`milvus_client.py:822`, `source_set_orchestrator.py:843`): it stops at 10,000 (`milvus_client.py:819`, `:862`) without an error or a mark, and a larger document is COMPLETED with a part; `AllChunksSafe` has the conditions under which the promise holds |
| `SourceSet!JobAgrees` | `SourceSetFaulty` | when its task is over a set should have the status of the job: a lost final callback leaves it locked, and a patch that is applied late takes a SCRIPT_READY set back to SCRIPT_GENERATING |

Also in the render runner: the window of `start_job` admits a cancellation, and a job
canceled while `start_job` waits is rendered all the same. `retry_job` does the same to a
job that is QUEUED: it refuses PROCESSING only, so a row whose executor has not begun gets
a second one.

Found while modelling, without a definition of their own:

- Backend ids and `create_job` together allow several active jobs of one video,
  since `create_job_with_id` looks at the id alone.
- With a slow RAGFlow or a lost PATCH the properties of the prompt ingest fail as well: the
  entry expires and the document is ingested twice, or the cache says COMPLETED while the
  backend does not. A lost callback of RAGFlow, a lost PATCH and a lost completion callback
  of a render job (`render_job_runner.py:989`) are logged and never repeated; the text is
  read by document id when another version may have replaced it (`rag_documents.py:596`).
- When no scene can be generated the set is reported SCRIPT_READY with a fallback
  script; `docs/분석/소스셋콜백API명세.md:277` says FAILED.
- An empty page of RAGFlow's ends the reading of chunks as well, and the document counts
  as COMPLETED with the chunks read so far (`emptyPage` breaks `ChunksComplete`).
- An exception outside the attempts at a scene replaces the script by the
  fallback, without the scenes already sent as patches (`outline` breaks
  `PatchesInScript`).
- After an `error` event of the LLM a stream goes on to `done`, is marked completed
  and reported without the error; the endpoint's description says the stream ends
  with `error`.
- `stop()` sends one last batch, its docstring says the remaining events.
- A confirmation never expires: only clarifications are given an `expires_at`,
  though `app/core/config.py:165` speaks of the time for both. A "yes" the next day
  executes the action.
- The clarifications of the rules are UNKNOWN with confidence 0.3, which
  `handle_chat` disregards: the question is stored and not shown, and the next
  message is read as its answer. `docs/개발보고서/DEVELOPMENT_REPORT_PHASE23.md:338`
  shows it asked, with the group EDU; the code computes the group UNKNOWN, which has
  no keywords.
- "Exactly once per turn" (`chat_service.py:1410`): most early returns emit no
  CHAT_TURN (complaints, questions, help, personalized answers).
- The resolver's own prompt for a critical action is not stored, so that the "yes"
  to it is a new query.
- No AI log is ever sent: `_send_ai_log` passes `ab_model`, `ab_embedding_model` and
  `ab_collection_name` (`chat_service.py:1476`), which `create_log_entry` does not have; the
  `TypeError` is swallowed.
- `_last_error_reason` is never set to a reason any more (the gate and the citation guard
  block nothing), so a complaint always gets the general apology; and with
  ANSWER_GUARD_DEBUG the turn raises `KeyError`, as `log_debug_info` reads a key that
  `to_log_dict` does not write.
- A retried job of the MVP renderer has its slides twice: contexts are kept, and paths
  appended to them (`video_renderer_mvp.py:408`). The real renderer reports COMPLETED, then
  PROCESSING, then COMPLETED again, the first time before anything is recorded; and once its
  directory is cleaned up a retry in the same process cannot write into it.
- A render-spec that cannot be fetched fails the job without an event for its watchers. A
  disconnect leaves `_socket_videos` behind.
- After a failed join only the first scene is heard, while the captions cover all of them. If
  measured and claimed durations are mixed, captions overlap: the properties of `SceneAudio`
  are stated for durations of one origin (`Consistent`).
- A video that is completed, reopened and started anew while IN_PROGRESS loses its permission
  to seek, against the header of `video_progress_service.py:9`. The header's second
  rule (10 s, 30 %) is not in the code. `complete_video` checks neither the position nor the
  rate. `unregister_mandatory_4type` changes nothing for a training that is in the catalog.
- FAQ drafts: the `question` an LLM returns and the titles of documents that came with a
  request are not checked for personal data; forbidden questions are looked for only before
  a search; the manifest check is never enabled; the fallback to RAGFlow and the second
  retrieval of the docstrings do not exist; the docstring of `pii_service` says the original text
  is returned on errors, the code fails closed. `_collection` is set before its `load()`
  succeeds, so that a load that failed is not tried again. An unconfigured domain searches
  everything. `_truncate_context` has no effect for five documents of 500 characters.
- Quizzes: the number of questions and options is only asked for; duplicates inside one
  answer stay; a question that names an unknown block is looked for in all of them; a
  correct option without keywords passes the SOURCE stage (`SourceOk`, and so
  `DeliveredIsChecked` asks for a match of keywords only where there are any); `_last_qc_result` may be
  another request's.
- A stream that outlives the tracker's TTL loses its entry, and a second stream of
  the id is admitted beside it (`slow` breaks `OneStreamPerId`).

## 7. What is not modelled

`PROJECT.json` lists every component with a reason. In short:

- *Data.* Texts, prompts, embeddings, images and audio are abstracted to what the properties
  tell apart. The rules of the router, the keywords of the intent service, the patterns of
  the PII and forbidden-query filters and the anchor words of the search gate are
  conditions on text: the modules take every verdict they can give. The text utilities
  (splitting, cleaning, converting a script) are functions without a state.
- *I/O.* The clients of the backend, of speech and avatars, and the formatting of the
  backend's data for a prompt are requests without a state of their own; what their
  answers and failures do is in the modules of their callers.
- *Unreached code.* `utils/cache.py` is imported by nobody. `VideoRenderService` is an
  older path without a route (its cancellation is overwritten by COMPLETED, and the
  idempotency of its docstring is not implemented). `_generate_script_legacy`,
  `_save_fail_chunks_to_backend`, `notify_script_complete` and the backend client's
  `send_ai_log` have no caller; the endpoints of `internal_rag.py` answer 410. The search
  of the chat cannot be called (section 6); the same search is modelled under the FAQ
  drafts, which can.
- *Frame.* Authentication, middleware, configuration and logging. Requests have the
  guards of their own that the middleware gives them.
- *Time.* Delays are left out except where a TTL, a grace or a clock decides something; those
  are counted in ticks that are longer than any HTTP timeout.

## 8. What could come next

- When the chat's search can be called again: `SearchRaises` becomes `Retrieval`'s search,
  composed into `ChatTurn`, with the block of the filter and the outage as its cases.
- When a route uses the real renderer or the video progress service: their runs as they are,
  with the order of the calls that the route allows.
