# Inference Forge in TLA+

Specifications of the state machines behind Inference Forge: the job stores, the
GPU residency coordinator with its policy and its worker loop, the media store
with its previews, and the executor that runs embedding and rerank jobs over
them. They are written from the source under `src/`; each definition's lines are
listed in `PROJECT.json` under `map`. TLC checks small instances; TLAPS proves the
safety properties of all of them for every value of their constants.

Run a check with `tlc -config X.cfg MCModule` and a proof module with
`tlapm ModuleProofs.tla`.

## 1. The system

| Part | State it keeps | Operations | Runs on |
|---|---|---|---|
| `RedisJobStore` | in Redis: one record per job (with a TTL once it is finished) and the queue list; in the process: the worker task | create, get, update, `_run`, cleanup, start with recovery, stop | every Redis command in a thread of its own |
| `InMemoryJobStore` | a dictionary and an `asyncio.Queue` | the same | the event loop |
| `JobExecutor` | `_gpu_lock` | execute: resolve media, `ensure_gpu`, infer in batches, report progress | called by the one worker task of the store |
| `ResidencyCoordinator` | the models' lifecycle states, a lock | prepare, ensure_gpu with restore | called by the executor |
| Qwen engines | `_model`, state, the weights' device | prepare_cpu, load_gpu, warmup, offload_cpu, embed / rerank | threads |
| `ResidencyPolicy` | none | decide | pure |
| `WorkerScheduler` | current model, three stamps, epoch cost | run_once | a worker loop; broker and executor are protocols without an implementation in the repository yet |
| `MediaStore` with `SourceUrlIndex` | uploads/ and downloads/, records, digests, cached source urls, a lock per url | save_upload, download_url, get, preview, cleanup, indexing at startup | uploads and lookups on the event loop, downloads, previews and cleanup in threads |
| direct downloader, `yt-dlp` extractor, ffprobe, ffmpeg | temp files | download, probe, cut, transcode | the caller's thread |
| browser preview | the preview cache on disk | probe the codec, transcode, send | a thread per request |
| `MediaInputResolver` | the clip cache on disk | resolve, segment | event loop |
| `CleanupService` | a task | media cleanup, then job cleanup | event loop and a thread |
| `lifespan` | | wires the parts, starts and stops them | |
| routes, configuration, web console, scripts | | | |

A client creates a job through a route; the store saves and queues it; the
store's worker hands it to the executor, which reads media, asks the coordinator
for a model, runs it and reports stages back through `update`. Cleanup removes
finished jobs and expired files behind everybody's back, and the process may end
at any moment while Redis and the disk stay.

What is hard about it:

- *Redis commands as steps.* Every command is awaited in a thread, so requests,
  worker, expiry, cleanup, crash and shutdown interleave between any two of
  them. Recovery queues ids that the list still holds; records expire by
  themselves; a command may fail after it has taken effect.
- *Partial failure of a switch.* `ensure_gpu` is a chain of threads, each of
  which may raise and leave the weights on either device.
- *Two queues, one GPU.* Deadlines, minimum residency and budgets against
  starvation, decided from state that was read at different times.
- *Threads on shared dictionaries and paths.* Downloads, commits, previews and
  the cleaner check and act in separate steps on the same files and indexes.
- *Caches that are files.* A clip or a preview that exists is taken for complete,
  whoever wrote it and however that ended; expiry goes by the time of writing,
  not of use.
- *Lists that are zipped.* Segments, batches, vectors and results are matched by
  position alone, through loops whose steps depend on the data.

What makes the parts correct: a submitted job stays visible until it has its one
outcome; it is not handled twice; it is not left behind by a restart; no engine
infers on the wrong device; a failed switch gives back what it took; no queue
starves; a media id that was given out resolves until it is cleaned up, across
restarts (see disagreement 6); a cached preview is complete; a video is segmented without gaps, and
every result is that of its own input; whatever has begun ends.

## 2. The modules

| Module | Models | Checked by |
|---|---|---|
| `JobTypes` | job statuses and what a client can tell of them | extended by the stores |
| `JobContract` | abstract specification: what a store promises the clients that poll it | refined by both stores |
| `RedisJobStore` | `redis_store.py`, one action per Redis command | `MCRedisJobStore` |
| `MemoryJobStore` | `store.py` | `MCMemoryJobStore` |
| `GpuResidency` | `residency.py` over the two engines' lifecycles | `MCGpuResidency` |
| `ResidencyPolicy` | `policy.py` as operators | through `WorkerScheduler` |
| `WorkerScheduler` | `scheduler.py`, extends `ResidencyPolicy` | `MCWorkerScheduler` |
| `MediaStore` | `store.py`, `source_index.py`, `direct.py`, and what `extractor.py` yields, in `platform/media` | through `BrowserPreview` |
| `BrowserPreview` | the service of media: `MediaStore` with `browser_preview.py` and its route | `MCMediaStore` |
| `JobStages` | abstract specification: what a client sees of a job's progress | refined by `JobExecution` |
| `JobExecution` | `executor.py`, `media_inputs.py`, `cut_video_segment` | `MCJobExecution` |
| `QueueLemmas` | what Append and Tail do to the range of a sequence and to its freedom from duplicates | |
| `RedisJobStoreProofs`, `MemoryJobStoreProofs`, `GpuResidencyProofs`, `WorkerSchedulerProofs`, `BrowserPreviewProofs`, `JobExecutionProofs` | theorems | tlapm |

Operators marked `Mutant:` are wrong on purpose: a plausible slip in the code
(a dropped reset, a swapped order, a missing case). They are used by nothing;
replacing the real definition by its mutant must make the property named in
`PROJECT.json` fail, which shows that the property depends on that code.

### RedisJobStore

`record`, `queue` and `aged` are what Redis holds and survive the process.
`record[j]` is the status in the job's JSON, or `absent`; progress, labels,
payload and result are left out since no control depends on them. `aged` are
finished records whose TTL is over; whether Redis (`ExpireKey`) or the cleanup
(`CleanupRead`, `CleanupDelete`) gets them first is open.

`wpc` follows `_run`: `poll` (BLPOP), `fetch` (GET), `mark` (saving
`started_at`), `handle` (the handler), `merge` (an `update` between its GET and
its SET), `finish` (saving the outcome), `dead` (the task has ended with an
exception), `off`. `wrec` is the worker's own copy of the record, which
`update` does not share. `Start`, `RecoverSave`, `RecoverPush` and `Serve` are
`start()`, command by command; a crash may come between any two. `Stop` is
`stop()`: the cancelled worker may have a save or a BLPOP in flight, so what
remains of them is a choice (`StopLeaves`, `StopQueues`).

A failed command counts one fault and may have had its effect or not; a BLPOP
on an idle list ends in a socket timeout as well, which changes nothing and is a
stutter, unless an id was popped just then (`PopReplyLost`). Not modelled: SCAN
returning a key twice (recovery is idempotent but for one more duplicate, which
the model already has), loss of Redis' own data, and the in-process deque of
recent jobs that nothing reads.

### MemoryJobStore

A method without a suspending await is one step. The handler and the worker
share the record object, so there is no copy to save back.

### GpuResidency

One call at a time: the executor holds its lock around `ensure_gpu` and the
inference, the coordinator its own. `pc` is the thread that the call awaits and
`purpose` why; `displaced` is the list `active` and `pending` what is left of it
to offload or restore. When a thread raises, what the engine's code has already
assigned is assigned, and where a half-moved model's weights are is a choice.
`Constructible` is the constructor's test: with two models, dedicated mode
raises, so the modes that occur are swapping and co-resident.

### ResidencyPolicy and WorkerScheduler

`run_once` has an action per await. It sets its three stamps together, so one
`age` stands for all of them. It reads the clock once, before everything else;
`lag` is the time since and is what `age` is reset to after an activation.
Ages saturate at `TimeCap`, which no threshold exceeds, and the cost at the
budget: beyond them `decide` cannot tell values apart. The broker holds how long
each item has waited; items arrive at any time and another worker may claim
them. The coordinator is what a call of it may do: the target becomes ready and
the others not, or it raises and any part of what was ready is left. (That a
restore may fail is what `GpuResidency` shows.)

`late` and `passed` are history: which queues had an overdue item when the policy
decided, and how many batches of the other kind went past it.

### MediaStore

Bytes are a member of `Contents`, which also stands for the digest and the id.
`files` is what lies at the paths that an id may have: one in each of the two
indexed directories, its preview, and the preview's temporary file. The content
type belongs to the bytes, so they have one file name in each directory. `_commit`
makes it from that type and startup knows a file by the type that `mimetypes`
guesses from the name: `Recognised` are the contents for which that is an allowed
type, and the other files are passed over (`Indexable`). A file is
`whole`, `torn` (not the bytes of its id), or named after the request that is
writing it, for a file that is moved while it is written keeps being written.
Requests are used once each; `Workloads` are the sets of them that clients may
send. Uploads and lookups do not interleave with each other (`LoopFree`),
everything else does: each download has steps for the lock lookup, the lock's
creation, the acquisition, opening and writing its temporary file, the digest
check, the move, the probe with the record, the digest, and the source url
(`Share`, when the bytes are known and the record of another request is taken); the
cleaner has a step per line. A url of a host that is left to `yt-dlp` is
downloaded into a directory of its own, so one step (`Extract`) yields a file or
raises, and no path is shared before the commit. Some steps that no other actor
can tell apart are taken together: acquiring a lock with the second look at the
cache, and reading a record with `touch` on its path.

Three races are real and damage what they hit until a restart or a further
cleanup: the cleaner unlinking a path that was refreshed or is re-created after
it was found expired; two downloads of one url sharing the temporary file because
`lock()` (or `pop()`) gave them different locks; and two previews of one video
transcoding to the same temporary path, where the quicker one puts into the cache
what the other is still writing. `raced` collects the contents hit by any of
them, and the safety properties are stated for all others. So they say that
nothing else goes wrong; without the exemption TLC finds each damage in 13 to 38
steps.

Not modelled: size limits (`Contents` are acceptable), cleanup of temporary files
and the pruning of empty directories, and the cleanup of decoded media, which is
in `JobExecution`.

### BrowserPreview

`GET /media/{id}/preview` looks the record up without touching its file, probes
the codec in a thread, and transcodes what browsers do not play. `source` is the
directory of the record it has found, which it keeps using when the record is
gone. ffmpeg writes to `Partial(r)`, which depends on the media id alone, and
`replace` moves it to `Target(r)`; the file that is sent is looked for once more.
Each of these is a step, and the cleaner, other previews and a crash come between
any two. `ServiceSpec` is `MediaStore` with these requests added and its fairness
extended to them.

### JobExecution and JobStages

`job` is the payload: the inputs with an optional query of an embedding job, or
the documents with the query of a rerank job, and `top_k`. `index` and `start`
are the two loops of expansion (`Order` is the order in which the code resolves
items: the query after the inputs of an embedding job, but before documents),
`inputs` and `query` the lists they build, `position` the loop over batches.
Seconds are whole numbers, and a clip is its video with its two ends, which is
what its file name says (the sampling options in it are the same for all). Every
round of a loop is a step, because the cleaner runs in a thread and may remove
clips in between; a cut is two steps, because ffmpeg writes to the path that a
later look takes for the finished clip. `torn` are the clips it has begun and not
finished. A clip that is found is neither checked nor refreshed. `expired` clips
are those that the cleaner may remove, one at a time; clips age between jobs,
since a TTL is hours. The job fails where the code raises: in the validation of
the payload or in the `update()` that reports the next stage, from a job that
clients still see as queued or as resolving (`ReportFails`; a Redis command failed
or the record is gone), before anything of an item is resolved (`Refuse`), in
ffmpeg (`CutFails`), or in `ensure_gpu`, the engine and the report on a batch
(`InferFails`). That saving the outcome itself may fail is `RedisJobStore`'s affair.
`Readable` says that the engine finds the files of a
batch; what it makes of a torn one is its own affair, and nothing is claimed
about it. Which results score best is open: with a query, any `top_k` of them are
returned.

There is no end to the jobs: the worker goes on to another payload, and a crash
makes it begin the one it had anew, with the clip cache as it was left.

`JobStages` knows nothing of clips and batches. Its `stage` and `progress` are the
two fields of the record that clients poll; `JobExecution` implements it with
`kind <- job.kind`. That progress never falls within a stage, that resolving comes
before inference and inference before completion, and that 100 is reached only
by completing are thus one property, `ImplementsStages`. A job may fail from any stage
before the end, `queued` among them.

## 3. The runs

| Run | Instance | Shows |
|---|---|---|
| `redis_safety` | 3 jobs, 1 stage, 2 lives, 1 failed command per life | each failed command strands at most one job, none is handled twice in a life or after its outcome, no phantom stage, `JobContract` with durable records, and every queued job gets an outcome while the process serves, its worker lives and no command has failed |
| `redis_requeue` (violation) | 2 jobs, 2 lives, no failed command | without exempting a dead worker this last property fails: see below |
| `memory_jobs` | 3 jobs, 2 lives | one place per job, the worker survives, `JobContract` without durability, every job finishes |
| `residency` | 2 models, caps on both sides of co-residency, up to 4 failures | the coordinator's safety properties, and that no failure is a trap |
| `residency_leftover` (violation) | 1 failure | two models on the GPU when swapping |
| `scheduler` | queues of 2 and 1 items, ages up to 2, 1 failure | right belief, overdue queues take turns, no starvation |
| `scheduler_recovery` (violation) | queues of 1 | a displaced model is not asked for again |
| `media` | 1 upload, 2 direct downloads of one url, 1 by `yt-dlp`, 1 lookup and 2 previews of one video, in three workloads; in a fourth, 2 uploads and 1 lookup of bytes that a restart passes over; 2 lives | indexes, files and given-out ids agree; cached previews are complete; requests end; expired files go |
| `media_restart` (violation) | an unreadable video | startup fails |
| `media_types` (violation) | 1 upload that a restart passes over | its id is gone |
| `media_sources` (violation) | 2 urls with the same bytes | a cached url without media |
| `execution` | jobs without end out of 9 payloads of both kinds, 1 crash | videos covered without tiny tails, every result that of its input, stages and progress in order (`JobStages`), every job ends, torn clips go |

The bounds are large enough for the case each hazard is about. Two lives are one
restart, with everything a first life may leave behind; duplicates in the list
need one restart, and a second recovery differs only in more duplicates. Three
jobs let one be queued behind a duplicate of a second while a third is created.
Four failures cover a failed target, a failed restore and a failure in each of
two further calls. Two ticks and thresholds of 1 and 2 distinguish overdue,
resident long enough and fresh. In `scheduler` the queues differ in length so
that one keeps an item behind after a batch. Two downloads, an upload and a
lookup of the same bytes are the actors of every media race between commits; a
third commit would only repeat them. A download by `yt-dlp` meets a direct one
and an upload in a workload of its own, and so do two previews an upload, since
previews share nothing with downloads but the file they read. Bytes that a restart
passes over differ from others only in that restart, so uploads and a lookup are
enough for them. The payloads of
`execution` have chunks that divide a video, leave a tail of one second, overlap,
exceed it or are refused, an unknown duration, two videos in a row, clips and
named segments in common, kinds with different batch limits, no inputs, no
documents, and `top_k` below and above the number of results. Since jobs follow
one another without end, every payload meets every state of the cache that any
sequence of others, with one crash in it, may leave.

Deadlock checking is off where the system comes to a stop: after the last
life, after the last request, or with a dead worker.

### Fairness

- `RedisJobStore`: a thread finishes what it was given and the loop resumes the
  task, so commands that stay due are issued (weak). The handler ends although
  it is interrupted by its own reports (strong for `HandlerEnds`): it reports one
  stage per batch of a finite input. Nothing is assumed of clients, time,
  crashes or restarts.
- `MemoryJobStore`: the same for the worker task.
- `GpuResidency`: an awaited thread returns or raises (weak).
- `WorkerScheduler`: time passes, and the loop calls `run_once` again and what
  it awaits returns or raises (weak). Nothing is assumed of arrivals or other
  workers.
- `MediaStore`: some request that has begun goes on as long as one can, and
  cleanup is called again and again (weak). A started download ends by its
  timeout, and every other step is local.
- `BrowserPreview`: as `MediaStore`. ffprobe and ffmpeg are assumed to end: they
  read a finite file, though the code sets them no timeout.
- `JobExecution`: the step of the job that is due is taken (weak): ffmpeg and the
  engine return or raise, the rest is local. For `TornClipsGo` also: there is
  another job some day (weak), hours pass between some of them (strong for `Age`,
  which a running job interrupts), and a cleanup pass visits every file (weak for
  the clip that the property follows).

### Disagreements with the documentation

1. *A requeued duplicate can end the worker* (`redis_requeue`). Recovery pushes
   ids that may still be in the list. If the first copy is finished and its
   record removed before the second is popped, `get()` raises `KeyError` outside
   the `try` block of `_run`, the task ends and later jobs stay queued.
2. *Swapping can keep two models on the GPU* (`residency_leftover`). Only
   `GPU_READY` models are offloaded; a model that failed in its move or warm-up
   keeps its weights there when the other one is loaded.
3. *A failed restore is never noticed* (`scheduler_recovery`). `_current` still
   names the displaced model, `stay` does not call `ensure_gpu`, and its batches
   fail until the other queue gets work.
4. *A rejected video stops the next start* (`media_restart`). `_commit` moves
   before it probes and leaves the file; `_load_existing` probes it again and
   nothing catches the exception.
5. *A second url outlives its media* (`media_sources`). Cleanup pops only the url
   in the record; for another url with the same bytes `download_url` raises
   `KeyError` until a restart.
6. *A restart forgets files by their names* (`media_types`). `_index_existing` skips
   a file whose guessed type is not allowed. An allowed type that
   `EXTENSIONS_BY_TYPE` lacks gets no extension, and Python 3.11 and 3.12 do not
   know `.webp` unless the machine has a `mime.types` file that does: the id stops
   resolving, and the file stays until it expires.

## 4. What is proved

For every finite or infinite set of jobs, every set of stages and every bound;
for every finite set of models and every memory budget; for every threshold and
queue length; for every set of uploads, downloads, lookups, previews, contents
and urls and every number of restarts; for every set of videos, payloads and
batch limits. The only assumptions are the named `ASSUME`s: "no job" is not a
job, stages are active statuses, bounds, thresholds and durations are naturals,
batch limits are positive, payloads are well-formed, requests are of one kind
each and not named like a state of a file, and downloads of one url get the same
bytes.

- **Job stores.** `Invariance`: `Inv` is inductive. The safety properties alone
  are not: that a job is handled at most once needs to know that its record
  stays unfinished as long as the worker holds it (`WorkerShape`), that nothing
  but finished records is removed (`TtlShape`), and that a job handled in this
  life is either in the worker's hands, settled, or lost with the worker
  (`AttemptShape`); that recovery strands nobody needs to know what recovery has
  rewritten is in the list (`RecoveryShape`). The in-memory store has `MemoryInv`.
  `TypeCorrect` (of both), `OneAttemptPerLife`, `ProgressIsReal`, `OnePlace`,
  `Survival` follow; `NoRerun` step by step. `Stranding` counts: `StrandedStep` finds
  for each step that the stranded jobs of a serving process are among those before
  it, or are one more and a command has failed, or that recovery has just ended and
  there are none; the cardinality then stays within the faults of this life. `Refinement`: every step of a store is a step
  of `JobContract` on `clientStatus` or leaves it unchanged, from `Inv` by cases
  on the actions.
- **Coordinator.** `Invariance` for `ResidencyInv`: the position of the call
  (`CallShape`), what it has displaced (`DisplacedShape`) and what that means for
  the states (`StateShape`). At most one model is displaced at a time, since at
  most one is ready outside co-residency, and that in turn holds because what is
  ready is displaced before the target moves. `TypeCorrect`, `OneReady`,
  `Truthful` follow, and `Restores` is an action property from the same
  invariant.
- **Policy and worker loop.** `Judgement` is about `decide` alone, for any
  thresholds and any state it is given: it idles only when both queues are empty,
  never asks for a model without work, answers an overdue queue at once, and takes
  the GPU from a model with work only for an overdue queue or after minimum
  residency and cooldown with a budget spent. `Believes` is inductive as it
  stands. `Turns`, that a queue seen overdue is passed over at most once, is not:
  that a second time is impossible follows from where the first one leaves the
  model. `TurnShape` says that a queue once passed over still has items, that the
  other model is resident until its own has become so, and that a decision that
  sees it overdue is for it, which is what `Judgement` says of the queue states
  that were read.
- **Media store and previews.** `IndexesAgree`, `BytesBehindRecords`,
  `PromisedIdsResolve` and `PreviewsWhole` from one invariant, `IndInv` of
  `BrowserPreviewProofs`, all of it for contents that no race has hit, and the third
  for `Lasting` ones: any before the first restart, then those whose files startup
  recognises. What carries it is what each actor knows between its steps. A commit that has moved
  its bytes has a fresh file (`CommitsKept`), so a cleaner that unlinks it must
  have looked at it before, and that is the race. `OneWriter` and `TempsKept` say
  the same of a url's temporary file: a second download in it is found out when it
  opens it. An expired file with a record is settled (`Settled`): time passes only
  between requests, so no commit of its bytes is on its way, and none can begin
  while `_by_hash` has them, which it does until the cleaner has dropped the
  record. `Cleaning` follows the cleaner through that order, and `Indexed` is
  `IndexesAgree` with the commits and the cleanup that are under way. `Promises`
  exchanges the record of an id that was given out for its file in a crash, and
  back when startup has indexed it. `OnePreview` and `PartialsKept` are for
  ffmpeg's temporary file what `OneWriter` and `TempsKept` are for a download's.
- **Executor.** `Covers`, `NoTail`, `Match` and the refinement of `JobStages` from
  one invariant. `VideoCovered` speaks of the time when all is resolved; `CoverShape`
  is what the loop keeps: videos before `index` are covered, and the one at
  `index` up to `start`. It needs that segmentation advances by a positive step
  no longer than the clip (`DueFacts`), and that the loop stops only at the end or
  where less than the minimum is left. `VectorShape` says that the vectors are those
  of the inputs before the next batch, whichever batch limits led there, so that
  the lists that are zipped have one length; `Match` follows with the cardinality
  of the zipped set. `StageShape` gives the percentage as a function of the
  vectors, and `Share` shows that it grows with them and stays a percentage, by
  bounding integer division. `ResolveShape` ties the place in the request to the
  rest.

Model-checked only: the liveness properties (`QueuedJobsFinish`, `WaitingJobsFinish`,
`EnsureRecovers`, `NoStarvation`, `RequestsEnd`, `ExpiredFilesGo`, `JobEnds`,
`TornClipsGo`), which are out of this prover's reach: fairness needs ENABLED.

## 5. Plan

In this order:

1. `JobPipeline`: executor, store, coordinator and media store composed: the
   media of a waiting job cleaned up before it runs, `_gpu_lock` under shutdown,
   and `CleanupService`, whose pass skips the job cleanup when the media cleanup
   raises.
2. An abstract specification of the media store (an id given out, then cleaned
   up) that `MediaStore` refines where no race has hit.
3. The polling loop of the web console.

Not planned: validation, authentication, response schemas, configuration and
scripts (no state), tensor computation and cosine scores (no state, real
numbers), and the `yt-dlp` options (string handling).
