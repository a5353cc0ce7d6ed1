---------------------------- MODULE JobExecution ----------------------------
(***************************************************************************)
(* JobExecutor (app/services/runtime/executor.py) with the                 *)
(* MediaInputResolver that expands its inputs (media_inputs.py): which     *)
(* clips a video is cut into, which of them are taken from the clip cache, *)
(* in which batches the inputs go through the engine, and which input each *)
(* result belongs to.                                                      *)
(*                                                                         *)
(* The worker task runs one job at a time.  Inputs are resolved on the     *)
(* event loop without an await, ffmpeg included, so that only the cleanup  *)
(* thread comes between the steps.  After a crash the job store hands the  *)
(* job out again, to a process that finds the clip cache as it was left.   *)
(* Times are whole seconds.                                                *)
(***************************************************************************)
EXTENDS Integers, Sequences, FiniteSets, SequencesExt

CONSTANTS
    Duration,       \* duration_seconds of each video, or Unknown
    Unknown,        \* what ffprobe could not tell
    Payloads,       \* the jobs that clients submit
    Limit,          \* embedding_<kind>_batch_max
    Watched,        \* the clip that TornClipsGo follows
    MaxCrashes      \* bound: crashes of the process

MIN_TAIL_SEGMENT_SECONDS == 2

InputKinds == {"text", "image", "video"}

\* An item of a request; `chunk` is 0 if it is not to be segmented, `from` and
\* `to` are those of a video_segment.
Items ==
    [type : InputKinds \cup {"video_segment"},
     media : DOMAIN Duration \cup {"none"},
     chunk : Nat, overlap : Nat, from : Nat, to : Nat]

ToBeSegmented(i) == i.type = "video" /\ i.chunk > 0

\* EmbeddingJobPayload and RerankJobPayload, whose documents are `input` here;
\* `query` has at most one item.
IsPayload(p) ==
    /\ p.kind \in {"embedding", "reranking"}
    /\ p.input \in Seq(Items) /\ p.query \in Seq(Items)
    /\ Len(p.query) <= 1 /\ (p.kind = "reranking" => Len(p.query) = 1)
    /\ p.top_k \in Nat \ {0}
    /\ \A i \in ToSet(p.input \o p.query) :
           i.type = "video_segment" \/ ToBeSegmented(i) => i.media \in DOMAIN Duration

ASSUME ExecutionAssumption ==
    /\ \A v \in DOMAIN Duration : Duration[v] \in Nat \cup {Unknown}
    /\ Unknown \notin Nat
    /\ \A p \in Payloads : IsPayload(p)
    /\ Limit \in [InputKinds -> Nat \ {0}]
    /\ MaxCrashes \in Nat

VARIABLES
    job,        \* the payload
    pc,         \* where the job is
    stage, progress,    \* its status and percentage as a client sees them
    index,      \* the item being resolved
    start,      \* `start` of segment_video
    inputs,     \* qwen_inputs with their metadata, or the documents
    query,      \* query_input
    position,   \* `start` of _embedding_batches
    vectors,    \* for each vector or score the number of the input it is for
    results,    \* the items returned, each with what was computed for it
    whole,      \* clips in the cache that ffmpeg has finished
    torn,       \* clips in the cache that it has not
    expired,    \* those older than the TTL of decoded media
    crashes

reportVars == <<stage, progress>>
resolveVars == <<index, start, inputs, query>>
inferVars == <<position, vectors, results>>
cacheVars == <<whole, torn, expired>>
vars == <<job, pc, reportVars, resolveVars, inferVars, cacheVars, crashes>>

Cached == whole \cup torn
Done == {"complete", "failed"}
NoClip == [media |-> "none", from |-> 0, to |-> 0]
Clips == [media : DOMAIN Duration, from : Nat, to : Nat]
Inputs == [type : InputKinds, item : Nat, clip : Clips \cup {NoClip}]

TypeOK ==
    /\ job \in Payloads
    /\ pc \in {"new", "resolve", "cut", "infer"} \cup Done
    /\ stage \in {"queued", "resolving_media", job.kind} \cup Done
    /\ progress \in 0..100
    /\ index \in Nat /\ start \in Nat /\ position \in Nat
    /\ inputs \in Seq(Inputs) /\ query \in Seq(Inputs)
    /\ vectors \in Seq(Nat) /\ results \subseteq Nat \X Nat
    /\ whole \subseteq Clips /\ torn \subseteq Clips /\ whole \cap torn = {}
    /\ expired \subseteq Cached
    /\ crashes \in 0..MaxCrashes

Init ==
    /\ job \in Payloads /\ pc = "new"
    /\ stage = "queued" /\ progress = 0
    /\ index = 1 /\ start = 0 /\ inputs = <<>> /\ query = <<>>
    /\ position = 1 /\ vectors = <<>> /\ results = {}
    /\ whole = {} /\ torn = {} /\ expired = {}
    /\ crashes = 0

\* A job is handed to the executor, with nothing left of an earlier one.
Renewed ==
    /\ pc' = "new"
    /\ stage' = "queued" /\ progress' = 0
    /\ index' = 1 /\ start' = 0 /\ inputs' = <<>> /\ query' = <<>>
    /\ position' = 1 /\ vectors' = <<>> /\ results' = {}

\* The handler raises, and the store saves the outcome.
Fails ==
    /\ pc' = "failed"
    /\ stage' = "failed" /\ progress' = 0
    /\ UNCHANGED <<job, resolveVars, inferVars, crashes>>

-----------------------------------------------------------------------------
(* Resolving media: expand_embedding_inputs, segment_video, resolve_for_qwen. *)

Begin ==
    /\ pc = "new"
    /\ pc' = "resolve"
    /\ stage' = "resolving_media"
    /\ progress' = IF job.kind = "embedding" THEN 12 ELSE 20
    /\ UNCHANGED <<job, resolveVars, inferVars, cacheVars, crashes>>

\* The query comes after the inputs of an embedding job and before documents.
Order ==
    IF job.kind = "embedding" THEN job.input \o job.query ELSE job.query \o job.input

IsQuery == IF job.kind = "embedding" THEN index > Len(job.input) ELSE index = 1

Resolving == pc = "resolve" /\ index <= Len(Order)
item == Order[index]

\* Only the inputs of an embedding job are segmented.
Segmented ==
    job.kind = "embedding" /\ ~IsQuery /\ ToBeSegmented(item)

Segmenting ==
    /\ Segmented
    /\ Duration[item.media] # Unknown
    /\ item.overlap < item.chunk

SegmentEnd ==
    LET end == start + item.chunk
    IN IF end < Duration[item.media] THEN end ELSE Duration[item.media]

Clip ==
    IF Segmented
    THEN [media |-> item.media, from |-> start, to |-> SegmentEnd]
    ELSE [media |-> item.media, from |-> item.from, to |-> item.to]

Add(clip) ==
    LET input == [type |-> IF item.type = "video_segment" THEN "video" ELSE item.type,
                  item |-> index, clip |-> clip]
    IN IF IsQuery
       THEN query' = Append(query, input) /\ UNCHANGED inputs
       ELSE inputs' = Append(inputs, input) /\ UNCHANGED query

\* Before anything of the item is resolved: it has no text, its media is not
\* known or of the wrong kind, its duration is not known, the clips would not get
\* on, or the segment is empty.  ValueError.
Refuse ==
    /\ Resolving /\ start = 0
    /\ Fails
    /\ UNCHANGED cacheVars

ResolvePlain ==
    /\ Resolving /\ ~Segmented /\ item.type # "video_segment"
    /\ Add(NoClip)
    /\ index' = index + 1
    /\ UNCHANGED <<job, pc, reportVars, start, inferVars, cacheVars, crashes>>

\* Mutant: a short tail is a clip as well.
AtVeryEnd == start >= Duration[item.media]

\* At its end, or a tail that is too short and not the only clip.
AtEnd ==
    \/ start >= Duration[item.media]
    \/ start > 0 /\ SegmentEnd - start < MIN_TAIL_SEGMENT_SECONDS

\* Mutant: the next video goes on where this one has ended.
EndVideoAsIs ==
    /\ Resolving /\ Segmenting /\ AtEnd
    /\ index' = index + 1
    /\ UNCHANGED <<job, pc, reportVars, start, inputs, query, inferVars, cacheVars,
                   crashes>>

\* Mutant: `continue` for `break`: a short tail is looked at for ever.
EndVideoContinues ==
    /\ Resolving /\ Segmenting /\ start >= Duration[item.media]
    /\ index' = index + 1 /\ start' = 0
    /\ UNCHANGED <<job, pc, reportVars, inputs, query, inferVars, cacheVars, crashes>>

EndVideo ==
    /\ Resolving /\ Segmenting /\ AtEnd
    /\ index' = index + 1 /\ start' = 0
    /\ UNCHANGED <<job, pc, reportVars, inputs, query, inferVars, cacheVars, crashes>>

ClipDue ==
    /\ Resolving
    /\ \/ Segmenting /\ ~AtEnd
       \/ item.type = "video_segment" /\ item.from < item.to

Advance ==
    /\ Add(Clip)
    /\ IF Segmented
       THEN start' = start + (item.chunk - item.overlap) /\ UNCHANGED index
       ELSE index' = index + 1 /\ UNCHANGED start
    /\ UNCHANGED <<job, reportVars, inferVars, crashes>>

\* Mutant: a clip that is used again becomes younger.
ReuseTouches ==
    /\ ClipDue /\ Clip \in Cached
    /\ Advance
    /\ expired' = expired \ {Clip}
    /\ UNCHANGED <<pc, whole, torn>>

\* path.exists(): the clip is used as it is.
Reuse ==
    /\ ClipDue /\ Clip \in Cached
    /\ Advance
    /\ UNCHANGED <<pc, cacheVars>>

\* cut_video_segment: ffmpeg writes to the very path.
Cut ==
    /\ ClipDue /\ Clip \notin Cached
    /\ torn' = torn \cup {Clip}
    /\ pc' = "cut"
    /\ UNCHANGED <<job, reportVars, resolveVars, inferVars, whole, expired, crashes>>

\* Mutant: ffmpeg writes the clip beside the file that is there already.
CutDoneBeside ==
    /\ pc = "cut"
    /\ whole' = whole \cup {Clip}
    /\ pc' = "resolve"
    /\ Advance
    /\ UNCHANGED <<torn, expired>>

CutDone ==
    /\ pc = "cut"
    /\ whole' = whole \cup {Clip} /\ torn' = torn \ {Clip}
    /\ pc' = "resolve"
    /\ Advance
    /\ UNCHANGED expired

\* ffmpeg fails, with or without a part of the clip at the path.
CutFails ==
    /\ pc = "cut"
    /\ torn' \in {torn, torn \ {Clip}}
    /\ Fails
    /\ UNCHANGED <<whole, expired>>

Resolved ==
    /\ pc = "resolve" /\ index > Len(Order)
    /\ pc' = "infer"
    /\ stage' = job.kind
    /\ progress' = IF job.kind = "embedding" THEN 45 ELSE 55
    /\ UNCHANGED <<job, resolveVars, inferVars, cacheVars, crashes>>

\* job_store.update() raises before a stage begins (a Redis command fails or the
\* record is gone), or the payload is not valid.  If the report was saved all the
\* same, that is Begin or Resolved and then a failure in the stage it begins.
ReportFails ==
    /\ pc = "new" \/ (pc = "resolve" /\ index > Len(Order))
    /\ Fails
    /\ UNCHANGED cacheVars

-----------------------------------------------------------------------------
(* Inference, with the model on the GPU.                                   *)

\* The engine finds the file of an input.
Readable(input) == input.clip = NoClip \/ input.clip \in Cached

Embedding == pc = "infer" /\ job.kind = "embedding"

\* The first input of a batch decides how many go with it.
BatchEnd ==
    LET last == position + Limit[inputs[position].type] - 1
    IN IF last < Len(inputs) THEN last ELSE Len(inputs)

Batch == [n \in 1..(BatchEnd - position + 1) |-> position + n - 1]

\* _embed_inputs reports how many of the inputs are done.
Report(done) == progress' = 45 + (35 * done) \div Len(inputs)

\* Mutant: the next batch starts after the largest one there could be.
EmbedBatchSkips ==
    /\ Embedding /\ position <= Len(inputs)
    /\ \A n \in position..BatchEnd : Readable(inputs[n])
    /\ vectors' = vectors \o Batch
    /\ position' = position + Limit["text"]
    /\ Report(BatchEnd)
    /\ UNCHANGED <<job, pc, stage, resolveVars, results, cacheVars, crashes>>

\* Mutant: the progress of the batch is reported, not that of the job.
EmbedBatchAlone ==
    /\ Embedding /\ position <= Len(inputs)
    /\ \A n \in position..BatchEnd : Readable(inputs[n])
    /\ vectors' = vectors \o Batch
    /\ position' = position + Limit[inputs[position].type]
    /\ Report(Len(Batch))
    /\ UNCHANGED <<job, pc, stage, resolveVars, results, cacheVars, crashes>>

EmbedBatch ==
    /\ Embedding /\ position <= Len(inputs)
    /\ \A n \in position..BatchEnd : Readable(inputs[n])
    /\ vectors' = vectors \o Batch
    /\ position' = position + Limit[inputs[position].type]
    /\ Report(BatchEnd)
    /\ UNCHANGED <<job, pc, stage, resolveVars, results, cacheVars, crashes>>

\* rerank(): the query with all documents in one call, if there are any.
Rerank ==
    /\ pc = "infer" /\ job.kind = "reranking" /\ position = 1
    /\ inputs # <<>> => \A input \in ToSet(query \o inputs) : Readable(input)
    /\ vectors' = [n \in 1..Len(inputs) |-> n]
    /\ position' = Len(inputs) + 1
    /\ UNCHANGED <<job, pc, reportVars, resolveVars, results, cacheVars, crashes>>

\* ensure_gpu raises, or the report on a batch, or the engine, which it must if a
\* file is gone.
InferFails ==
    /\ pc = "infer"
    /\ Fails
    /\ UNCHANGED cacheVars

\* zip(metadata, vectors, strict=False).
Scored ==
    {<<n, vectors[n]>> : n \in 1..(IF Len(vectors) < Len(inputs) THEN Len(vectors)
                                    ELSE Len(inputs))}

\* With a query, the top_k best of them by scores that nobody can foretell.
Returned ==
    IF query = <<>> \/ Cardinality(Scored) < job.top_k THEN {Scored}
    ELSE {best \in SUBSET Scored : Cardinality(best) = job.top_k}

\* Everything is embedded, the query of an embedding job last, or scored.
Complete ==
    /\ pc = "infer" /\ position > Len(inputs)
    /\ job.kind = "embedding" => \A input \in ToSet(query) : Readable(input)
    /\ results' \in Returned
    /\ pc' = "complete"
    /\ stage' = "complete" /\ progress' = 100
    /\ UNCHANGED <<job, resolveVars, position, vectors, cacheVars, crashes>>

JobStep ==
    \/ Begin \/ Refuse \/ ResolvePlain \/ EndVideo
    \/ Reuse \/ Cut \/ CutDone \/ CutFails \/ Resolved \/ ReportFails
    \/ EmbedBatch \/ Rerank \/ InferFails \/ Complete

-----------------------------------------------------------------------------
(* The surroundings.                                                       *)

\* The worker takes the next job.
NextJob ==
    /\ pc \in Done
    /\ job' \in Payloads
    /\ Renewed
    /\ UNCHANGED <<cacheVars, crashes>>

\* The process ends, an ffmpeg it is waiting for with it, and the next one
\* requeues the job.
Crash ==
    /\ pc \in {"resolve", "cut", "infer"}
    /\ crashes < MaxCrashes /\ crashes' = crashes + 1
    /\ Renewed
    /\ UNCHANGED <<job, cacheVars>>

\* The TTL is hours: clips age between jobs.  That all do at once loses
\* nothing: any of them may then be removed, at any time or never.
Age ==
    /\ pc = "new"
    /\ expired' = Cached /\ expired # Cached
    /\ UNCHANGED <<job, pc, reportVars, resolveVars, inferVars, whole, torn, crashes>>

\* _cleanup_dir on decoded media, in the cleanup thread.
RemoveExpired(clip) ==
    /\ clip \in expired
    /\ whole' = whole \ {clip} /\ torn' = torn \ {clip}
    /\ expired' = expired \ {clip}
    /\ UNCHANGED <<job, pc, reportVars, resolveVars, inferVars, crashes>>

Next ==
    \/ JobStep \/ NextJob \/ Crash
    \/ Age \/ \E clip \in expired : RemoveExpired(clip)

Spec == Init /\ [][Next]_vars

\* A job goes on: ffmpeg and the engine return or fail.  There is always another
\* job some day, hours pass between some of them, and a cleanup pass visits every
\* file.
FairSpec ==
    /\ Spec
    /\ WF_vars(JobStep) /\ WF_vars(NextJob)
    /\ SF_vars(Age) /\ WF_vars(RemoveExpired(Watched))

-----------------------------------------------------------------------------

ClipsOf(i) == {inputs[n].clip : n \in {n \in DOMAIN inputs : inputs[n].item = i}}

\* Every second of a segmented video is in one of its clips, but for a tail
\* shorter than MIN_TAIL_SEGMENT_SECONDS, whatever the overlap, whichever clips
\* were cached and whatever stood before it in the request.  (Not with chunks
\* shorter than that minimum: of those, only the first is a clip.)
VideoCovered ==
    Embedding =>
        \A i \in DOMAIN job.input :
            /\ ToBeSegmented(job.input[i])
            /\ job.input[i].chunk >= MIN_TAIL_SEGMENT_SECONDS
            => \A t \in 0..(Duration[job.input[i].media] - MIN_TAIL_SEGMENT_SECONDS) :
                   \E c \in ClipsOf(i) : c.from <= t /\ t + 1 <= c.to

\* Logic/media-ingestion.md: "Video segmentation should not emit tiny trailing
\* clips after normal segments."
NoTinyTail ==
    job.kind = "embedding" =>
        \A n \in DOMAIN inputs :
            LET c == inputs[n].clip
            IN ToBeSegmented(job.input[inputs[n].item]) /\ c.from > 0 =>
                   c.to - c.from >= MIN_TAIL_SEGMENT_SECONDS

\* Every result of a finished job carries the vector or score of its own input,
\* and none is missing but for those beyond top_k, for any mixture of kinds and
\* batch limits: _score_embedding_items and _rerank_job zip lists without a check
\* of their lengths, which would silently pair or drop what does not fit.
ResultsMatchInputs ==
    pc = "complete" =>
        /\ \A r \in results : r[1] = r[2]
        /\ Cardinality(results) =
               IF query # <<>> /\ job.top_k < Len(inputs) THEN job.top_k ELSE Len(inputs)

\* What clients see of a job are the stages of JobStages, in their order.
Stages == INSTANCE JobStages WITH kind <- job.kind
ImplementsStages == Stages!Spec

\* Every job comes to an end, but for a crash: segmentation stops and the
\* batches get through the inputs.
JobEnds == pc = "resolve" ~> pc \in Done \cup {"new"}

\* A clip that ffmpeg did not finish is taken for the real one by every job that
\* wants it, but not for ever: cleanup removes it, however often it is used.
TornClipsGo == Watched \in torn ~> Watched \notin torn

=============================================================================
